--------------------------- MODULE SparseSm80Proofs ---------------------------
(***************************************************************************)
(* The sparse kernels of SM8x and SM120 for every number of warps, tiles   *)
(* and restarts and every outcome of the votes: as long as no outcome is   *)
(* misread, which only the forward kernel can do, the warps go through the *)
(* same tiles and multiply with whole operands.                            *)
(*                                                                         *)
(* The argument.  A warp that is blocked is at a barrier; one that is not  *)
(* knows which barrier it meets next: its gate.  All warps have the same   *)
(* gate (GateInv), for a barrier is left by all of them at once.  What a   *)
(* warp's part of the buffers holds, and which of its copies are under     *)
(* way, depends on where it is alone (PlaceOK, QueueOK, MemOK), so that    *)
(* the gate of one warp tells what the others have copied and written.     *)
(* What they share, the words and the decisions, is right for a warp that  *)
(* is not blocked, and for warp 0 (FactInv).                               *)
(***************************************************************************)
EXTENDS SparseSm80, FiniteSetTheorems, SequenceTheorems, WellFoundedInduction, TLAPS

(* Labels: before a tile, with its scores, after its outcome, at the end. *)
Before == {"restart", "first", "tile", "epilogue"}
Scored == {"s", "reduce", "read", "act"}
KeptSteps  == {"dp", "ds", "dv", "dk", "dq", "dqload"}
Closing == {"epilogue", "write", "store", "done"}
InTile == Scored \union KeptSteps \union {"pv"}
Labels == {"load"} \union Before \union InTile \union Closing

(* The stage of a tile in a given launch. *)
UpTo(l, t)   == {0} \union {s \in l.restarts : s <= t}
StartOf(l, t) == CHOOSE s \in UpTo(l, t) : \A r \in UpTo(l, t) : r <= s
QS(l, t) == IF (t - StartOf(l, t)) % l.stages = 0 THEN "Q0" ELSE "Q1"

(* The first barrier of a tile, or of the epilogue. *)
BeginGate(l, t) ==
    <<t, IF t = l.tiles THEN IF l.gqa THEN "done" ELSE "write"
         ELSE IF t \in l.restarts THEN "first" ELSE "s">>

(* The label at which a warp that goes on from a label meets the others.   *)
NextGate(l, d, label, t) ==
    CASE label \in {"load", "restart", "epilogue"} -> BeginGate(l, t)
      [] label \in {"first", "tile"} -> <<t, "s">>
      [] label = "s" -> <<t, IF l.kind = "forward" /\ t = 0 THEN "act" ELSE "reduce">>
      [] label = "reduce" -> <<t, "read">>
      [] label \in {"read", "act"} ->
           IF d[t + 1] THEN BeginGate(l, t + 1)
           ELSE <<t, IF l.kind = "forward" THEN "pv" ELSE "dp">>
      [] label = "dp" -> <<t, "ds">>
      [] label \in {"ds", "dv"} -> <<t, IF l.stages = 1 THEN "dk" ELSE "dq">>
      [] label = "dk" -> IF l.stages = 1 THEN <<t, "dqload">> ELSE BeginGate(l, t + 1)
      [] label \in {"pv", "dq", "dqload"} -> BeginGate(l, t + 1)
      [] label = "write" -> <<t, "store">>
      [] OTHER -> <<t, "done">>

Gate(w) == IF Blocked(w) THEN <<tile[w], pc[w]>>
           ELSE NextGate(launch, decision, pc[w], tile[w])
GateInv == \A v, w \in Warps : Gate(v) = Gate(w)

(* A barrier counts the warps blocked on it. *)
BarrierOf(label) == IF label \in {"write", "store"} THEN EpilogueBarrier ELSE "cta"
BarInv ==
    /\ bar = [b \in {"cta", "Epilogue"} |-> bar[b]]
    /\ \A b \in {"cta", "Epilogue"} :
         /\ bar[b] = [count |-> Cardinality(bar[b].blocked), blocked |-> bar[b].blocked]
         /\ bar[b].blocked \subseteq Warps
         /\ bar[b].count < launch.warps
         /\ \A w \in bar[b].blocked : b = BarrierOf(pc[w]) /\ pc[w] # "load"

TypeInv ==
    /\ launch \in Launches
    /\ pc \in [Warps -> Labels] /\ tile \in [Warps -> Nat]
    /\ queue = [w \in Warps |-> queue[w]]
    /\ mem = [b \in Buffers |-> [w \in Warps |-> mem[b][w]]]
    /\ words = [w \in Warps |-> words[w]]
    /\ vote \in [Warps -> BOOLEAN] /\ isSkip \in [Warps -> BOOLEAN]
    /\ decision \in Seq(BOOLEAN)
    /\ misread \in BOOLEAN

(* Where a warp can be. *)
PlaceOK(w) ==
    /\ pc[w] = "load" => tile[w] = 0
    /\ pc[w] \in InTile \union {"first", "tile"} => tile[w] < NumTiles
    /\ pc[w] \in Closing => tile[w] = NumTiles
    /\ pc[w] = "restart" => tile[w] \in launch.restarts
    /\ pc[w] = "first" /\ tile[w] \notin launch.restarts => tile[w] = 0 /\ ~Forward
    /\ pc[w] = "pv" => Forward
    /\ pc[w] \in KeptSteps => ~Forward
    /\ pc[w] \in {"reduce", "read"} /\ Forward => tile[w] > 0
    /\ pc[w] = "dqload" => launch.stages = 1
    /\ pc[w] \in {"write", "store"} => ~launch.gqa
    /\ pc[w] \in KeptSteps \union {"pv"} => ~isSkip[w]
    /\ pc[w] = "act" /\ Forward /\ tile[w] = 0 => ~isSkip[w]

(* The groups no wait of a warp has covered. *)
More(l, t)  == t + 1 < l.tiles /\ t + 1 \notin l.restarts
NextQ(l, t) == IF More(l, t) THEN {<<QS(l, t + 1), t + 1>>} ELSE {}
QueueF(l, q, label, t) ==
    /\ label = "tile" => q = <<{<<"K", t>>}>>
    /\ label = "pv" /\ More(l, t) => q = <<{<<"K", t + 1>>}>>
    /\ label = "pv" /\ ~More(l, t) => q = <<>>
    /\ label \notin {"tile", "pv"} => q = <<>>
QueueB(l, q, label, t) ==
    /\ label = "restart" /\ t = 0 => q = <<CopyKV>>
    /\ label = "restart" /\ t > 0 => q = <<{}>>
    /\ label = "first" /\ t \in l.restarts => q = <<>>
    /\ label = "first" /\ t \notin l.restarts => q = <<CopyKV>>
    /\ label = "tile" /\ t = 0 /\ t \notin l.restarts => q = <<CopyKV, {<<QS(l, t), t>>}>>
    /\ label = "tile" /\ ~(t = 0 /\ t \notin l.restarts) => q = <<{<<QS(l, t), t>>}>>
    /\ label \in {"ds", "dv", "dk"} /\ l.stages = 2 => q = <<NextQ(l, t)>>
    /\ label \in {"ds", "dv", "dk"} /\ l.stages = 1 => q = <<>>
    /\ label = "dq" => q = <<NextQ(l, t)>>
    /\ label \in Closing /\ l.tiles = 0 => q = <<CopyKV>>
    /\ label \in Closing /\ l.tiles > 0 => q = <<{}>>
    /\ label \in Scored \union {"load", "dp", "dqload"} => q = <<>>
QueueOK(w) == IF Forward THEN QueueF(launch, queue[w], pc[w], tile[w])
              ELSE QueueB(launch, queue[w], pc[w], tile[w])

(* On its way to the first barrier after a tile a warp still has its part  *)
(* of the operands of that tile, if it has kept it.                        *)
Late(w) == pc[w] \in Before \union {"s", "write"} \/ (pc[w] = "done" /\ launch.gqa)
LastKept(w) == Late(w) /\ tile[w] > 0 /\ ~isSkip[w]

(* What a warp's part of the buffers holds. *)
MemF(w) ==
    /\ pc[w] \notin {"load", "store", "done"} => mem["Q"][w] = Fixed
    /\ pc[w] \in Scored => mem["K"][w] = tile[w]
    /\ pc[w] = "pv" => mem["V"][w] = tile[w]
    /\ LastKept(w) => mem["V"][w] = tile[w] - 1
HasKV(w) == \/ pc[w] \in Scored \union KeptSteps
            \/ Late(w) /\ tile[w] > 0
            \/ pc[w] \in {"first", "tile"} /\ tile[w] \in launch.restarts
MemB(w) ==
    /\ HasKV(w) => mem["K"][w] = Fixed /\ mem["V"][w] = Fixed
    /\ pc[w] \in Scored \union KeptSteps /\ (pc[w] = "dq" => launch.stages = 2) =>
          mem[QS(launch, tile[w])][w] = tile[w]
    /\ pc[w] \in KeptSteps => mem["dO"][w] = tile[w]
    /\ pc[w] \in KeptSteps \ {"dp"} => mem["P"][w] = tile[w]
    /\ pc[w] \in KeptSteps \ {"dp", "ds"} => mem["dS"][w] = tile[w]
    /\ LastKept(w) => mem["dS"][w] = tile[w] - 1
    /\ LastKept(w) /\ launch.stages = 2
         /\ (pc[w] \in {"tile", "s"} => tile[w] \notin launch.restarts) =>
          mem[QS(launch, tile[w] - 1)][w] = tile[w] - 1
MemOK(w) == IF Forward THEN MemF(w) ELSE MemB(w)

(* The decisions: how many there are depends on warp 0 alone. *)
Post    == {"read", "act", "pv"} \union KeptSteps
DecInv ==
    /\ Len(decision) = tile[0] + (IF pc[0] \in Post THEN 1 ELSE 0)
    /\ \A w \in Warps : tile[w] <= Len(decision)
    /\ Forward /\ Len(decision) > 0 => ~decision[1]
SkipOK(w) ==
    /\ pc[w] = "act" /\ ~(Forward /\ tile[w] = 0) =>
          tile[w] < Len(decision) /\ isSkip[w] = decision[tile[w] + 1]
    /\ Late(w) /\ tile[w] > 0 => isSkip[w] = decision[tile[w]]

SkipInv == \A w \in Warps : SkipOK(w)

(* The words of the votes. *)
CastAt(w) == pc[w] = "reduce" \/ (pc[w] = "read" /\ w # 0 /\ Blocked(w))
CastInv == \A w \in Warps : CastAt(w) => words[w] = Vote(vote[w])

(* What a warp that has come to a label may rely on. *)
TileBytes(l, t) == [v \in 0 .. l.warps - 1 |-> Bytes(t)]
Fact(l, d, wd, label, t) ==
    /\ label \in Post => t < Len(d)
    /\ label \in KeptSteps \union {"pv"} => ~d[t + 1]
    /\ label \in {"pv", "ds", "dv"} => wd = TileBytes(l, t)
    /\ label = "read" => wd[0] = Vote(d[t + 1]) \/ (l.kind = "forward" /\ wd[0] = Bytes(t))
Free(w) == w = 0 \/ ~Blocked(w)
FactInv == \A w \in Warps : Free(w) => Fact(launch, decision, words, pc[w], tile[w])

LocalAt(w) == PlaceOK(w) /\ QueueOK(w) /\ MemOK(w)
LocalInv   == \A w \in Warps : LocalAt(w)
Followed == /\ BarInv /\ GateInv /\ LocalInv
            /\ DecInv /\ SkipInv /\ CastInv /\ FactInv
IInv == TypeInv /\ (~Forward => ~misread) /\ (misread \/ Followed)

-----------------------------------------------------------------------------
(* Launches, stages and gates. *)

LEMMA LaunchFacts ==
    ASSUME NEW l \in Launches
    PROVE  /\ l.kind \in {"forward", "backward"}
           /\ l.warps \in Nat \ {0} /\ l.tiles \in Nat
           /\ \A i \in l.restarts : i \in Nat /\ i < l.tiles
           /\ l.stages \in {1, 2} /\ l.gqa \in BOOLEAN
           /\ l.kind = "forward" => /\ l.tiles > 0 /\ 0 \notin l.restarts
                                    /\ l.stages = 1 /\ l.gqa = FALSE
<1>1. /\ l.kind \in {"forward", "backward"} /\ l.warps \in 1 .. MaxWarps
      /\ l.tiles \in Nat /\ l.restarts \subseteq 0 .. l.tiles - 1
      /\ l.stages \in 1 .. 2 /\ l.gqa \in BOOLEAN
      /\ l.kind = "forward" => /\ l.tiles > 0 /\ 0 \notin l.restarts
                               /\ l.stages = 1 /\ ~l.gqa
  BY LaunchesAssumption
<1>2. MaxWarps \in Nat
  BY LaunchesAssumption
<1>3. l.warps \in Nat \ {0} /\ l.stages \in {1, 2}
  BY <1>1, <1>2
<1>4. \A i \in l.restarts : i \in Nat /\ i < l.tiles
  BY <1>1
<1>5. QED
  BY <1>1, <1>3, <1>4

(* The greatest of some numbers that do not exceed a bound. *)
LEMMA Greatest ==
    ASSUME NEW t \in Nat, NEW S, S \subseteq 0 .. t, S # {}
    PROVE  \E s \in S : \A r \in S : r <= s
<1> DEFINE T == {t - s : s \in S}
           R == {p \in Nat \X Nat : p[1] < p[2]}
<1>1. \A s \in S : s \in Int /\ s <= t
  OBVIOUS
<1>2. T \subseteq Nat /\ T # {}
  <2>1. \A s \in S : t - s \in Nat
    BY <1>1
  <2>2. QED
    BY <2>1
<1>3. OpToRel(<, Nat) = R
  BY DEF OpToRel
<1>4. IsWellFoundedOn(R, Nat)
  BY <1>3, NatLessThanWellFounded
<1> HIDE DEF R
<1>5. \E x \in T : \A y \in T : ~ (<<y, x>> \in R)
  BY <1>2, <1>4, WFMin
<1>6. PICK x \in T : \A y \in T : ~ (<<y, x>> \in R)
  BY <1>5
<1>7. PICK s \in S : x = t - s
  BY <1>6
<1>8. ASSUME NEW r \in S PROVE r <= s
  <2>1. t - r \in T /\ t - r \in Nat /\ t - s \in Nat
    BY <1>2, <1>6, <1>7
  <2>2. ~ (<<t - r, t - s>> \in R)
    BY <1>6, <1>7, <2>1
  <2>3. ~ (t - r < t - s)
    BY <2>1, <2>2 DEF R
  <2>4. QED
    BY <1>1, <1>7, <2>3
<1>9. QED
  BY <1>8

(* A launch stays the same, and with it the stage of a tile. *)
LEMMA Stages ==
    /\ \A t : QStage(t) = QS(launch, t)
    /\ \A t : QStage(t)' = QS(launch', t)
BY DEF QStage, StageOf, Starts, QS, StartOf, UpTo

(* The tiles of a range alternate between two stages. *)
LEMMA Alternate ==
    ASSUME NEW l \in Launches, NEW t \in Nat
    PROVE  /\ QS(l, t) \in {"Q0", "Q1"}
           /\ l.stages = 2 /\ t + 1 \notin l.restarts => QS(l, t + 1) # QS(l, t)
<1>1. QS(l, t) \in {"Q0", "Q1"}
  BY DEF QS
<1>2. ASSUME l.stages = 2, t + 1 \notin l.restarts PROVE QS(l, t + 1) # QS(l, t)
  <2>1. \A i \in l.restarts : i \in Nat
    BY LaunchFacts
  <2>2. UpTo(l, t + 1) = UpTo(l, t)
    <3>1. \A i \in l.restarts : i <= t + 1 <=> i <= t
      BY <1>2, <2>1
    <3>2. QED
      BY <3>1 DEF UpTo
  <2>3. UpTo(l, t) \subseteq 0 .. t /\ UpTo(l, t) # {}
    BY <2>1 DEF UpTo
  <2>4. \E s \in UpTo(l, t) : \A r \in UpTo(l, t) : r <= s
    BY <2>3, Greatest
  <2>5. StartOf(l, t) \in UpTo(l, t)
    BY <2>4 DEF StartOf
  <2>6. StartOf(l, t) \in Nat /\ StartOf(l, t) <= t
    BY <2>3, <2>5
  <2>7. StartOf(l, t + 1) = StartOf(l, t)
    BY <2>2 DEF StartOf
  <2>8. ((t + 1) - StartOf(l, t)) % 2 = 0 <=> (t - StartOf(l, t)) % 2 # 0
    <3>1. \A a \in Int : (a + 1) % 2 = 0 <=> a % 2 # 0
      OBVIOUS
    <3>2. t - StartOf(l, t) \in Int /\ (t + 1) - StartOf(l, t) = (t - StartOf(l, t)) + 1
      BY <2>6
    <3>3. QED
      BY <3>1, <3>2
  <2>9. QED
    <3>1. /\ (t - StartOf(l, t)) % l.stages = (t - StartOf(l, t)) % 2
          /\ ((t + 1) - StartOf(l, t + 1)) % l.stages = ((t + 1) - StartOf(l, t)) % 2
      BY <1>2, <2>7
    <3>2. \A i : QS(l, i) = "Q0" <=> (i - StartOf(l, i)) % l.stages = 0
      BY "Q0" # "Q1", Zenon DEF QS
    <3>3. QED
      BY <2>8, <3>1, <3>2
<1>3. QED
  BY <1>1, <1>2

LEMMA Buffer ==
    ASSUME launch \in Launches
    PROVE  /\ Forward => Buffers = {"Q", "K", "V"}
           /\ ~Forward => Buffers = {"Q0", "Q1", "K", "V", "dO", "P", "dS"}
BY DEF Buffers

LEMMA Gates ==
    ASSUME NEW l, NEW d, NEW t
    PROVE  /\ NextGate(l, d, "load", t) = BeginGate(l, t)
           /\ NextGate(l, d, "restart", t) = BeginGate(l, t)
           /\ NextGate(l, d, "epilogue", t) = BeginGate(l, t)
           /\ NextGate(l, d, "first", t) = <<t, "s">>
           /\ NextGate(l, d, "tile", t) = <<t, "s">>
           /\ NextGate(l, d, "s", t) =
                <<t, IF l.kind = "forward" /\ t = 0 THEN "act" ELSE "reduce">>
           /\ NextGate(l, d, "reduce", t) = <<t, "read">>
           /\ \A label \in {"read", "act"} : NextGate(l, d, label, t) =
                IF d[t + 1] THEN BeginGate(l, t + 1)
                ELSE <<t, IF l.kind = "forward" THEN "pv" ELSE "dp">>
           /\ NextGate(l, d, "dp", t) = <<t, "ds">>
           /\ \A label \in {"ds", "dv"} :
                NextGate(l, d, label, t) = <<t, IF l.stages = 1 THEN "dk" ELSE "dq">>
           /\ NextGate(l, d, "dk", t) =
                IF l.stages = 1 THEN <<t, "dqload">> ELSE BeginGate(l, t + 1)
           /\ \A label \in {"pv", "dq", "dqload"} :
                NextGate(l, d, label, t) = BeginGate(l, t + 1)
           /\ NextGate(l, d, "write", t) = <<t, "store">>
           /\ \A label \in {"store", "done"} : NextGate(l, d, label, t) = <<t, "done">>
BY DEF NextGate

-----------------------------------------------------------------------------
(* The barriers: a warp that arrives blocks, or all go on. *)

LEMMA WarpSet ==
    ASSUME launch \in Launches
    PROVE  /\ Warps = 0 .. launch.warps - 1 /\ 0 \in Warps
           /\ IsFiniteSet(Warps) /\ Cardinality(Warps) = launch.warps
<1>1. launch.warps \in Nat \ {0}
  BY LaunchFacts
<1>2. launch.warps - 1 \in Int /\ ~(0 > launch.warps - 1)
  BY <1>1
<1>3. /\ IsFiniteSet(0 .. launch.warps - 1)
      /\ Cardinality(0 .. launch.warps - 1) = launch.warps - 1 - 0 + 1
  BY <1>2, FS_Interval, SMTT(20)
<1>4. QED
  BY <1>1, <1>3 DEF Warps

LEMMA Crowd ==
    ASSUME launch \in Launches, NEW S, S \subseteq Warps, NEW w \in Warps \ S
    PROVE  /\ Cardinality(S) \in Nat /\ Cardinality(S \union {w}) = Cardinality(S) + 1
           /\ Cardinality(S) + 1 <= launch.warps
           /\ Cardinality(S) + 1 = launch.warps => S \union {w} = Warps
           /\ Cardinality({}) = 0
<1>1. IsFiniteSet(Warps) /\ Cardinality(Warps) = launch.warps
  BY WarpSet
<1>2. IsFiniteSet(S) /\ Cardinality(S) \in Nat
  BY <1>1, FS_Subset, FS_CardinalityType
<1>3. Cardinality(S \union {w}) = Cardinality(S) + 1
  BY <1>2, FS_AddElement
<1>4. S \union {w} \in SUBSET Warps
  OBVIOUS
<1>5. /\ Cardinality(S \union {w}) <= Cardinality(Warps)
      /\ Cardinality(Warps) = Cardinality(S \union {w}) => Warps = S \union {w}
  BY <1>1, <1>4, FS_Subset
<1>6. QED
  BY <1>1, <1>2, <1>3, <1>5, FS_EmptySet

LEMMA Names ==
    ASSUME NEW label
    PROVE  BarrierOf(label) \in {"cta", "Epilogue"}
BY DEF BarrierOf, EpilogueBarrier

(* Who is blocked is where a warp with that gate is about to arrive. *)
LEMMA BlockedThere ==
    ASSUME TypeInv, BarInv, GateInv, NEW w \in Warps, ~Blocked(w), NEW label, NEW t,
           NextGate(launch, decision, pc[w], tile[w]) = <<t, label>>,
           NEW v \in Warps, Blocked(v)
    PROVE  /\ pc[v] = label /\ tile[v] = t
           /\ v \in bar[BarrierOf(label)].blocked
<1>1. Gate(v) = <<tile[v], pc[v]>> /\ Gate(w) = <<t, label>>
  BY DEF Gate
<1>2. pc[v] = label /\ tile[v] = t
  BY <1>1 DEF GateInv
<1>3. PICK b \in DOMAIN bar : v \in bar[b].blocked
  BY DEF Blocked
<1>4. b \in {"cta", "Epilogue"} /\ b = BarrierOf(pc[v])
  BY <1>3 DEF BarInv
<1>5. QED
  BY <1>2, <1>3, <1>4

Released(w, label) == \A v \in Warps :
    ~Blocked(v)' /\ pc'[v] = label /\ tile'[v] = tile[w] /\ (v # w => Blocked(v))

LEMMA Arrival ==
    ASSUME TypeInv, BarInv, GateInv, NEW w \in Warps, ~Blocked(w),
           NEW label, label # "load",
           NextGate(launch, decision, pc[w], tile[w]) = <<tile[w], label>>,
           SyncOn(BarrierOf(label), w), Goto(w, label), UNCHANGED <<launch, tile>>
    PROVE  /\ BarInv'
           /\ \/ Blocked(w)' /\ \A v \in Warps \ {w} : Blocked(v)' <=> Blocked(v)
              \/ Released(w, label)
<1> DEFINE b == BarrierOf(label)
           S == bar[b].blocked
           Bars == {"cta", "Epilogue"}
<1>1. /\ b \in Bars /\ b' = b
      /\ DOMAIN bar = Bars
      /\ bar' = [bar EXCEPT ![b] = BarrierSync(@, w, launch.warps)]
      /\ Warps' = Warps
  BY Names DEF BarrierOf, EpilogueBarrier, Forward, BarInv, SyncOn, Warps
<1>2. \A c \in Bars : w \notin bar[c].blocked
  BY <1>1 DEF Blocked
<1>3. S \subseteq Warps /\ bar[b].count = Cardinality(S) /\ launch \in Launches
  <2>1. bar[b] = [count |-> Cardinality(S), blocked |-> S]
    BY <1>1 DEF BarInv
  <2>2. QED
    BY <1>1, <2>1 DEF BarInv, TypeInv
<1> HIDE DEF b
<1>4. /\ launch.warps \in Nat \ {0}
      /\ Cardinality(S) \in Nat /\ Cardinality(S \union {w}) = Cardinality(S) + 1
      /\ Cardinality(S) + 1 <= launch.warps
      /\ Cardinality(S) + 1 = launch.warps => S \union {w} = Warps
      /\ Cardinality({}) = 0
  BY <1>1, <1>2, <1>3, Crowd, LaunchFacts
<1>5. \A v \in Warps : Blocked(v) => pc[v] = label /\ tile[v] = tile[w] /\ v \in S
  BY BlockedThere DEF b
<1>6. /\ pc'[w] = label /\ \A v \in Warps \ {w} : pc'[v] = pc[v]
      /\ BarrierOf(label)' = b
  BY <1>1 DEF Goto, TypeInv, b
<1>7. \A v \in S : pc[v] = label
  BY <1>1, <1>3, <1>5 DEF Blocked
<1>8. CASE bar[b].count + 1 # launch.warps
  <2>1. /\ bar'[b] = [count |-> Cardinality(S) + 1, blocked |-> S \union {w}]
        /\ \A c \in Bars \ {b} : bar'[c] = bar[c]
        /\ bar' = [c \in Bars |-> bar'[c]]
    BY <1>1, <1>3, <1>8 DEF BarrierSync
  <2>2. BarInv'
    <3>1. ASSUME NEW c \in Bars
          PROVE  /\ bar'[c] = [count |-> Cardinality(bar'[c].blocked),
                               blocked |-> bar'[c].blocked]
                 /\ bar'[c].blocked \subseteq Warps
                 /\ bar'[c].count < launch.warps
                 /\ \A v \in bar'[c].blocked : c = BarrierOf(pc[v])' /\ pc'[v] # "load"
      <4>1. CASE c = b
        <5>1. bar'[c].blocked = S \union {w} /\ bar'[c].count = Cardinality(S) + 1
          BY <2>1, <4>1
        <5>2. \A v \in S \union {w} : pc'[v] = label
          BY <1>3, <1>6, <1>7
        <5>3. \A v \in S \union {w} : BarrierOf(pc[v])' = b
          BY <1>6, <5>2 DEF BarrierOf
        <5>4. Cardinality(S) + 1 < launch.warps
          BY <1>3, <1>4, <1>8
        <5>5. QED
          BY <1>3, <1>4, <2>1, <4>1, <5>1, <5>2, <5>3, <5>4
      <4>2. CASE c # b
        <5>1. bar'[c] = bar[c]
          BY <2>1, <4>2
        <5>2. \A v \in bar[c].blocked : v \in Warps \ {w} /\ pc'[v] = pc[v]
          BY <1>2, <1>6 DEF BarInv
        <5>3. \A v \in bar[c].blocked : BarrierOf(pc[v])' = BarrierOf(pc[v])
          BY <5>2 DEF BarrierOf, EpilogueBarrier, Forward
        <5>4. QED
          BY <5>1, <5>2, <5>3 DEF BarInv
      <4>3. QED
        BY <4>1, <4>2
    <3>2. QED
      BY <1>1, <2>1, <3>1 DEF BarInv
  <2>3. DOMAIN bar' = Bars
    BY <2>1
  <2>4. Blocked(w)'
    BY <1>1, <2>1, <2>3 DEF Blocked
  <2>5. ASSUME NEW v \in Warps \ {w} PROVE Blocked(v)' <=> Blocked(v)
    <3>1. \A c \in Bars : v \in bar'[c].blocked <=> v \in bar[c].blocked
      BY <2>1
    <3>2. QED
      BY <1>1, <2>3, <3>1 DEF Blocked
  <2>6. QED
    BY <2>2, <2>4, <2>5
<1>9. CASE bar[b].count + 1 = launch.warps
  <2>1. /\ bar'[b] = NoOne
        /\ \A c \in Bars \ {b} : bar'[c] = bar[c]
        /\ bar' = [c \in Bars |-> bar'[c]]
    BY <1>1, <1>9 DEF BarrierSync
  <2>2. S \union {w} = Warps
    BY <1>3, <1>4, <1>9
  <2>3. ASSUME NEW c \in Bars \ {b} PROVE bar[c].blocked = {}
    <3>1. \A v \in bar[c].blocked : v \in Warps /\ Blocked(v) /\ c = BarrierOf(pc[v])
      BY <1>1 DEF BarInv, Blocked
    <3>2. QED
      BY <1>5, <3>1 DEF b
  <2>4. \A c \in Bars : bar'[c].blocked = {}
    BY <2>1, <2>3 DEF NoOne
  <2>5. BarInv'
    <3>1. ASSUME NEW c \in Bars
          PROVE  /\ bar'[c] = [count |-> Cardinality(bar'[c].blocked),
                               blocked |-> bar'[c].blocked]
                 /\ bar'[c].count < launch.warps
      <4>1. CASE c = b
        <5>1. bar'[c] = [count |-> 0, blocked |-> {}]
          BY <2>1, <4>1 DEF NoOne
        <5>2. bar'[c].count = 0 /\ bar'[c].blocked = {}
          BY <5>1
        <5>3. Cardinality(bar'[c].blocked) = 0
          BY <1>4, <5>2
        <5>4. bar'[c].count < launch.warps
          BY <1>4, <5>2
        <5>5. QED
          BY <5>1, <5>2, <5>3, <5>4
      <4>2. CASE c # b
        BY <2>1, <4>2 DEF BarInv
      <4>3. QED
        BY <4>1, <4>2
    <3>2. QED
      BY <1>1, <2>1, <2>4, <3>1 DEF BarInv
  <2>6. \A v \in Warps : ~Blocked(v)'
    BY <2>1, <2>4 DEF Blocked
  <2>7. \A v \in Warps : v # w => Blocked(v)
    BY <1>1, <2>2 DEF Blocked
  <2>8. Released(w, label)
    BY <1>5, <1>6, <2>6, <2>7 DEF Released
  <2>9. QED
    BY <2>5, <2>8
<1>10. QED
  BY <1>8, <1>9

-----------------------------------------------------------------------------
(* What a step of one warp does to what the warps share. *)

(* A decision that is added changes no gate. *)
LEMMA GatesStay ==
    ASSUME TypeInv, FactInv, NEW d,
           d = decision \/ (\E f \in BOOLEAN : d = Append(decision, f)),
           NEW v \in Warps, ~Blocked(v)
    PROVE  NextGate(launch, d, pc[v], tile[v]) = NextGate(launch, decision, pc[v], tile[v])
<1>1. CASE pc[v] \in {"read", "act"}
  <2>1. tile[v] \in Nat /\ tile[v] < Len(decision) /\ decision \in Seq(BOOLEAN)
    BY <1>1 DEF FactInv, Free, Fact, Post, TypeInv
  <2>2. d[tile[v] + 1] = decision[tile[v] + 1]
    BY <2>1
  <2>3. QED
    BY <1>1, <2>2 DEF NextGate
<1>2. CASE pc[v] \notin {"read", "act"}
  BY <1>2 DEF NextGate
<1>3. QED
  BY <1>1, <1>2

LEMMA SharedArrives ==
    ASSUME TypeInv, BarInv, GateInv, FactInv,
           NEW w \in Warps, ~Blocked(w), NEW label, label # "load",
           NextGate(launch, decision, pc[w], tile[w]) = <<tile[w], label>>,
           SyncOn(BarrierOf(label), w), Goto(w, label), UNCHANGED <<launch, tile>>,
           decision' = decision \/ (\E f \in BOOLEAN : decision' = Append(decision, f)),
           \A v \in Warps \ {w} : Free(v) =>
              Fact(launch, decision', words', pc[v], tile[v]),
           w = 0 => Fact(launch, decision', words', label, tile[w]),
           \A v \in Warps \ {w} : CastAt(v) => words'[v] = Vote(vote'[v]),
           label = "reduce" \/ (label = "read" /\ w # 0) => words'[w] = Vote(vote'[w])
    PROVE  BarInv' /\ GateInv' /\ FactInv' /\ CastInv'
<1>1. /\ BarInv'
      /\ \/ Blocked(w)' /\ \A v \in Warps \ {w} : Blocked(v)' <=> Blocked(v)
         \/ Released(w, label)
  BY Arrival
<1>2. /\ Warps' = Warps /\ 0 \in Warps /\ launch' = launch /\ tile' = tile
      /\ pc'[w] = label /\ \A v \in Warps \ {w} : pc'[v] = pc[v]
  BY WarpSet DEF Warps, Goto, TypeInv
<1>3. \A v \in Warps : ~Blocked(v) => NextGate(launch, decision', pc[v], tile[v])
                                        = NextGate(launch, decision, pc[v], tile[v])
  BY GatesStay
<1>4. Gate(w) = <<tile[w], label>>
  BY DEF Gate
<1>5. CASE Blocked(w)' /\ \A v \in Warps \ {w} : Blocked(v)' <=> Blocked(v)
  <2>1. \A v \in Warps : Gate(v)' = Gate(v)
    <3>1. Gate(w)' = <<tile[w], label>>
      BY <1>2, <1>5 DEF Gate
    <3>2. \A v \in Warps \ {w} : Gate(v)' = Gate(v)
      BY <1>2, <1>3, <1>5 DEF Gate
    <3>3. QED
      BY <1>4, <3>1, <3>2
  <2>2. GateInv'
    BY <1>2, <2>1 DEF GateInv
  <2>3. FactInv'
    BY <1>2, <1>5 DEF FactInv, Free
  <2>4. CastInv'
    BY <1>2, <1>5 DEF CastInv, CastAt
  <2>5. QED
    BY <1>1, <2>2, <2>3, <2>4
<1>6. CASE Released(w, label)
  <2>1. \A v \in Warps : /\ ~Blocked(v)' /\ pc'[v] = label /\ tile'[v] = tile[w]
                         /\ v # w => Blocked(v) /\ pc[v] = label /\ tile[v] = tile[w]
    BY <1>2, <1>6 DEF Released
  <2>2. GateInv'
    <3>1. \A v \in Warps : Gate(v)' = NextGate(launch, decision', label, tile[w])
      BY <1>2, <2>1 DEF Gate
    <3>2. QED
      BY <1>2, <3>1 DEF GateInv
  <2>3. Fact(launch, decision', words', label, tile[w])
    <3>1. CASE w = 0
      BY <3>1
    <3>2. CASE w # 0
      BY <1>2, <2>1, <3>2 DEF Free
    <3>3. QED
      BY <3>1, <3>2
  <2>4. FactInv'
    BY <1>2, <2>1, <2>3 DEF FactInv
  <2>5. CastInv'
    BY <1>2, <2>1 DEF CastInv, CastAt
  <2>6. QED
    BY <1>1, <2>2, <2>4, <2>5
<1>7. QED
  BY <1>1, <1>5, <1>6

(* A step without a barrier. *)
LEMMA SharedPasses ==
    ASSUME TypeInv, BarInv, GateInv, FactInv, CastInv,
           NEW w \in Warps, ~Blocked(w), NEW label, NEW t,
           NextGate(launch, decision, label, t) = NextGate(launch, decision, pc[w], tile[w]),
           Goto(w, label), tile' = [tile EXCEPT ![w] = t],
           UNCHANGED <<launch, bar, decision, words, vote>>,
           Fact(launch, decision, words, label, t),
           label # "reduce"
    PROVE  BarInv' /\ GateInv' /\ FactInv' /\ CastInv'
<1>1. /\ Warps' = Warps /\ launch' = launch
      /\ pc'[w] = label /\ \A v \in Warps \ {w} : pc'[v] = pc[v]
      /\ tile'[w] = t /\ \A v \in Warps \ {w} : tile'[v] = tile[v]
  BY DEF Warps, Goto, TypeInv
<1>2. \A v \in Warps : Blocked(v)' <=> Blocked(v)
  BY DEF Blocked
<1>3. \A v \in Warps : Gate(v)' = Gate(v)
  <2>1. Gate(w)' = Gate(w)
    BY <1>1, <1>2 DEF Gate
  <2>2. \A v \in Warps \ {w} : Gate(v)' = Gate(v)
    BY <1>1, <1>2 DEF Gate
  <2>3. QED
    BY <2>1, <2>2
<1>4. GateInv'
  BY <1>1, <1>3 DEF GateInv
<1>5. BarInv'
  <2>1. \A b \in {"cta", "Epilogue"} : \A v \in bar[b].blocked :
          v \in Warps \ {w} /\ pc'[v] = pc[v]
    BY <1>1 DEF BarInv, Blocked
  <2>2. \A b \in {"cta", "Epilogue"} : \A v \in bar[b].blocked :
          BarrierOf(pc[v])' = BarrierOf(pc[v])
    BY <2>1 DEF BarrierOf, EpilogueBarrier, Forward
  <2>3. QED
    BY <1>1, <2>1, <2>2 DEF BarInv
<1>6. FactInv'
  BY <1>1, <1>2 DEF FactInv, Free
<1>7. CastInv'
  BY <1>1, <1>2 DEF CastInv, CastAt
<1>8. QED
  BY <1>4, <1>5, <1>6, <1>7

-----------------------------------------------------------------------------
(* Copies and waits. *)

LEMMA Waits ==
    /\ \A n \in Nat : Landed(<<>>, n) = {} /\ Left(<<>>, n) = <<>>
    /\ \A a : Landed(<<a>>, 0) = a /\ Left(<<a>>, 0) = <<>>
    /\ \A a, b : Landed(<<a, b>>, 0) = a \union b /\ Left(<<a, b>>, 0) = <<>>
    /\ \A a, b : Landed(<<a, b>>, 1) = a /\ Left(<<a, b>>, 1) = <<b>>
<1>1. ASSUME NEW n \in Nat PROVE Landed(<<>>, n) = {} /\ Left(<<>>, n) = <<>>
  <2>1. NumLanded(<<>>, n) = 0
    BY DEF NumLanded
  <2>2. QED
    BY <2>1 DEF Landed, Left
<1>2. ASSUME NEW a PROVE Landed(<<a>>, 0) = a /\ Left(<<a>>, 0) = <<>>
  <2>1. NumLanded(<<a>>, 0) = 1
    BY DEF NumLanded
  <2>2. {<<a>>[i] : i \in 1 .. 1} = {a}
    OBVIOUS
  <2>3. UNION {a} = a
    OBVIOUS
  <2>4. QED
    BY <2>1, <2>2, <2>3 DEF Landed, Left
<1>3. ASSUME NEW a, NEW b PROVE Landed(<<a, b>>, 0) = a \union b /\ Left(<<a, b>>, 0) = <<>>
  <2>1. NumLanded(<<a, b>>, 0) = 2
    BY DEF NumLanded
  <2>2. {<<a, b>>[i] : i \in 1 .. 2} = {a, b}
    OBVIOUS
  <2>3. UNION {a, b} = a \union b
    OBVIOUS
  <2>4. QED
    BY <2>1, <2>2, <2>3 DEF Landed, Left
<1>4. ASSUME NEW a, NEW b PROVE Landed(<<a, b>>, 1) = a /\ Left(<<a, b>>, 1) = <<b>>
  <2>1. NumLanded(<<a, b>>, 1) = 1
    BY DEF NumLanded
  <2>2. {<<a, b>>[i] : i \in 1 .. 1} = {a}
    OBVIOUS
  <2>3. UNION {a} = a
    OBVIOUS
  <2>4. Landed(<<a, b>>, 1) = a
    BY <2>1, <2>2, <2>3 DEF Landed
  <2>5. Left(<<a, b>>, 1) = SubSeq(<<a, b>>, 2, 2)
    BY <2>1 DEF Left
  <2>6. SubSeq(<<a, b>>, 2, 2) = <<b>>
    <3> DEFINE s == SubSeq(<<a, b>>, 2, 2)
    <3>1. <<a, b>> \in Seq({a, b}) /\ Len(<<a, b>>) = 2
      OBVIOUS
    <3>2. Len(s) = 1 /\ s[1] = b /\ s \in Seq({a, b})
      BY <3>1
    <3>3. <<b>> \in Seq({a, b}) /\ Len(<<b>>) = 1 /\ <<b>>[1] = b
      OBVIOUS
    <3> HIDE DEF s
    <3>4. \A i \in 1 .. Len(s) : s[i] = <<b>>[i]
      BY <3>2, <3>3
    <3>5. s = <<b>>
      BY <3>2, <3>3, <3>4, SeqEqual
    <3>6. QED
      BY <3>5 DEF s
  <2>7. QED
    BY <2>4, <2>5, <2>6
<1>5. QED
  BY <1>1, <1>2, <1>3, <1>4

LEMMA Commits ==
    /\ \A a : Commit(<<>>, a) = <<a>>
    /\ \A a, b : Commit(<<a>>, b) = <<a, b>>
<1>1. ASSUME NEW a PROVE Commit(<<>>, a) = <<a>>
  BY DEF Commit
<1>2. ASSUME NEW a, NEW b PROVE Commit(<<a>>, b) = <<a, b>>
  <2> DEFINE S == {a, b}
             s == Append(<<a>>, b)
  <2>1. /\ <<a>> \in Seq(S) /\ b \in S /\ <<a, b>> \in Seq(S)
        /\ Len(<<a>>) = 1 /\ Len(<<a, b>>) = 2
        /\ <<a, b>>[1] = a /\ <<a, b>>[2] = b /\ <<a>>[1] = a
    OBVIOUS
  <2> HIDE DEF S
  <2>2. s \in Seq(S) /\ Len(s) = 2 /\ s[1] = a /\ s[2] = b
    BY <2>1, AppendProperties
  <2>3. \A i \in 1 .. 2 : s[i] = <<a, b>>[i]
    BY <2>1, <2>2
  <2>4. s = <<a, b>>
    BY <2>1, <2>2, <2>3, SeqEqual
  <2>5. QED
    BY <2>4 DEF Commit
<1>3. QED
  BY <1>1, <1>2

(* What each warp has of the buffers and the groups keeps its form. *)
Form == /\ queue = [v \in Warps |-> queue[v]]
        /\ mem = [b \in Buffers |-> [v \in Warps |-> mem[b][v]]]

LEMMA WaitEffect ==
    ASSUME TypeInv, UNCHANGED launch, NEW w \in Warps, NEW q, NEW n, Wait(w, q, n)
    PROVE  /\ Form' /\ queue'[w] = Left(q, n)
           /\ \A v \in Warps \ {w} : /\ queue'[v] = queue[v]
                                     /\ \A b \in Buffers : mem'[b][v] = mem[b][v]
           /\ \A b \in Buffers : (\A t : <<b, t>> \notin Landed(q, n)) =>
                                   mem'[b][w] = mem[b][w]
           /\ \A b \in Buffers : \A t \in Tiles \union {Fixed} :
                <<b, t>> \in Landed(q, n) /\ (\A u : <<b, u>> \in Landed(q, n) => u = t) =>
                  mem'[b][w] = t
<1>1. /\ Warps' = Warps /\ Buffers' = Buffers
      /\ DOMAIN queue = Warps /\ DOMAIN mem = Buffers
      /\ \A b \in Buffers : DOMAIN mem[b] = Warps
  BY DEF TypeInv, Warps, Buffers, Forward
<1>2. /\ queue' = [v \in Warps |-> queue'[v]] /\ queue'[w] = Left(q, n)
      /\ \A v \in Warps \ {w} : queue'[v] = queue[v]
  BY <1>1 DEF Wait, TypeInv
<1> DEFINE New(b) == IF \E t \in Tiles \union {Fixed} : <<b, t>> \in Landed(q, n)
                     THEN CHOOSE t \in Tiles \union {Fixed} : <<b, t>> \in Landed(q, n)
                     ELSE mem[b][w]
<1>3. mem' = [b \in Buffers |-> [mem[b] EXCEPT ![w] = New(b)]]
  BY DEF Wait
<1>4. \A b \in Buffers : (\A t : <<b, t>> \notin Landed(q, n)) => New(b) = mem[b][w]
  OBVIOUS
<1>5. ASSUME NEW b \in Buffers, NEW t \in Tiles \union {Fixed}, <<b, t>> \in Landed(q, n),
             \A u : <<b, u>> \in Landed(q, n) => u = t
      PROVE  New(b) = t
  <2>1. \E u \in Tiles \union {Fixed} : <<b, u>> \in Landed(q, n)
    BY <1>5
  <2>2. <<b, New(b)>> \in Landed(q, n)
    BY <2>1
  <2>3. QED
    BY <1>5, <2>2
<1> HIDE DEF New
<1>6. \A b \in Buffers : /\ mem'[b] = [v \in Warps |-> mem'[b][v]]
                         /\ mem'[b][w] = New(b)
                         /\ \A v \in Warps \ {w} : mem'[b][v] = mem[b][v]
  BY <1>1, <1>3
<1>7. mem' = [b \in Buffers |-> [v \in Warps |-> mem'[b][v]]]
  BY <1>3, <1>6
<1>8. QED
  BY <1>1, <1>2, <1>4, <1>5, <1>6, <1>7 DEF Form

LEMMA IssueEffect ==
    ASSUME TypeInv, UNCHANGED launch, NEW w \in Warps, NEW q, Issue(w, q)
    PROVE  /\ Form' /\ queue'[w] = q /\ mem' = mem
           /\ \A v \in Warps \ {w} : queue'[v] = queue[v]
BY DEF TypeInv, Warps, Buffers, Forward, Issue, Form

(* A buffer a warp writes its part of. *)
LEMMA WriteEffect ==
    ASSUME TypeInv, UNCHANGED launch, NEW w \in Warps, NEW b \in Buffers, NEW t,
           mem' = [mem EXCEPT ![b][w] = t]
    PROVE  /\ mem' = [c \in Buffers |-> [v \in Warps |-> mem'[c][v]]]
           /\ mem'[b][w] = t
           /\ \A c \in Buffers \ {b} : mem'[c] = mem[c]
           /\ \A c \in Buffers : \A v \in Warps \ {w} : mem'[c][v] = mem[c][v]
<1>1. DOMAIN mem = Buffers /\ \A c \in Buffers : DOMAIN mem[c] = Warps
  BY DEF TypeInv
<1>2. /\ mem'[b] = [mem[b] EXCEPT ![w] = t]
      /\ \A c \in Buffers \ {b} : mem'[c] = mem[c]
      /\ mem' = [c \in Buffers |-> mem'[c]]
  BY <1>1
<1>3. \A c \in Buffers : mem[c] = [v \in Warps |-> mem[c][v]]
  BY DEF TypeInv
<1>4. mem'[b] = [v \in Warps |-> mem'[b][v]]
  BY <1>1, <1>2
<1>5. \A c \in Buffers : mem'[c] = [v \in Warps |-> mem'[c][v]]
  BY <1>2, <1>3, <1>4
<1>6. mem' = [c \in Buffers |-> [v \in Warps |-> mem'[c][v]]]
  BY <1>2, <1>5
<1>7. QED
  BY <1>1, <1>2, <1>6

-----------------------------------------------------------------------------
(* Where a warp is and what it has. *)

Others(w) == \A v \in Warps \ {w} :
    /\ pc'[v] = pc[v] /\ tile'[v] = tile[v] /\ queue'[v] = queue[v]
    /\ isSkip'[v] = isSkip[v] /\ \A b \in Buffers : mem'[b][v] = mem[b][v]

(* What is known of a warp before its step. *)
LEMMA Known ==
    ASSUME TypeInv, LocalInv, NEW w \in Warps
    PROVE  /\ LocalAt(w) /\ pc[w] \in Labels /\ tile[w] \in Nat /\ isSkip[w] \in BOOLEAN
           /\ launch.tiles \in Nat /\ launch.kind \in {"forward", "backward"}
           /\ \A i \in launch.restarts : i \in Nat /\ i < launch.tiles
           /\ launch.stages \in {1, 2} /\ launch.gqa \in BOOLEAN
           /\ Forward => /\ launch.tiles > 0 /\ 0 \notin launch.restarts
                         /\ launch.stages = 1 /\ launch.gqa = FALSE
           /\ Forward => Buffers = {"Q", "K", "V"}
           /\ ~Forward => Buffers = {"Q0", "Q1", "K", "V", "dO", "P", "dS"}
           /\ QS(launch, tile[w]) \in {"Q0", "Q1"} /\ QS(launch, tile[w] + 1) \in {"Q0", "Q1"}
           /\ tile[w] > 0 => QS(launch, tile[w] - 1) \in {"Q0", "Q1"}
           /\ launch.stages = 2 /\ tile[w] + 1 \notin launch.restarts =>
                QS(launch, tile[w] + 1) # QS(launch, tile[w])
           /\ launch.stages = 2 /\ tile[w] > 0 /\ tile[w] \notin launch.restarts =>
                QS(launch, tile[w]) # QS(launch, tile[w] - 1)
<1>1. launch \in Launches /\ tile[w] \in Nat
  BY DEF TypeInv
<1>2. /\ QS(launch, tile[w]) \in {"Q0", "Q1"}
      /\ launch.stages = 2 /\ tile[w] + 1 \notin launch.restarts =>
           QS(launch, tile[w] + 1) # QS(launch, tile[w])
  BY <1>1, Alternate
<1>3. QS(launch, tile[w] + 1) \in {"Q0", "Q1"}
  BY <1>1, Alternate, tile[w] + 1 \in Nat
<1>4. ASSUME tile[w] > 0
      PROVE  /\ QS(launch, tile[w] - 1) \in {"Q0", "Q1"}
             /\ launch.stages = 2 /\ tile[w] \notin launch.restarts =>
                  QS(launch, tile[w]) # QS(launch, tile[w] - 1)
  <2>1. tile[w] - 1 \in Nat /\ (tile[w] - 1) + 1 = tile[w]
    BY <1>1, <1>4
  <2>2. QED
    BY <1>1, <2>1, Alternate
<1>5. QED
  BY <1>1, <1>2, <1>3, <1>4, LaunchFacts, Buffer DEF TypeInv, LocalInv, LocalAt, Forward

(* The warps that do not step are where they were. *)
LEMMA OthersKept ==
    ASSUME TypeInv, LocalInv, UNCHANGED launch, NEW w \in Warps, Others(w),
           NEW v \in Warps \ {w}
    PROVE  LocalAt(v)'
<1>1. /\ pc'[v] = pc[v] /\ tile'[v] = tile[v] /\ queue'[v] = queue[v]
      /\ isSkip'[v] = isSkip[v] /\ \A b \in Buffers : mem'[b][v] = mem[b][v]
  BY DEF Others
<1>2. /\ LocalAt(v) /\ launch \in Launches /\ tile[v] \in Nat
      /\ \A i \in launch.restarts : i \in Nat
  BY LaunchFacts DEF LocalInv, TypeInv
<1>3. PlaceOK(v)'
  BY <1>1, <1>2 DEF LocalAt, PlaceOK, Forward, NumTiles
<1>4. QueueOK(v)'
  BY <1>1, <1>2 DEF LocalAt, QueueOK, Forward
<1>5. MemOK(v)'
  <2>1. CASE Forward
    <3>1. Buffers = {"Q", "K", "V"}
      BY <2>1, <1>2, Buffer
    <3>2. MemF(v)'
      BY <1>1, <1>2, <2>1, <3>1 DEF LocalAt, MemOK, MemF, LastKept, Late
    <3>3. QED
      BY <2>1, <3>2 DEF MemOK, Forward
  <2>2. CASE ~Forward
    <3>1. Buffers = {"Q0", "Q1", "K", "V", "dO", "P", "dS"}
      BY <2>2, <1>2, Buffer
    <3>2. /\ QS(launch, tile[v]) \in Buffers
          /\ tile[v] > 0 => QS(launch, tile[v] - 1) \in Buffers
      BY <1>2, <3>1, Alternate
    <3>3. MemB(v)'
      BY <1>1, <1>2, <2>2, <3>1, <3>2 DEF LocalAt, MemOK, MemB, HasKV, LastKept, Late
    <3>4. QED
      BY <2>2, <3>3 DEF MemOK, Forward
  <2>3. QED
    BY <2>1, <2>2
<1>6. QED
  BY <1>3, <1>4, <1>5 DEF LocalAt

(* The parts of the invariant after a step. *)
LEMMA Assembled ==
    ASSUME TypeInv, Followed, ~misread, UNCHANGED launch, NEW w \in Warps,
           Others(w), LocalAt(w)', BarInv' /\ GateInv' /\ FactInv' /\ CastInv', TypeInv',
           ~misread',
           IF w = 0 THEN /\ decision' = decision \/ (\E f \in BOOLEAN : decision' = Append(decision, f))
                         /\ Len(decision') = tile'[0] + (IF pc'[0] \in Post THEN 1 ELSE 0)
           ELSE decision' = decision,
           tile'[w] <= Len(decision'), Forward /\ Len(decision') > 0 => ~decision'[1],
           SkipOK(w)'
    PROVE  IInv'
<1>1. /\ Warps' = Warps /\ (Forward)' = Forward /\ 0 \in Warps
      /\ decision \in Seq(BOOLEAN) /\ decision' \in Seq(BOOLEAN)
      /\ tile \in [Warps -> Nat]
  BY WarpSet DEF Warps, Forward, TypeInv
<1>2. LocalInv'
  BY <1>1, OthersKept DEF Followed, LocalInv
<1>3. /\ Len(decision) <= Len(decision')
      /\ \A i \in 1 .. Len(decision) : decision'[i] = decision[i]
  <2>1. CASE decision' = decision
    BY <1>1, <2>1
  <2>2. ASSUME NEW f \in BOOLEAN, decision' = Append(decision, f)
        PROVE  /\ Len(decision) <= Len(decision')
               /\ \A i \in 1 .. Len(decision) : decision'[i] = decision[i]
    BY <1>1, <2>2
  <2>3. QED
    BY <2>1, <2>2
<1>4. \A v \in Warps \ {w} : tile'[v] = tile[v] /\ pc'[v] = pc[v] /\ isSkip'[v] = isSkip[v]
  BY DEF Others
<1>5. \A v \in Warps : tile[v] \in Nat /\ tile[v] <= Len(decision)
  BY <1>1 DEF Followed, DecInv
<1>6. DecInv'
  <2>1. Len(decision') = tile'[0] + (IF pc'[0] \in Post THEN 1 ELSE 0)
    <3>1. CASE w = 0
      BY <3>1
    <3>2. CASE w # 0
      BY <1>1, <1>4, <3>2 DEF Followed, DecInv
    <3>3. QED
      BY <3>1, <3>2
  <2>2. \A v \in Warps : tile'[v] <= Len(decision')
    BY <1>1, <1>3, <1>4, <1>5
  <2>3. QED
    BY <1>1, <2>1, <2>2 DEF DecInv, Forward, Post
<1>7. SkipInv'
  <2>1. ASSUME NEW v \in Warps \ {w} PROVE SkipOK(v)'
    <3>1. SkipOK(v)
      BY DEF Followed, SkipInv
    <3>2. (Late(v))' <=> Late(v)
      BY <1>4 DEF Late
    <3>3. QED
      BY <1>1, <1>3, <1>4, <1>5, <3>1, <3>2, SMTT(20) DEF SkipOK
  <2>2. QED
    BY <1>1, <2>1 DEF SkipInv
<1>8. QED
  BY <1>2, <1>6, <1>7 DEF IInv, Followed

(* What a step does to the copies and buffers of one warp. *)
Touches(w) ==
    /\ Form'
    /\ \A v \in Warps \ {w} : /\ queue'[v] = queue[v]
                              /\ \A b \in Buffers : mem'[b][v] = mem[b][v]

LEMMA Unmoved ==
    ASSUME TypeInv, UNCHANGED <<launch, queue, mem>>, NEW w \in Warps
    PROVE  Touches(w)
BY DEF TypeInv, Touches, Form, Warps, Buffers, Forward

NumDecided(label, t) == t + (IF label \in Post THEN 1 ELSE 0)

(* A step without a barrier, ... *)
LEMMA Goes ==
    ASSUME TypeInv, Followed, ~misread, NEW w \in Warps, ~Blocked(w),
           UNCHANGED <<launch, bar, words, vote, decision, misread>>,
           NEW label \in Labels \ {"reduce"}, NEW t \in Nat,
           Goto(w, label), tile' = [tile EXCEPT ![w] = t],
           NextGate(launch, decision, label, t) = NextGate(launch, decision, pc[w], tile[w]),
           Fact(launch, decision, words, label, t),
           NumDecided(label, t) = NumDecided(pc[w], tile[w]), t <= Len(decision),
           isSkip' \in [Warps -> BOOLEAN], \A v \in Warps \ {w} : isSkip'[v] = isSkip[v],
           Touches(w), LocalAt(w)', SkipOK(w)'
    PROVE  IInv'
<1>1. /\ Others(w) /\ Warps' = Warps
      /\ pc' \in [Warps -> Labels] /\ tile' \in [Warps -> Nat]
      /\ pc'[w] = label /\ tile'[w] = t
  BY DEF Others, Touches, Goto, TypeInv, Warps
<1>2. BarInv' /\ GateInv' /\ FactInv' /\ CastInv'
  BY SharedPasses DEF Followed
<1>3. TypeInv'
  BY <1>1 DEF TypeInv, Touches, Form
<1>4. w = 0 => Len(decision') = tile'[0] + (IF pc'[0] \in Post THEN 1 ELSE 0)
  BY <1>1 DEF Followed, DecInv, NumDecided
<1>5. ~misread' /\ tile'[w] <= Len(decision') /\ (Forward /\ Len(decision') > 0 => ~decision'[1])
  BY <1>1 DEF Followed, DecInv
<1>6. QED
  BY <1>1, <1>2, <1>3, <1>4, <1>5, Assembled

(* ... and one that ends at a barrier. *)
LEMMA Meets ==
    ASSUME TypeInv, Followed, ~misread, NEW w \in Warps, ~Blocked(w),
           UNCHANGED <<launch, tile, misread>>,
           NEW label \in Labels \ {"load"}, Goto(w, label), SyncOn(BarrierOf(label), w),
           NextGate(launch, decision, pc[w], tile[w]) = <<tile[w], label>>,
           IF w = 0 THEN /\ decision' = decision \/ (\E f \in BOOLEAN : decision' = Append(decision, f))
                         /\ Len(decision') = NumDecided(label, tile[w])
           ELSE decision' = decision,
           tile[w] <= Len(decision'), Forward /\ Len(decision') > 0 => ~decision'[1],
           words' = [v \in Warps |-> words'[v]], vote' \in [Warps -> BOOLEAN],
           \A v \in Warps \ {w} : Free(v) =>
              Fact(launch, decision', words', pc[v], tile[v]),
           w = 0 => Fact(launch, decision', words', label, tile[w]),
           \A v \in Warps \ {w} : CastAt(v) => words'[v] = Vote(vote'[v]),
           label = "reduce" \/ (label = "read" /\ w # 0) => words'[w] = Vote(vote'[w]),
           isSkip' \in [Warps -> BOOLEAN], \A v \in Warps \ {w} : isSkip'[v] = isSkip[v],
           Touches(w), LocalAt(w)', SkipOK(w)'
    PROVE  IInv'
<1>1. /\ Others(w) /\ Warps' = Warps
      /\ pc' \in [Warps -> Labels] /\ pc'[w] = label
  BY DEF Others, Touches, Goto, TypeInv, Warps
<1>2. decision' = decision \/ (\E f \in BOOLEAN : decision' = Append(decision, f))
  OBVIOUS
<1>3. BarInv' /\ GateInv' /\ FactInv' /\ CastInv'
  BY <1>2, SharedArrives DEF Followed
<1>4. decision' \in Seq(BOOLEAN)
  <2>1. decision \in Seq(BOOLEAN)
    BY DEF TypeInv
  <2>2. ASSUME NEW f \in BOOLEAN, decision' = Append(decision, f) PROVE decision' \in Seq(BOOLEAN)
    BY <2>1, <2>2
  <2>3. QED
    BY <1>2, <2>1, <2>2
<1>5. TypeInv'
  BY <1>1, <1>4 DEF TypeInv, Touches, Form
<1>6. w = 0 => Len(decision') = tile'[0] + (IF pc'[0] \in Post THEN 1 ELSE 0)
  BY <1>1 DEF NumDecided
<1>7. QED
  BY <1>1, <1>2, <1>3, <1>5, <1>6, Assembled

(* Most barriers are met with the words and the decisions as they are. *)
LEMMA MeetsPlainly ==
    ASSUME TypeInv, Followed, ~misread, NEW w \in Warps, ~Blocked(w),
           UNCHANGED <<launch, tile, words, vote, decision, misread, isSkip>>,
           NEW label \in Labels \ {"load", "reduce", "read"}, Goto(w, label),
           SyncOn(BarrierOf(label), w),
           NextGate(launch, decision, pc[w], tile[w]) = <<tile[w], label>>,
           Fact(launch, decision, words, label, tile[w]),
           NumDecided(label, tile[w]) = NumDecided(pc[w], tile[w]),
           Touches(w), LocalAt(w)', SkipOK(w)'
    PROVE  IInv'
<1>1. w = 0 => Len(decision) = NumDecided(label, tile[w])
  BY DEF Followed, DecInv, NumDecided
<1>2. tile[w] <= Len(decision) /\ (Forward /\ Len(decision) > 0 => ~decision[1])
  BY DEF Followed, DecInv
<1>3. /\ words' = [v \in Warps |-> words'[v]] /\ vote' \in [Warps -> BOOLEAN]
      /\ isSkip' \in [Warps -> BOOLEAN] /\ \A v \in Warps \ {w} : isSkip'[v] = isSkip[v]
  BY DEF TypeInv
<1>4. /\ \A v \in Warps \ {w} : Free(v) => Fact(launch, decision', words', pc[v], tile[v])
      /\ \A v \in Warps \ {w} : CastAt(v) => words'[v] = Vote(vote'[v])
  BY DEF Followed, FactInv, CastInv
<1>5. QED
  BY <1>1, <1>2, <1>3, <1>4, Meets

-----------------------------------------------------------------------------
(* Every step keeps the invariant.  First the way to a tile. *)

LEMMA BeginsTile ==
    ASSUME launch \in Launches, NEW t \in Nat, t <= launch.tiles
    PROVE  /\ Begin(t) \in Before
           /\ Begin(t) = "epilogue" <=> t = launch.tiles
           /\ Begin(t) = "restart" <=> t \in launch.restarts
           /\ Begin(t) = "first" <=> t = 0 /\ t \notin launch.restarts /\ launch.tiles > 0
           /\ \A d : NextGate(launch, d, Begin(t), t) = BeginGate(launch, t)
<1>1. /\ launch.tiles \in Nat /\ launch.tiles \notin launch.restarts
  <2>1. launch.tiles \in Nat /\ \A i \in launch.restarts : i \in Nat /\ i < launch.tiles
    BY LaunchFacts
  <2>2. QED
    BY <2>1
<1>2. /\ Begin(t) \in Before
      /\ Begin(t) = "epilogue" <=> t = launch.tiles
      /\ Begin(t) = "restart" <=> t \in launch.restarts
      /\ Begin(t) = "first" <=> t = 0 /\ t \notin launch.restarts /\ launch.tiles > 0
  BY <1>1 DEF Begin, Before, NumTiles
<1>3. Begin(t) \in {"restart", "epilogue"} => \A d : NextGate(launch, d, Begin(t), t) = BeginGate(launch, t)
  BY Gates
<1>4. ASSUME Begin(t) \in {"first", "tile"}
      PROVE  \A d : NextGate(launch, d, Begin(t), t) = BeginGate(launch, t)
  <2>1. BeginGate(launch, t) = <<t, "s">>
    BY <1>2, <1>4 DEF BeginGate
  <2>2. QED
    BY <1>4, <2>1, Gates
<1>5. QED
  BY <1>2, <1>3, <1>4 DEF Before

LEMMA LoadQKeeps ==
    ASSUME TypeInv, Followed, ~misread, UNCHANGED launch, NEW w \in Warps, LoadQ(w)
    PROVE  IInv'
<1>1. /\ pc[w] = "load" /\ Forward /\ Goto(w, "tile") /\ pc'[w] = "tile"
      /\ UNCHANGED <<tile, bar, words, vote, isSkip, decision, misread>>
      /\ Wait(w, Commit(Commit(queue[w], CopyQ), CopyTile(0)), launch.stages)
  BY DEF LoadQ, voteVars, Goto, TypeInv
<1>2. /\ LocalAt(w) /\ tile[w] \in Nat /\ launch.stages = 1
      /\ launch.tiles > 0 /\ 0 \notin launch.restarts /\ launch.tiles \in Nat
  BY <1>1, Known DEF Followed
<1>3. queue[w] = <<>> /\ tile[w] = 0
  BY <1>1, <1>2 DEF LocalAt, QueueOK, QueueF, PlaceOK
<1> DEFINE q == <<{<<"Q", Fixed>>}, {<<"K", 0>>}>>
<1>4. Touches(w) /\ queue'[w] = <<{<<"K", 0>>}>> /\ mem'["Q"][w] = Fixed
  <2>1. CopyTile(0) = {<<"K", 0>>} /\ CopyQ = {<<"Q", Fixed>>}
    BY <1>1 DEF CopyQ, CopyTile, CopyKeys
  <2>2. Commit(Commit(queue[w], CopyQ), CopyTile(0)) = q
    BY <1>3, <2>1, Commits
  <2>3. Landed(q, 1) = {<<"Q", Fixed>>} /\ Left(q, 1) = <<{<<"K", 0>>}>>
    BY Waits
  <2> HIDE DEF q
  <2>4. "Q" \in Buffers /\ Wait(w, q, 1)
    BY <1>1, <1>2, <2>2, Buffer DEF TypeInv
  <2>5. QED
    BY <2>3, <2>4, WaitEffect DEF Touches
<1>5. LocalAt(w)' /\ SkipOK(w)'
  BY <1>1, <1>2, <1>3, <1>4
     DEF LocalAt, PlaceOK, QueueOK, MemOK, QueueF, MemF, Forward, NumTiles, InTile, Scored,
         KeptSteps, Closing, LastKept, SkipOK
<1>6. ~Blocked(w)
  BY <1>1 DEF Followed, BarInv, Blocked
<1>7. NextGate(launch, decision, "tile", tile[w]) = NextGate(launch, decision, pc[w], tile[w])
  BY <1>1, <1>2, <1>3, Gates DEF BeginGate
<1>8. /\ Fact(launch, decision, words, "tile", tile[w])
      /\ NumDecided("tile", tile[w]) = NumDecided(pc[w], tile[w])
      /\ tile' = [tile EXCEPT ![w] = tile[w]] /\ tile[w] <= Len(decision)
  BY <1>1 DEF Fact, Post, KeptSteps, NumDecided, TypeInv, Followed, DecInv
<1>9. "tile" \in Labels \ {"reduce"} /\ isSkip' \in [Warps -> BOOLEAN]
  BY <1>1 DEF Labels, Before, TypeInv
<1>10. QED
  BY <1>1, <1>2, <1>4, <1>5, <1>6, <1>7, <1>8, <1>9, Goes

LEMMA LoadKVKeeps ==
    ASSUME TypeInv, Followed, ~misread, UNCHANGED launch, NEW w \in Warps, LoadKV(w)
    PROVE  IInv'
<1>1. /\ pc[w] = "load" /\ ~Forward /\ Goto(w, Begin(0)) /\ pc'[w] = Begin(0)
      /\ UNCHANGED <<tile, bar, words, vote, isSkip, decision, misread>>
      /\ Issue(w, Commit(queue[w], CopyKV))
  BY DEF LoadKV, voteVars, Goto, TypeInv
<1>2. LocalAt(w) /\ tile[w] \in Nat /\ launch.tiles \in Nat /\ launch \in Launches
  BY <1>1, Known DEF Followed, TypeInv
<1>3. queue[w] = <<>> /\ tile[w] = 0
  BY <1>1, <1>2 DEF LocalAt, QueueOK, QueueB, PlaceOK, Scored
<1>4. /\ Begin(0) \in Before
      /\ Begin(0) = "epilogue" <=> launch.tiles = 0
      /\ Begin(0) = "restart" <=> 0 \in launch.restarts
      /\ Begin(0) = "first" <=> 0 \notin launch.restarts /\ launch.tiles > 0
      /\ NextGate(launch, decision, Begin(0), 0) = BeginGate(launch, 0)
  BY <1>2, BeginsTile
<1>5. Touches(w) /\ queue'[w] = <<CopyKV>>
  BY <1>1, <1>3, Commits, IssueEffect DEF Touches
<1>6. LocalAt(w)' /\ SkipOK(w)'
  <2>1. PlaceOK(w)' /\ SkipOK(w)'
    BY <1>1, <1>2, <1>3, <1>4
       DEF PlaceOK, SkipOK, Forward, NumTiles, InTile, Scored, KeptSteps, Closing, Before
  <2>2. QueueOK(w)'
    BY <1>1, <1>2, <1>3, <1>4, <1>5
       DEF QueueOK, QueueB, Forward, Closing, Scored, Before
  <2>3. MemOK(w)'
    BY <1>1, <1>3, <1>4 DEF MemOK, MemB, HasKV, Forward, Scored, KeptSteps, LastKept, Before
  <2>4. QED
    BY <2>1, <2>2, <2>3 DEF LocalAt
<1>7. ~Blocked(w)
  BY <1>1 DEF Followed, BarInv, Blocked
<1>8. NextGate(launch, decision, Begin(0), tile[w]) = NextGate(launch, decision, pc[w], tile[w])
  BY <1>1, <1>3, <1>4, Gates
<1>9. /\ Fact(launch, decision, words, Begin(0), tile[w])
      /\ NumDecided(Begin(0), tile[w]) = NumDecided(pc[w], tile[w])
      /\ tile' = [tile EXCEPT ![w] = tile[w]] /\ tile[w] <= Len(decision)
  BY <1>1, <1>4 DEF Fact, Post, KeptSteps, NumDecided, TypeInv, Followed, DecInv, Before
<1>10. Begin(0) \in Labels \ {"reduce"} /\ isSkip' \in [Warps -> BOOLEAN]
  BY <1>1, <1>4 DEF Labels, Before, TypeInv
<1>11. QED
  BY <1>1, <1>2, <1>5, <1>6, <1>7, <1>8, <1>9, <1>10, Goes

LEMMA RestartKeeps ==
    ASSUME TypeInv, Followed, ~misread, UNCHANGED launch, NEW w \in Warps, Restart(w)
    PROVE  IInv'
<1>1. /\ pc[w] = "restart" /\ ~Blocked(w) /\ Goto(w, "first") /\ pc'[w] = "first"
      /\ UNCHANGED <<tile, words, vote, isSkip, decision, misread>>
      /\ Wait(w, queue[w], 0) /\ Sync(w)
  BY DEF Restart, At, voteVars, Goto, TypeInv
<1>2. /\ LocalAt(w) /\ tile[w] \in Nat /\ launch.tiles \in Nat /\ launch \in Launches
      /\ isSkip[w] \in BOOLEAN /\ tile[w] \in launch.restarts
      /\ \A i \in launch.restarts : i \in Nat /\ i < launch.tiles
  BY <1>1, Known DEF Followed, TypeInv, LocalAt, PlaceOK
<1>3. /\ Touches(w) /\ queue'[w] = <<>>
      /\ Forward => \A b \in Buffers : mem'[b][w] = mem[b][w]
      /\ ~Forward => /\ \A b \in Buffers \ {"K", "V"} : mem'[b][w] = mem[b][w]
                     /\ tile[w] > 0 => \A b \in Buffers : mem'[b][w] = mem[b][w]
                     /\ tile[w] = 0 => mem'["K"][w] = Fixed /\ mem'["V"][w] = Fixed
  <2>1. CASE Forward
    <3>1. queue[w] = <<>>
      BY <1>1, <1>2, <2>1 DEF LocalAt, QueueOK, QueueF
    <3>2. QED
      BY <1>1, <2>1, <3>1, Waits, WaitEffect DEF Touches
  <2>2. CASE ~Forward /\ tile[w] = 0
    <3>1. queue[w] = <<CopyKV>>
      BY <1>1, <1>2, <2>2 DEF LocalAt, QueueOK, QueueB
    <3>2. Landed(queue[w], 0) = CopyKV /\ Left(queue[w], 0) = <<>>
      BY <3>1, Waits
    <3>3. /\ \A b \in Buffers \ {"K", "V"} : \A t : <<b, t>> \notin CopyKV
          /\ <<"K", Fixed>> \in CopyKV /\ \A t : <<"K", t>> \in CopyKV => t = Fixed
          /\ <<"V", Fixed>> \in CopyKV /\ \A t : <<"V", t>> \in CopyKV => t = Fixed
          /\ "K" \in Buffers /\ "V" \in Buffers /\ Fixed \in Tiles \union {Fixed}
      BY <1>2, Buffer DEF CopyKV
    <3>4. QED
      BY <1>1, <2>2, <3>2, <3>3, WaitEffect DEF Touches
  <2>3. CASE ~Forward /\ tile[w] > 0
    <3>1. queue[w] = <<{}>>
      BY <1>1, <1>2, <2>3 DEF LocalAt, QueueOK, QueueB
    <3>2. Landed(queue[w], 0) = {} /\ Left(queue[w], 0) = <<>>
      BY <3>1, Waits
    <3>3. QED
      BY <1>1, <2>3, <3>2, WaitEffect DEF Touches
  <2>4. QED
    BY <1>2, <2>1, <2>2, <2>3
<1>4. LocalAt(w)' /\ SkipOK(w)'
  <2>1. PlaceOK(w)' /\ SkipOK(w)'
    BY <1>1, <1>2
       DEF PlaceOK, SkipOK, Forward, NumTiles, InTile, Scored, KeptSteps, Closing, Before, Late,
           Followed, SkipInv
  <2>2. QueueOK(w)'
    BY <1>1, <1>2, <1>3 DEF QueueOK, QueueB, QueueF, Forward, Closing, Scored
  <2>3. MemOK(w)'
    <3>1. CASE Forward
      BY <1>1, <1>2, <1>3, <3>1, Buffer
         DEF LocalAt, MemOK, MemF, Forward, Scored, LastKept, Late, Before
    <3>2. CASE ~Forward
      <4>1. tile[w] > 0 => QS(launch, tile[w] - 1) \in {"Q0", "Q1"}
        BY Known DEF Followed
      <4>2. QED
        BY <1>1, <1>2, <1>3, <3>2, <4>1, Buffer
           DEF LocalAt, MemOK, MemB, HasKV, Forward, Scored, LastKept, Late, Before, KeptSteps
    <3>3. QED
      BY <3>1, <3>2
  <2>4. QED
    BY <2>1, <2>2, <2>3 DEF LocalAt
<1>5. /\ NextGate(launch, decision, pc[w], tile[w]) = <<tile[w], "first">>
      /\ SyncOn(BarrierOf("first"), w)
  BY <1>1, <1>2, Gates DEF BeginGate, BarrierOf, Sync
<1>6. /\ Fact(launch, decision, words, "first", tile[w])
      /\ NumDecided("first", tile[w]) = NumDecided(pc[w], tile[w])
  BY <1>1 DEF Fact, Post, KeptSteps, NumDecided
<1>7. "first" \in Labels \ {"load", "reduce", "read"}
  BY DEF Labels, Before
<1>8. QED
  BY <1>1, <1>3, <1>4, <1>5, <1>6, <1>7, MeetsPlainly

LEMMA LoadFirstKeeps ==
    ASSUME TypeInv, Followed, ~misread, UNCHANGED launch, NEW w \in Warps, LoadFirst(w)
    PROVE  IInv'
<1>1. /\ pc[w] = "first" /\ ~Blocked(w) /\ Goto(w, "tile") /\ pc'[w] = "tile"
      /\ UNCHANGED <<tile, bar, words, vote, isSkip, decision, misread>>
      /\ Issue(w, Commit(queue[w], CopyTile(tile[w])))
  BY DEF LoadFirst, At, voteVars, Goto, TypeInv
<1>2. /\ LocalAt(w) /\ tile[w] \in Nat /\ launch.tiles \in Nat /\ launch.stages \in {1, 2}
      /\ isSkip[w] \in BOOLEAN /\ tile[w] < launch.tiles
      /\ tile[w] \notin launch.restarts => tile[w] = 0 /\ ~Forward
      /\ Forward => tile[w] # 0
  BY <1>1, Known DEF Followed, LocalAt, PlaceOK, InTile, NumTiles
<1>3. /\ Forward => queue'[w] = <<{<<"K", tile[w]>>}>>
      /\ ~Forward /\ tile[w] \in launch.restarts =>
           queue'[w] = <<{<<QS(launch, tile[w]), tile[w]>>}>>
      /\ ~Forward /\ tile[w] \notin launch.restarts =>
           queue'[w] = <<CopyKV, {<<QS(launch, tile[w]), tile[w]>>}>>
      /\ mem' = mem /\ Touches(w)
  <2>1. CopyTile(tile[w]) = IF Forward THEN {<<"K", tile[w]>>}
                            ELSE {<<QS(launch, tile[w]), tile[w]>>}
    BY Stages DEF CopyTile, CopyKeys, CopyQLSE
  <2>2. /\ Forward \/ tile[w] \in launch.restarts => queue[w] = <<>>
        /\ ~Forward /\ tile[w] \notin launch.restarts => queue[w] = <<CopyKV>>
    BY <1>1, <1>2 DEF LocalAt, QueueOK, QueueF, QueueB
  <2>3. /\ queue'[w] = Commit(queue[w], CopyTile(tile[w])) /\ mem' = mem
        /\ Form' /\ \A v \in Warps \ {w} : queue'[v] = queue[v]
    BY <1>1, IssueEffect
  <2>4. QED
    BY <2>1, <2>2, <2>3, Commits DEF Touches
<1>4. LocalAt(w)' /\ SkipOK(w)'
  <2>1. PlaceOK(w)' /\ SkipOK(w)'
    BY <1>1, <1>2
       DEF LocalAt, PlaceOK, SkipOK, Forward, NumTiles, InTile, Scored, KeptSteps, Closing, Before,
           Late, Followed, SkipInv
  <2>2. QueueOK(w)'
    BY <1>1, <1>2, <1>3 DEF QueueOK, QueueB, QueueF, Forward, Closing, Scored
  <2>3. MemOK(w)'
    BY <1>1, <1>2, <1>3
       DEF LocalAt, MemOK, MemF, MemB, HasKV, Forward, Scored, LastKept, Late, Before, KeptSteps
  <2>4. QED
    BY <2>1, <2>2, <2>3 DEF LocalAt
<1>5. NextGate(launch, decision, "tile", tile[w]) = NextGate(launch, decision, pc[w], tile[w])
  BY <1>1, Gates
<1>6. /\ Fact(launch, decision, words, "tile", tile[w])
      /\ NumDecided("tile", tile[w]) = NumDecided(pc[w], tile[w])
      /\ tile' = [tile EXCEPT ![w] = tile[w]] /\ tile[w] <= Len(decision)
  BY <1>1 DEF Fact, Post, KeptSteps, NumDecided, TypeInv, Followed, DecInv
<1>7. "tile" \in Labels \ {"reduce"} /\ isSkip' \in [Warps -> BOOLEAN]
  BY <1>1 DEF Labels, Before, TypeInv
<1>8. QED
  BY <1>1, <1>2, <1>3, <1>4, <1>5, <1>6, <1>7, Goes

LEMMA WaitTileKeeps ==
    ASSUME TypeInv, Followed, ~misread, UNCHANGED launch, NEW w \in Warps, WaitTile(w)
    PROVE  IInv'
<1>1. /\ pc[w] = "tile" /\ ~Blocked(w) /\ Goto(w, "s") /\ pc'[w] = "s"
      /\ UNCHANGED <<tile, words, vote, isSkip, decision, misread>>
      /\ Wait(w, queue[w], 0) /\ Sync(w)
  BY DEF WaitTile, At, voteVars, Goto, TypeInv
<1>2. /\ LocalAt(w) /\ tile[w] \in Nat /\ launch.tiles \in Nat /\ launch.stages \in {1, 2}
      /\ isSkip[w] \in BOOLEAN /\ tile[w] < launch.tiles
      /\ QS(launch, tile[w]) \in {"Q0", "Q1"}
      /\ tile[w] > 0 => QS(launch, tile[w] - 1) \in {"Q0", "Q1"}
      /\ launch.stages = 2 /\ tile[w] > 0 /\ tile[w] \notin launch.restarts =>
           QS(launch, tile[w]) # QS(launch, tile[w] - 1)
  BY <1>1, Known DEF Followed, LocalAt, PlaceOK, InTile, NumTiles
<1> DEFINE t == tile[w]
           new == Landed(queue[w], 0)
<1>3. /\ Touches(w) /\ queue'[w] = Left(queue[w], 0) /\ t \in Tiles \union {Fixed}
      /\ \A b \in Buffers : (\A u : <<b, u>> \notin new) => mem'[b][w] = mem[b][w]
      /\ \A b \in Buffers : \A i \in Tiles \union {Fixed} :
           <<b, i>> \in new /\ (\A u : <<b, u>> \in new => u = i) => mem'[b][w] = i
  <2>1. t \in Tiles \union {Fixed}
    BY <1>2 DEF Tiles, NumTiles
  <2>2. Touches(w) /\ queue'[w] = Left(queue[w], 0)
    BY <1>1, WaitEffect DEF Touches
  <2>3. \A b \in Buffers : (\A u : <<b, u>> \notin new) => mem'[b][w] = mem[b][w]
    BY <1>1, WaitEffect
  <2>4. \A b \in Buffers : \A i \in Tiles \union {Fixed} :
           <<b, i>> \in new /\ (\A u : <<b, u>> \in new => u = i) => mem'[b][w] = i
    BY <1>1, WaitEffect
  <2>5. QED
    BY <2>1, <2>2, <2>3, <2>4
<1>4. ASSUME Forward PROVE MemOK(w)' /\ QueueOK(w)'
  <2>1. queue[w] = <<{<<"K", t>>}>> /\ Buffers = {"Q", "K", "V"}
    BY <1>1, <1>2, <1>4, Known DEF LocalAt, QueueOK, QueueF, Followed
  <2>2. new = {<<"K", t>>} /\ Left(queue[w], 0) = <<>>
    BY <2>1, Waits
  <2> HIDE DEF new
  <2>3. mem'["K"][w] = t /\ mem'["Q"][w] = mem["Q"][w] /\ mem'["V"][w] = mem["V"][w]
    BY <1>3, <2>1, <2>2
  <2>4. QED
    BY <1>1, <1>2, <1>3, <1>4, <2>2, <2>3
       DEF LocalAt, MemOK, MemF, Forward, Scored, LastKept, Late, Before, QueueOK, QueueF
<1>5. ASSUME ~Forward PROVE MemOK(w)' /\ QueueOK(w)'
  <2>1. Buffers = {"Q0", "Q1", "K", "V", "dO", "P", "dS"}
    BY <1>5, Known DEF Followed
  <2>2. CASE t = 0 /\ t \notin launch.restarts
    <3>1. queue[w] = <<CopyKV, {<<QS(launch, t), t>>}>>
      BY <1>1, <1>2, <1>5, <2>2 DEF LocalAt, QueueOK, QueueB
    <3>2. Left(queue[w], 0) = <<>> /\ new = CopyKV \union {<<QS(launch, t), t>>}
      BY <3>1, Waits
    <3>3. CopyKV = {<<"K", Fixed>>, <<"V", Fixed>>}
      BY DEF CopyKV
    <3> HIDE DEF new
    <3>4. mem'[QS(launch, t)][w] = t /\ mem'["K"][w] = Fixed /\ mem'["V"][w] = Fixed
      BY <1>2, <1>3, <2>1, <3>2, <3>3
    <3>5. QED
      BY <1>1, <1>2, <1>3, <1>5, <2>2, <3>2, <3>4
         DEF MemOK, MemB, HasKV, Forward, Scored, LastKept, KeptSteps, QueueOK, QueueB, Closing
  <2>3. CASE ~(t = 0 /\ t \notin launch.restarts)
    <3>1. queue[w] = <<{<<QS(launch, t), t>>}>>
      BY <1>1, <1>2, <1>5, <2>3 DEF LocalAt, QueueOK, QueueB
    <3>2. Left(queue[w], 0) = <<>> /\ new = {<<QS(launch, t), t>>}
      BY <3>1, Waits
    <3> HIDE DEF new
    <3>3. /\ mem'[QS(launch, t)][w] = t
          /\ \A b \in Buffers \ {QS(launch, t)} : mem'[b][w] = mem[b][w]
      BY <1>2, <1>3, <2>1, <3>2
    <3>4. \A b \in {"K", "V", "dS"} : mem'[b][w] = mem[b][w]
      BY <1>2, <2>1, <3>3
    <3>5. t > 0 /\ launch.stages = 2 /\ t \notin launch.restarts =>
             mem'[QS(launch, t - 1)][w] = mem[QS(launch, t - 1)][w]
      BY <1>2, <2>1, <3>3
    <3>6. MemB(w) /\ tile'[w] = t /\ launch' = launch
      BY <1>1, <1>2, <1>5 DEF LocalAt, MemOK
    <3> HIDE DEF t
    <3>7. MemB(w)'
      BY <1>1, <1>2, <2>3, <3>3, <3>4, <3>5, <3>6
         DEF MemB, HasKV, Scored, LastKept, Late, Before, KeptSteps, t
    <3>8. QED
      BY <1>1, <1>2, <1>3, <1>5, <3>2, <3>7
         DEF MemOK, Forward, QueueOK, QueueB, KeptSteps, Closing, Scored
  <2>4. QED
    BY <2>2, <2>3
<1>6. PlaceOK(w)' /\ SkipOK(w)'
  BY <1>1, <1>2
     DEF LocalAt, PlaceOK, SkipOK, Forward, NumTiles, InTile, Scored, KeptSteps, Closing, Before,
         Late, Followed, SkipInv
<1>7. LocalAt(w)'
  BY <1>4, <1>5, <1>6 DEF LocalAt
<1>8. /\ NextGate(launch, decision, pc[w], tile[w]) = <<tile[w], "s">>
      /\ SyncOn(BarrierOf("s"), w)
  BY <1>1, Gates DEF BarrierOf, Sync
<1>9. /\ Fact(launch, decision, words, "s", tile[w])
      /\ NumDecided("s", tile[w]) = NumDecided(pc[w], tile[w])
  BY <1>1 DEF Fact, Post, KeptSteps, NumDecided
<1>10. "s" \in Labels \ {"load", "reduce", "read"}
  BY DEF Labels, InTile, Scored
<1>11. QED
  BY <1>1, <1>3, <1>6, <1>7, <1>8, <1>9, <1>10, MeetsPlainly

-----------------------------------------------------------------------------
(* The vote.  Who reads the words is at another gate than who writes them. *)

LEMMA Readers ==
    ASSUME TypeInv, BarInv, GateInv, NEW w \in Warps, ~Blocked(w), NEW t, NEW label,
           NextGate(launch, decision, pc[w], tile[w]) = <<t, label>>,
           NEW v \in Warps
    PROVE  /\ label \in {"act", "reduce"} /\ Free(v) => pc[v] \notin {"read", "pv", "ds", "dv"}
           /\ label \in {"read", "ds"} /\ ~Blocked(v) => pc[v] \notin {"read", "pv", "ds", "dv"}
           /\ label = "pv" /\ ~Blocked(v) =>
                /\ pc[v] \notin {"pv", "ds", "dv"}
                /\ pc[v] = "read" => Forward /\ tile[v] = t
           /\ CastAt(v) => label \in {"read", "reduce"}
           /\ label = "read" /\ ~Blocked(v) => pc[v] = "reduce"
<1>1. Gate(v) = <<t, label>>
  <2>1. Gate(w) = <<t, label>>
    BY DEF Gate
  <2>2. QED
    BY <2>1 DEF GateInv
<1>2. CASE Blocked(v)
  <2>1. pc[v] = label
    BY <1>1, <1>2 DEF Gate
  <2>2. QED
    BY <1>2, <2>1 DEF CastAt
<1>3. CASE ~Blocked(v)
  <2>1. NextGate(launch, decision, pc[v], tile[v]) = <<t, label>>
    BY <1>1, <1>3 DEF Gate
  <2>2. ASSUME pc[v] = "read"
        PROVE  /\ label \notin {"act", "reduce", "read", "ds"}
               /\ label = "pv" => Forward /\ tile[v] = t
    BY <2>1, <2>2, Gates DEF BeginGate, Forward
  <2>3. ASSUME pc[v] \in {"pv", "ds", "dv"}
        PROVE  label \notin {"act", "reduce", "read", "ds", "pv"}
    BY <2>1, <2>3, Gates DEF BeginGate
  <2>4. pc[v] = "reduce" => label = "read"
    BY <2>1, Gates
  <2>5. label = "read" => pc[v] = "reduce"
    BY <2>1 DEF NextGate, BeginGate
  <2>6. QED
    BY <1>3, <2>2, <2>3, <2>4, <2>5 DEF CastAt
<1>4. QED
  BY <1>2, <1>3

LEMMA AsVotes ==
    /\ \A f : AsVote(Vote(f)) = {f}
    /\ \A t : AsVote(Bytes(t)) = BOOLEAN
    /\ \A f, t : Bytes(t) # Vote(f)
<1>1. ASSUME NEW f PROVE AsVote(Vote(f)) = {f}
  BY DEF AsVote, Vote
<1>2. ASSUME NEW t PROVE "vote" \notin DOMAIN Bytes(t)
  BY DEF Bytes
<1>3. ASSUME NEW f PROVE "vote" \in DOMAIN Vote(f)
  BY DEF Vote
<1>4. QED
  BY <1>1, <1>2, <1>3 DEF AsVote

LEMMA FirstVoteKeeps ==
    ASSUME TypeInv, Followed, ~misread, UNCHANGED launch, NEW w \in Warps, FirstVote(w)
    PROVE  IInv'
<1>1. /\ pc[w] = "s" /\ ~Blocked(w) /\ Forward /\ tile[w] = 0 /\ Goto(w, "act")
      /\ pc'[w] = "act" /\ isSkip' = [isSkip EXCEPT ![w] = FALSE]
      /\ UNCHANGED <<tile, queue, mem, vote, misread>> /\ Sync(w)
      /\ IF w = 0 THEN words' = [words EXCEPT ![0] = Vote(FALSE)] /\ decision' = <<FALSE>>
         ELSE UNCHANGED <<words, decision>>
  BY DEF FirstVote, At, outVars, Goto, TypeInv
<1>2. LocalAt(w) /\ launch.tiles \in Nat /\ isSkip'[w] = FALSE
  BY <1>1, Known DEF Followed, TypeInv
<1>3. LocalAt(w)' /\ SkipOK(w)'
  BY <1>1, <1>2
     DEF LocalAt, PlaceOK, QueueOK, QueueF, MemOK, MemF, SkipOK, Forward, NumTiles, InTile,
         Scored, KeptSteps, Closing, Before, Late, LastKept
<1> DEFINE no == FALSE
<1> HIDE DEF no
<1>4. ASSUME w = 0
      PROVE  /\ decision = <<>> /\ decision' = Append(decision, no)
             /\ Len(decision') = 1 /\ decision'[1] = no
  <2>1. Len(decision) = 0 /\ decision \in Seq(BOOLEAN)
    BY <1>1, <1>4 DEF Followed, DecInv, Post, KeptSteps, TypeInv
  <2>2. decision = <<>>
    BY <2>1, EmptySeq
  <2>3. /\ Append(<<>>, no) = <<no>> /\ Len(<<no>>) = 1 /\ <<no>>[1] = no
    OBVIOUS
  <2>4. decision' = <<no>>
    BY <1>1, <1>4 DEF no
  <2>5. QED
    BY <2>2, <2>3, <2>4, Zenon
<1>5. ASSUME NEW v \in Warps \ {w}, Free(v)
      PROVE  Fact(launch, decision', words', pc[v], tile[v])
  <2>1. Fact(launch, decision, words, pc[v], tile[v]) /\ tile[v] \in Nat
    BY <1>5 DEF Followed, FactInv, TypeInv
  <2>2. CASE w # 0
    BY <1>1, <2>1, <2>2
  <2>3. CASE w = 0
    <3>1. pc[v] \notin Post
      BY <1>4, <2>1, <2>3 DEF Fact
    <3>2. QED
      BY <3>1 DEF Fact, Post, KeptSteps
  <2>4. QED
    BY <2>2, <2>3
<1>6. ASSUME w = 0 PROVE Fact(launch, decision', words', "act", tile[w])
  <2>1. Len(decision') = 1 /\ tile[w] = 0
    BY <1>1, <1>4, <1>6, Zenon
  <2>2. tile[w] < Len(decision')
    BY <2>1
  <2>3. QED
    BY <2>2 DEF Fact, KeptSteps
<1>7. /\ \A v \in Warps \ {w} : words'[v] = words[v]
      /\ words' = [v \in Warps |-> words'[v]]
      /\ \A v \in Warps \ {w} : CastAt(v) => words'[v] = Vote(vote'[v])
  <2>1. words = [v \in Warps |-> words[v]]
    BY DEF TypeInv
  <2>2. \/ words' = words
        \/ w = 0 /\ words' = [words EXCEPT ![w] = Vote(FALSE)]
    BY <1>1
  <2>3. /\ \A v \in Warps \ {w} : words'[v] = words[v]
        /\ words' = [v \in Warps |-> words'[v]]
    BY <2>1, <2>2
  <2>4. QED
    BY <1>1, <2>3 DEF Followed, CastInv
<1>8. /\ NextGate(launch, decision, pc[w], tile[w]) = <<tile[w], "act">>
      /\ SyncOn(BarrierOf("act"), w)
  BY <1>1, Gates DEF BarrierOf, Sync, Forward
<1>9. /\ IF w = 0 THEN /\ decision' = decision \/ (\E f \in BOOLEAN : decision' = Append(decision, f))
                       /\ Len(decision') = NumDecided("act", tile[w])
         ELSE decision' = decision
      /\ tile[w] <= Len(decision') /\ (Forward /\ Len(decision') > 0 => ~decision'[1])
  <2>1. CASE w = 0
    <3>1. no \in BOOLEAN /\ ~no
      BY DEF no
    <3>2. NumDecided("act", tile[w]) = 1 /\ tile[w] = 0
      BY <1>1 DEF NumDecided, Post
    <3>3. Len(decision') = 1 /\ ~decision'[1]
      BY <1>4, <2>1, <3>1, Zenon
    <3>4. \E f \in BOOLEAN : decision' = Append(decision, f)
      BY <1>4, <2>1, <3>1, Zenon
    <3>5. QED
      BY <2>1, <3>2, <3>3, <3>4
  <2>2. CASE w # 0
    BY <1>1, <2>2 DEF Followed, DecInv
  <2>3. QED
    BY <2>1, <2>2
<1>10. /\ "act" \in Labels \ {"load"} /\ isSkip' \in [Warps -> BOOLEAN]
       /\ vote' \in [Warps -> BOOLEAN] /\ \A v \in Warps \ {w} : isSkip'[v] = isSkip[v]
       /\ Touches(w)
  BY <1>1, Unmoved DEF Labels, InTile, Scored, TypeInv
<1>11. QED
  BY <1>1, <1>3, <1>5, <1>6, <1>7, <1>8, <1>9, <1>10, Meets

LEMMA CastVoteKeeps ==
    ASSUME TypeInv, Followed, ~misread, UNCHANGED launch, NEW w \in Warps, CastVote(w)
    PROVE  IInv'
<1>1. PICK flag \in BOOLEAN : /\ vote' = [vote EXCEPT ![w] = flag]
                              /\ words' = [words EXCEPT ![w] = Vote(flag)]
  BY DEF CastVote
<1>2. /\ pc[w] = "s" /\ ~Blocked(w) /\ (Forward => tile[w] > 0) /\ Goto(w, "reduce")
      /\ pc'[w] = "reduce" /\ UNCHANGED <<tile, queue, mem, isSkip, decision, misread>>
      /\ Sync(w)
  BY DEF CastVote, At, outVars, Goto, TypeInv
<1>3. LocalAt(w) /\ launch.tiles \in Nat /\ tile[w] \in Nat
  BY <1>1, Known DEF Followed, TypeInv
<1>4. LocalAt(w)' /\ SkipOK(w)'
  BY <1>2, <1>3
     DEF LocalAt, PlaceOK, QueueOK, QueueF, QueueB, MemOK, MemF, MemB, HasKV, SkipOK, Forward,
         NumTiles, InTile, Scored, KeptSteps, Closing, Before, Late, LastKept
<1>5. NextGate(launch, decision, pc[w], tile[w]) = <<tile[w], "reduce">>
  BY <1>2, Gates DEF Forward
<1>6. ASSUME NEW v \in Warps \ {w}, Free(v)
      PROVE  Fact(launch, decision', words', pc[v], tile[v])
  <2>1. Fact(launch, decision, words, pc[v], tile[v])
    BY <1>6 DEF Followed, FactInv
  <2>2. pc[v] \notin {"read", "pv", "ds", "dv"}
    BY <1>2, <1>5, <1>6, Readers DEF Followed
  <2>3. QED
    BY <1>2, <2>1, <2>2 DEF Fact
<1>7. /\ Fact(launch, decision', words', "reduce", tile[w])
      /\ SyncOn(BarrierOf("reduce"), w)
  BY <1>2 DEF Fact, Post, KeptSteps, BarrierOf, Sync
<1>8. /\ \A v \in Warps \ {w} : CastAt(v) => words'[v] = Vote(vote'[v])
      /\ words' = [v \in Warps |-> words'[v]] /\ words'[w] = Vote(vote'[w])
      /\ vote' \in [Warps -> BOOLEAN]
  BY <1>1 DEF Followed, CastInv, TypeInv
<1>9. /\ IF w = 0 THEN /\ decision' = decision \/ (\E f \in BOOLEAN : decision' = Append(decision, f))
                       /\ Len(decision') = NumDecided("reduce", tile[w])
         ELSE decision' = decision
      /\ tile[w] <= Len(decision') /\ (Forward /\ Len(decision') > 0 => ~decision'[1])
  BY <1>2 DEF NumDecided, Post, KeptSteps, Followed, DecInv
<1>10. /\ "reduce" \in Labels \ {"load"} /\ isSkip' \in [Warps -> BOOLEAN]
       /\ \A v \in Warps \ {w} : isSkip'[v] = isSkip[v]
       /\ Touches(w)
  BY <1>2, Unmoved DEF Labels, InTile, Scored, TypeInv
<1>11. QED
  BY <1>2, <1>4, <1>5, <1>6, <1>7, <1>8, <1>9, <1>10, Meets

LEMMA ReduceVotesKeeps ==
    ASSUME TypeInv, Followed, ~misread, UNCHANGED launch, NEW w \in Warps, ReduceVotes(w)
    PROVE  IInv'
<1>1. /\ pc[w] = "reduce" /\ ~Blocked(w) /\ Goto(w, "read") /\ pc'[w] = "read"
      /\ UNCHANGED <<tile, queue, mem, vote, isSkip, misread>> /\ Sync(w)
      /\ w # 0 => UNCHANGED <<words, decision>>
  BY DEF ReduceVotes, At, outVars, Goto, TypeInv
<1>2. LocalAt(w) /\ launch.tiles \in Nat /\ tile[w] \in Nat
  BY <1>1, Known DEF Followed, TypeInv
<1>3. LocalAt(w)' /\ SkipOK(w)'
  BY <1>1, <1>2
     DEF LocalAt, PlaceOK, QueueOK, QueueF, QueueB, MemOK, MemF, MemB, HasKV, SkipOK, Forward,
         NumTiles, InTile, Scored, KeptSteps, Closing, Before, Late, LastKept
<1>4. NextGate(launch, decision, pc[w], tile[w]) = <<tile[w], "read">>
  BY <1>1, Gates
<1> DEFINE outcome == \A v \in Warps : vote[v]
<1>5. ASSUME w = 0
      PROVE  /\ decision' = Append(decision, outcome)
             /\ words' = [words EXCEPT ![0] = Vote(outcome)]
  <2>1. ASSUME NEW v \in Warps PROVE AsVote(words[v]) = {vote[v]}
    <3>1. CastAt(v)
      <4>1. CASE ~Blocked(v)
        BY <1>1, <1>4, <4>1, Readers DEF Followed, CastAt
      <4>2. CASE Blocked(v)
        <5>1. v # 0 /\ pc[v] = "read"
          BY <1>1, <1>4, <1>5, <4>2, BlockedThere DEF Followed
        <5>2. QED
          BY <4>2, <5>1 DEF CastAt
      <4>3. QED
        BY <4>1, <4>2
    <3>2. words[v] = [vote |-> vote[v]]
      BY <3>1 DEF Followed, CastInv, Vote
    <3>3. QED
      BY <3>2 DEF AsVote
  <2>2. PICK votes \in [Warps -> BOOLEAN] :
          /\ \A v \in Warps : votes[v] \in AsVote(words[v])
          /\ words' = [words EXCEPT ![0] = Vote(\A v \in Warps : votes[v])]
          /\ decision' = Append(decision, \A v \in Warps : vote[v])
    BY <1>5 DEF ReduceVotes
  <2>3. \A v \in Warps : votes[v] = vote[v]
    BY <2>1, <2>2
  <2>4. (\A v \in Warps : votes[v]) = outcome
    BY <2>3
  <2>5. QED
    BY <2>2, <2>4
<1>6. outcome \in BOOLEAN
  OBVIOUS
<1> HIDE DEF outcome
<1>7. decision \in Seq(BOOLEAN) /\ \A v \in Warps : tile[v] \in Nat
  BY DEF TypeInv
<1>8. ASSUME w = 0
      PROVE  /\ Len(decision) = tile[w] /\ Len(decision') = tile[w] + 1
             /\ decision'[tile[w] + 1] = outcome
             /\ \A i \in 1 .. Len(decision) : decision'[i] = decision[i]
             /\ words'[0] = Vote(outcome)
  <2>1. Len(decision) = tile[w]
    BY <1>1, <1>2, <1>8 DEF Followed, DecInv, Post, KeptSteps
  <2>2. QED
    BY <1>5, <1>6, <1>7, <1>8, <2>1, WarpSet DEF TypeInv
<1>9. ASSUME NEW v \in Warps \ {w}, Free(v)
      PROVE  Fact(launch, decision', words', pc[v], tile[v])
  <2>1. Fact(launch, decision, words, pc[v], tile[v])
    BY <1>9 DEF Followed, FactInv
  <2>2. CASE w # 0
    BY <1>1, <2>1, <2>2
  <2>3. CASE w = 0
    <3>1. pc[v] \notin {"read", "pv", "ds", "dv"}
      BY <1>1, <1>4, <1>9, <2>3, Readers DEF Followed, Free
    <3>2. pc[v] \in Post => tile[v] < Len(decision') /\ decision'[tile[v] + 1] = decision[tile[v] + 1]
      <4>1. ASSUME pc[v] \in Post PROVE tile[v] \in Nat /\ tile[v] < Len(decision)
        BY <1>7, <2>1, <4>1 DEF Fact
      <4>2. pc[v] \in Post => tile[v] + 1 \in 1 .. Len(decision) /\ tile[v] < Len(decision')
        BY <1>2, <1>7, <1>8, <2>3, <4>1
      <4>3. QED
        BY <1>8, <2>3, <4>2, Zenon
    <3>3. QED
      BY <2>1, <3>1, <3>2 DEF Fact, Post
  <2>4. QED
    BY <2>2, <2>3
<1>10. w = 0 => Fact(launch, decision', words', "read", tile[w])
  BY <1>2, <1>8 DEF Fact, KeptSteps
<1>11. /\ \A v \in Warps \ {w} : CastAt(v) => words'[v] = Vote(vote'[v])
       /\ words' = [v \in Warps |-> words'[v]] /\ vote' \in [Warps -> BOOLEAN]
       /\ w # 0 => words'[w] = Vote(vote'[w])
  BY <1>1, <1>5 DEF Followed, CastInv, CastAt, TypeInv
<1>12. IF w = 0 THEN /\ decision' = decision \/ (\E f \in BOOLEAN : decision' = Append(decision, f))
                     /\ Len(decision') = NumDecided("read", tile[w])
       ELSE decision' = decision
  BY <1>1, <1>5, <1>6, <1>8 DEF NumDecided, Post
<1>13. tile[w] <= Len(decision') /\ (Forward /\ Len(decision') > 0 => ~decision'[1])
  <2>1. CASE w # 0
    BY <1>1, <2>1 DEF Followed, DecInv
  <2>2. CASE w = 0
    <3>1. Forward => tile[w] > 0
      BY <1>1, <1>2 DEF LocalAt, PlaceOK
    <3>2. QED
      BY <1>2, <1>8, <2>2, <3>1 DEF Followed, DecInv
  <2>3. QED
    BY <2>1, <2>2
<1>14. /\ "read" \in Labels \ {"load"} /\ isSkip' \in [Warps -> BOOLEAN]
       /\ \A v \in Warps \ {w} : isSkip'[v] = isSkip[v]
       /\ Touches(w) /\ SyncOn(BarrierOf("read"), w)
  BY <1>1, Unmoved DEF Labels, InTile, Scored, TypeInv, BarrierOf, Sync
<1>15. QED
  BY <1>1, <1>3, <1>4, <1>9, <1>10, <1>11, <1>12, <1>13, <1>14, Meets

LEMMA ReadVoteKeeps ==
    ASSUME TypeInv, Followed, ~misread, UNCHANGED launch, NEW w \in Warps, ReadVote(w)
    PROVE  IInv'
<1>1. /\ pc[w] = "read" /\ ~Blocked(w) /\ Goto(w, "act") /\ pc'[w] = "act"
      /\ UNCHANGED <<tile, queue, bar, mem, words, vote, decision>>
      /\ misread' = (misread \/ words[0] \notin {Vote(f) : f \in BOOLEAN})
  BY DEF ReadVote, At, outVars, Goto, TypeInv
<1>2. PICK skip \in AsVote(words[0]) : isSkip' = [isSkip EXCEPT ![w] = skip]
  BY DEF ReadVote
<1>3. LocalAt(w) /\ launch.tiles \in Nat /\ tile[w] \in Nat /\ decision \in Seq(BOOLEAN)
  BY <1>1, Known DEF Followed, TypeInv
<1>4. /\ tile[w] < Len(decision) /\ decision[tile[w] + 1] \in BOOLEAN
      /\ \/ words[0] = Vote(decision[tile[w] + 1])
         \/ Forward /\ words[0] = Bytes(tile[w])
  BY <1>1, <1>3 DEF Followed, FactInv, Free, Fact, Post, Forward
<1>5. CASE words[0] = Vote(decision[tile[w] + 1])
  <2>1. skip = decision[tile[w] + 1] /\ misread' = misread
    <3>1. AsVote(words[0]) = {decision[tile[w] + 1]}
      BY <1>5, AsVotes
    <3>2. words[0] \in {Vote(f) : f \in BOOLEAN}
      BY <1>4, <1>5
    <3>3. skip = decision[tile[w] + 1]
      BY <1>2, <3>1, Zenon
    <3>4. misread' = misread
      BY <1>1, <3>2 DEF TypeInv
    <3>5. QED
      BY <3>3, <3>4
  <2>2. /\ isSkip' \in [Warps -> BOOLEAN] /\ isSkip'[w] = decision[tile[w] + 1]
        /\ \A v \in Warps \ {w} : isSkip'[v] = isSkip[v]
    BY <1>2, <1>4, <2>1 DEF TypeInv
  <2>3. LocalAt(w)' /\ SkipOK(w)'
    BY <1>1, <1>3, <1>4, <2>2
       DEF LocalAt, PlaceOK, QueueOK, QueueF, QueueB, MemOK, MemF, MemB, HasKV, SkipOK, Forward,
           NumTiles, InTile, Scored, KeptSteps, Closing, Before, Late, LastKept
  <2>4. NextGate(launch, decision, "act", tile[w]) = NextGate(launch, decision, pc[w], tile[w])
    BY <1>1 DEF NextGate
  <2>5. /\ Fact(launch, decision, words, "act", tile[w])
        /\ NumDecided("act", tile[w]) = NumDecided(pc[w], tile[w])
        /\ tile' = [tile EXCEPT ![w] = tile[w]] /\ tile[w] <= Len(decision)
    BY <1>1, <1>3, <1>4 DEF Fact, Post, KeptSteps, NumDecided, TypeInv, Followed, DecInv
  <2>6. "act" \in Labels \ {"reduce"} /\ Touches(w)
    BY <1>1, Unmoved DEF Labels, InTile, Scored
  <2>7. QED
    BY <1>1, <1>3, <2>1, <2>2, <2>3, <2>4, <2>5, <2>6, Goes
<1>6. CASE Forward /\ words[0] = Bytes(tile[w])
  <2>1. AsVote(words[0]) = BOOLEAN /\ words[0] \notin {Vote(f) : f \in BOOLEAN}
    BY <1>6, AsVotes
  <2>2. isSkip' \in [Warps -> BOOLEAN] /\ misread' = TRUE
    BY <1>1, <1>2, <2>1 DEF TypeInv
  <2>3. /\ Warps' = Warps /\ (Forward)' = Forward /\ Buffers' = Buffers
        /\ pc' \in [Warps -> Labels]
    BY <1>1 DEF Warps, Forward, Buffers, Goto, TypeInv, Labels, InTile, Scored
  <2>4. TypeInv'
    BY <1>1, <2>2, <2>3 DEF TypeInv
  <2>5. QED
    BY <1>6, <2>2, <2>3, <2>4 DEF IInv
<1>7. QED
  BY <1>4, <1>5, <1>6

-----------------------------------------------------------------------------
(* The end of a tile, skipped or kept. *)

LEMMA Advances ==
    ASSUME TypeInv, Followed, ~misread, NEW w \in Warps, ~Blocked(w), Advance(w),
           UNCHANGED <<launch, bar, mem, words, vote, isSkip, decision, misread>>,
           pc[w] \in {"act", "pv", "dk", "dq"}, pc[w] = "act" => isSkip[w],
           pc[w] = "dk" => launch.stages = 2,
           Forward /\ More(launch, tile[w]) => queue'[w] = <<{<<"K", tile[w] + 1>>}>>,
           Forward /\ ~More(launch, tile[w]) => queue'[w] = <<>>,
           ~Forward => queue'[w] = <<NextQ(launch, tile[w])>>,
           Touches(w)
    PROVE  IInv'
<1> DEFINE t == tile[w]
           label == Begin(t + 1)
<1>1. /\ LocalAt(w) /\ t \in Nat /\ launch.tiles \in Nat /\ launch.stages \in {1, 2}
      /\ isSkip[w] \in BOOLEAN /\ t < launch.tiles /\ launch \in Launches
      /\ decision \in Seq(BOOLEAN)
      /\ pc[w] = "pv" <=> Forward /\ pc[w] # "act"
  BY Known DEF Followed, LocalAt, PlaceOK, InTile, NumTiles, Scored, KeptSteps, TypeInv
<1>2. /\ label \in Before
      /\ label = "epilogue" <=> t + 1 = launch.tiles
      /\ label = "restart" <=> t + 1 \in launch.restarts
      /\ label # "first"
      /\ NextGate(launch, decision, label, t + 1) = BeginGate(launch, t + 1)
  BY <1>1, BeginsTile
<1>3. More(launch, t) <=> label = "tile"
  BY <1>1, <1>2 DEF More, Before
<1>4. /\ Goto(w, label) /\ pc'[w] = label /\ tile'[w] = t + 1
      /\ tile' = [tile EXCEPT ![w] = t + 1]
  BY DEF Advance, Goto, TypeInv
<1> HIDE DEF label
<1>5. t < Len(decision) /\ decision[t + 1] \in BOOLEAN /\ isSkip[w] = decision[t + 1]
  <2>1. Fact(launch, decision, words, pc[w], t)
    BY DEF Followed, FactInv, Free
  <2>2. t < Len(decision)
    BY <2>1 DEF Fact, Post, KeptSteps
  <2>3. decision[t + 1] \in BOOLEAN
    BY <1>1, <2>2
  <2>4. CASE pc[w] = "act"
    BY <1>1, <2>4 DEF LocalAt, PlaceOK, Followed, SkipInv, SkipOK
  <2>5. CASE pc[w] \in {"pv", "dk", "dq"}
    <3>1. ~decision[t + 1] /\ ~isSkip[w]
      BY <1>1, <2>1, <2>5 DEF Fact, KeptSteps, LocalAt, PlaceOK
    <3>2. decision[t + 1] = FALSE
      BY <2>3, <3>1
    <3>3. isSkip[w] = FALSE
      BY <1>1, <3>1
    <3>4. QED
      BY <2>2, <2>3, <3>2, <3>3, Zenon
  <2>6. QED
    BY <2>2, <2>3, <2>4, <2>5
<1>6. NextGate(launch, decision, pc[w], t) = BeginGate(launch, t + 1)
  <2>1. CASE pc[w] = "act"
    <3>1. decision[t + 1]
      BY <1>5, <2>1
    <3>2. QED
      BY <2>1, <3>1, Gates
  <2>2. CASE pc[w] = "dk"
    BY <2>2, Gates
  <2>3. CASE pc[w] \in {"pv", "dq"}
    BY <2>3, Gates
  <2>4. QED
    BY <2>1, <2>2, <2>3
<1>7. PlaceOK(w)' /\ SkipOK(w)'
  <2>1. PlaceOK(w)'
    BY <1>1, <1>2, <1>4
       DEF PlaceOK, Forward, NumTiles, InTile, Scored, KeptSteps, Closing, Before
  <2>2. SkipOK(w)'
    BY <1>1, <1>2, <1>4, <1>5 DEF SkipOK, Before
  <2>3. QED
    BY <2>1, <2>2
<1>8. QueueOK(w)'
  BY <1>1, <1>2, <1>3, <1>4
     DEF QueueOK, QueueF, QueueB, NextQ, Forward, Closing, Scored, Before
<1>9. MemOK(w)'
  BY <1>1, <1>2, <1>4
     DEF LocalAt, MemOK, MemF, MemB, HasKV, Forward, Scored, LastKept, Late, Before, KeptSteps
<1>10. LocalAt(w)'
  BY <1>7, <1>8, <1>9 DEF LocalAt
<1>11. /\ Fact(launch, decision, words, label, t + 1)
       /\ NumDecided(label, t + 1) = NumDecided(pc[w], t)
       /\ t + 1 <= Len(decision) /\ t + 1 \in Nat
       /\ label \in Labels \ {"reduce"}
  BY <1>1, <1>2, <1>5 DEF Fact, Post, KeptSteps, NumDecided, Before, Labels
<1>12. isSkip' \in [Warps -> BOOLEAN] /\ \A v \in Warps \ {w} : isSkip'[v] = isSkip[v]
  BY DEF TypeInv
<1>13. QED
  BY <1>2, <1>4, <1>6, <1>7, <1>10, <1>11, <1>12, Goes

LEMMA SkipKeysKeeps ==
    ASSUME TypeInv, Followed, ~misread, UNCHANGED launch, NEW w \in Warps, SkipKeys(w)
    PROVE  IInv'
<1> DEFINE q == IF HasNext(tile[w]) THEN Commit(queue[w], NextTile(tile[w])) ELSE queue[w]
<1>1. /\ pc[w] = "act" /\ ~Blocked(w) /\ Forward /\ isSkip[w] /\ Advance(w)
      /\ UNCHANGED <<bar, words, vote, isSkip, decision, misread>> /\ Issue(w, q)
  BY DEF SkipKeys, At, voteVars
<1>2. LocalAt(w) /\ tile[w] \in Nat
  BY Known DEF Followed
<1>3. queue[w] = <<>>
  BY <1>1, <1>2 DEF LocalAt, QueueOK, QueueF
<1>4. /\ More(launch, tile[w]) => q = <<{<<"K", tile[w] + 1>>}>>
      /\ ~More(launch, tile[w]) => q = <<>>
  BY <1>1, <1>3, Commits DEF More, HasNext, NumTiles, NextTile, CopyTile, CopyKeys
<1> HIDE DEF q
<1>5. queue'[w] = q /\ mem' = mem /\ Touches(w)
  BY <1>1, IssueEffect DEF Touches
<1>6. QED
  BY <1>1, <1>4, <1>5, Advances

LEMMA FinishPVKeeps ==
    ASSUME TypeInv, Followed, ~misread, UNCHANGED launch, NEW w \in Warps, FinishPV(w)
    PROVE  IInv'
<1>1. /\ pc[w] = "pv" /\ ~Blocked(w) /\ Advance(w)
      /\ UNCHANGED <<bar, queue, mem, words, vote, isSkip, decision, misread>>
  BY DEF FinishPV, At, voteVars
<1>2. LocalAt(w) /\ Forward
  BY <1>1, Known DEF Followed, LocalAt, PlaceOK
<1>3. /\ More(launch, tile[w]) => queue[w] = <<{<<"K", tile[w] + 1>>}>>
      /\ ~More(launch, tile[w]) => queue[w] = <<>>
  BY <1>1, <1>2 DEF LocalAt, QueueOK, QueueF
<1>4. QED
  BY <1>1, <1>2, <1>3, Advances, Unmoved

(* The groups of the backward kernel. *)
LEMMA NextQueries ==
    ASSUME ~Forward, NEW t
    PROVE  NextTile(t) = NextQ(launch, t)
BY Stages DEF NextTile, NextQ, HasNext, More, NumTiles, CopyTile, CopyQLSE

LEMMA SkipQueriesKeeps ==
    ASSUME TypeInv, Followed, ~misread, UNCHANGED launch, NEW w \in Warps, SkipQueries(w)
    PROVE  IInv'
<1>1. /\ pc[w] = "act" /\ ~Blocked(w) /\ ~Forward /\ isSkip[w] /\ Advance(w)
      /\ UNCHANGED <<bar, words, vote, isSkip, decision, misread>>
      /\ Issue(w, Commit(queue[w], NextTile(tile[w])))
  BY DEF SkipQueries, At, voteVars
<1>2. LocalAt(w)
  BY Known DEF Followed
<1>3. queue[w] = <<>>
  BY <1>1, <1>2 DEF LocalAt, QueueOK, QueueB, Scored
<1>4. Commit(queue[w], NextTile(tile[w])) = <<NextQ(launch, tile[w])>>
  BY <1>1, <1>3, Commits, NextQueries
<1>5. queue'[w] = <<NextQ(launch, tile[w])>> /\ mem' = mem /\ Touches(w)
  BY <1>1, <1>4, IssueEffect DEF Touches
<1>6. QED
  BY <1>1, <1>5, Advances

LEMMA FinishDKKeeps ==
    ASSUME TypeInv, Followed, ~misread, UNCHANGED launch, NEW w \in Warps, FinishDK(w)
    PROVE  IInv'
<1>1. /\ pc[w] = "dk" /\ ~Blocked(w) /\ launch.stages = 2 /\ Advance(w)
      /\ UNCHANGED <<bar, queue, mem, words, vote, isSkip, decision, misread>>
  BY DEF FinishDK, At, voteVars
<1>2. LocalAt(w) /\ ~Forward
  BY <1>1, Known DEF Followed, LocalAt, PlaceOK, KeptSteps
<1>3. queue[w] = <<NextQ(launch, tile[w])>>
  BY <1>1, <1>2 DEF LocalAt, QueueOK, QueueB
<1>4. QED
  BY <1>1, <1>2, <1>3, Advances, Unmoved

LEMMA FinishDQLastKeeps ==
    ASSUME TypeInv, Followed, ~misread, UNCHANGED launch, NEW w \in Warps, FinishDQLast(w)
    PROVE  IInv'
<1>1. /\ pc[w] = "dq" /\ ~Blocked(w) /\ launch.stages = 1 /\ Advance(w)
      /\ UNCHANGED <<bar, queue, mem, words, vote, isSkip, decision, misread>>
  BY DEF FinishDQLast, At, voteVars
<1>2. LocalAt(w) /\ ~Forward
  BY <1>1, Known DEF Followed, LocalAt, PlaceOK, KeptSteps
<1>3. queue[w] = <<NextQ(launch, tile[w])>>
  BY <1>1, <1>2 DEF LocalAt, QueueOK, QueueB
<1>4. QED
  BY <1>1, <1>2, <1>3, Advances, Unmoved

-----------------------------------------------------------------------------
(* A kept tile of the backward kernel, and the epilogue. *)

LEMMA WriteDSKeeps ==
    ASSUME TypeInv, Followed, ~misread, UNCHANGED launch, NEW w \in Warps, WriteDS(w)
    PROVE  IInv'
<1>1. /\ pc[w] = "ds" /\ ~Blocked(w) /\ Goto(w, "dv") /\ pc'[w] = "dv"
      /\ mem' = [mem EXCEPT !["dS"][w] = tile[w]]
      /\ UNCHANGED <<tile, queue, bar, words, vote, isSkip, decision, misread>>
  BY DEF WriteDS, At, voteVars, Goto, TypeInv
<1>2. /\ LocalAt(w) /\ tile[w] \in Nat /\ ~Forward /\ launch.stages \in {1, 2}
      /\ Buffers = {"Q0", "Q1", "K", "V", "dO", "P", "dS"}
      /\ QS(launch, tile[w]) \in {"Q0", "Q1"}
  BY <1>1, Known DEF Followed, LocalAt, PlaceOK, KeptSteps
<1>3. /\ Touches(w) /\ mem'["dS"][w] = tile[w]
      /\ \A b \in Buffers \ {"dS"} : mem'[b] = mem[b]
  <2>1. /\ mem' = [c \in Buffers |-> [v \in Warps |-> mem'[c][v]]] /\ mem'["dS"][w] = tile[w]
        /\ \A c \in Buffers \ {"dS"} : mem'[c] = mem[c]
        /\ \A c \in Buffers : \A v \in Warps \ {w} : mem'[c][v] = mem[c][v]
    <3>1. "dS" \in Buffers
      BY <1>2
    <3>2. mem' = [mem EXCEPT !["dS"][w] = tile[w]]
      BY <1>1
    <3>3. QED
      BY <3>1, <3>2, WriteEffect, ZenonT(40)
  <2>2. Warps' = Warps /\ Buffers' = Buffers /\ queue = [v \in Warps |-> queue[v]]
    BY DEF Warps, Buffers, Forward, TypeInv
  <2>3. QED
    BY <1>1, <2>1, <2>2 DEF Touches, Form
<1>4. LocalAt(w)' /\ SkipOK(w)'
  BY <1>1, <1>2, <1>3
     DEF LocalAt, PlaceOK, QueueOK, QueueB, MemOK, MemB, HasKV, SkipOK, Forward, NumTiles, InTile,
         Scored, KeptSteps, Closing, Before, Late, LastKept
<1>5. NextGate(launch, decision, "dv", tile[w]) = NextGate(launch, decision, pc[w], tile[w])
  BY <1>1, Gates
<1>6. /\ Fact(launch, decision, words, "dv", tile[w])
      /\ NumDecided("dv", tile[w]) = NumDecided(pc[w], tile[w])
      /\ tile' = [tile EXCEPT ![w] = tile[w]] /\ tile[w] <= Len(decision)
  BY <1>1 DEF Fact, Post, KeptSteps, NumDecided, TypeInv, Followed, FactInv, Free, DecInv
<1>7. "dv" \in Labels \ {"reduce"} /\ isSkip' \in [Warps -> BOOLEAN]
  BY <1>1 DEF Labels, InTile, KeptSteps, TypeInv
<1>8. QED
  BY <1>1, <1>2, <1>3, <1>4, <1>5, <1>6, <1>7, Goes

LEMMA FinishDVKeeps ==
    ASSUME TypeInv, Followed, ~misread, UNCHANGED launch, NEW w \in Warps, FinishDV(w)
    PROVE  IInv'
<1> DEFINE label == IF launch.stages = 1 THEN "dk" ELSE "dq"
<1>1. /\ pc[w] = "dv" /\ ~Blocked(w) /\ Goto(w, label) /\ pc'[w] = label
      /\ UNCHANGED <<tile, queue, mem, words, vote, isSkip, decision, misread>> /\ Sync(w)
  BY DEF FinishDV, At, voteVars, Goto, TypeInv
<1>2. LocalAt(w) /\ tile[w] \in Nat /\ ~Forward /\ launch.stages \in {1, 2}
  BY <1>1, Known DEF Followed, LocalAt, PlaceOK, KeptSteps
<1>3. NextGate(launch, decision, pc[w], tile[w]) = <<tile[w], label>>
  BY <1>1, Gates
<1>4. label \in {"dk", "dq"} /\ (label = "dk" <=> launch.stages = 1)
  OBVIOUS
<1> HIDE DEF label
<1>5. LocalAt(w)' /\ SkipOK(w)'
  BY <1>1, <1>2, <1>4
     DEF LocalAt, PlaceOK, QueueOK, QueueB, MemOK, MemB, HasKV, SkipOK, Forward, NumTiles, InTile,
         Scored, KeptSteps, Closing, Before, Late, LastKept
<1>6. /\ Fact(launch, decision, words, label, tile[w])
      /\ NumDecided(label, tile[w]) = NumDecided(pc[w], tile[w])
      /\ SyncOn(BarrierOf(label), w)
  BY <1>1, <1>4
     DEF Fact, Post, KeptSteps, NumDecided, TypeInv, Followed, FactInv, Free, BarrierOf, Sync
<1>7. label \in Labels \ {"load", "reduce", "read"} /\ Touches(w)
  BY <1>1, <1>4, Unmoved DEF Labels, InTile, KeptSteps
<1>8. QED
  BY <1>1, <1>3, <1>5, <1>6, <1>7, MeetsPlainly

LEMMA FinishDQKeeps ==
    ASSUME TypeInv, Followed, ~misread, UNCHANGED launch, NEW w \in Warps, FinishDQ(w)
    PROVE  IInv'
<1>1. /\ pc[w] = "dq" /\ ~Blocked(w) /\ launch.stages = 2 /\ Goto(w, "dk") /\ pc'[w] = "dk"
      /\ UNCHANGED <<tile, queue, mem, bar, words, vote, isSkip, decision, misread>>
  BY DEF FinishDQ, At, voteVars, Goto, TypeInv
<1>2. LocalAt(w) /\ tile[w] \in Nat /\ ~Forward
  BY <1>1, Known DEF Followed, LocalAt, PlaceOK, KeptSteps
<1>3. NextGate(launch, decision, "dk", tile[w]) = NextGate(launch, decision, pc[w], tile[w])
  BY <1>1, Gates
<1>4. LocalAt(w)' /\ SkipOK(w)'
  BY <1>1, <1>2
     DEF LocalAt, PlaceOK, QueueOK, QueueB, MemOK, MemB, HasKV, SkipOK, Forward, NumTiles, InTile,
         Scored, KeptSteps, Closing, Before, Late, LastKept
<1>5. /\ Fact(launch, decision, words, "dk", tile[w])
      /\ NumDecided("dk", tile[w]) = NumDecided(pc[w], tile[w])
      /\ tile' = [tile EXCEPT ![w] = tile[w]] /\ tile[w] <= Len(decision)
  BY <1>1 DEF Fact, Post, KeptSteps, NumDecided, TypeInv, Followed, FactInv, Free, DecInv
<1>6. "dk" \in Labels \ {"reduce"} /\ isSkip' \in [Warps -> BOOLEAN] /\ Touches(w)
  BY <1>1, Unmoved DEF Labels, InTile, KeptSteps, TypeInv
<1>7. QED
  BY <1>1, <1>2, <1>3, <1>4, <1>5, <1>6, Goes

LEMMA FinishDKFirstKeeps ==
    ASSUME TypeInv, Followed, ~misread, UNCHANGED launch, NEW w \in Warps, FinishDKFirst(w)
    PROVE  IInv'
<1>1. /\ pc[w] = "dk" /\ ~Blocked(w) /\ launch.stages = 1 /\ Goto(w, "dqload")
      /\ pc'[w] = "dqload"
      /\ UNCHANGED <<tile, queue, mem, words, vote, isSkip, decision, misread>> /\ Sync(w)
  BY DEF FinishDKFirst, At, voteVars, Goto, TypeInv
<1>2. LocalAt(w) /\ tile[w] \in Nat /\ ~Forward
  BY <1>1, Known DEF Followed, LocalAt, PlaceOK, KeptSteps
<1>3. NextGate(launch, decision, pc[w], tile[w]) = <<tile[w], "dqload">>
  BY <1>1, Gates
<1>4. LocalAt(w)' /\ SkipOK(w)'
  BY <1>1, <1>2
     DEF LocalAt, PlaceOK, QueueOK, QueueB, MemOK, MemB, HasKV, SkipOK, Forward, NumTiles, InTile,
         Scored, KeptSteps, Closing, Before, Late, LastKept
<1>5. /\ Fact(launch, decision, words, "dqload", tile[w])
      /\ NumDecided("dqload", tile[w]) = NumDecided(pc[w], tile[w])
      /\ SyncOn(BarrierOf("dqload"), w)
  BY <1>1 DEF Fact, Post, KeptSteps, NumDecided, TypeInv, Followed, FactInv, Free, BarrierOf, Sync
<1>6. "dqload" \in Labels \ {"load", "reduce", "read"} /\ Touches(w)
  BY <1>1, Unmoved DEF Labels, InTile, KeptSteps
<1>7. QED
  BY <1>1, <1>3, <1>4, <1>5, <1>6, MeetsPlainly

LEMMA LoadNextQKeeps ==
    ASSUME TypeInv, Followed, ~misread, UNCHANGED launch, NEW w \in Warps, LoadNextQ(w)
    PROVE  IInv'
<1>1. /\ pc[w] = "dqload" /\ ~Blocked(w) /\ Goto(w, "dq") /\ pc'[w] = "dq"
      /\ UNCHANGED <<tile, bar, words, vote, isSkip, decision, misread>>
      /\ Issue(w, Commit(queue[w], NextTile(tile[w])))
  BY DEF LoadNextQ, At, voteVars, Goto, TypeInv
<1>2. LocalAt(w) /\ tile[w] \in Nat /\ ~Forward /\ launch.stages = 1
  BY <1>1, Known DEF Followed, LocalAt, PlaceOK, KeptSteps
<1>3. queue'[w] = <<NextQ(launch, tile[w])>> /\ mem' = mem /\ Touches(w)
  <2>1. queue[w] = <<>>
    BY <1>1, <1>2 DEF LocalAt, QueueOK, QueueB
  <2>2. Commit(queue[w], NextTile(tile[w])) = <<NextQ(launch, tile[w])>>
    BY <1>2, <2>1, Commits, NextQueries
  <2>3. QED
    BY <1>1, <2>2, IssueEffect DEF Touches
<1>4. NextGate(launch, decision, "dq", tile[w]) = NextGate(launch, decision, pc[w], tile[w])
  BY <1>1, Gates
<1>5. LocalAt(w)' /\ SkipOK(w)'
  BY <1>1, <1>2, <1>3
     DEF LocalAt, PlaceOK, QueueOK, QueueB, MemOK, MemB, HasKV, SkipOK, Forward, NumTiles, InTile,
         Scored, KeptSteps, Closing, Before, Late, LastKept
<1>6. /\ Fact(launch, decision, words, "dq", tile[w])
      /\ NumDecided("dq", tile[w]) = NumDecided(pc[w], tile[w])
      /\ tile' = [tile EXCEPT ![w] = tile[w]] /\ tile[w] <= Len(decision)
  BY <1>1 DEF Fact, Post, KeptSteps, NumDecided, TypeInv, Followed, FactInv, Free, DecInv
<1>7. "dq" \in Labels \ {"reduce"} /\ isSkip' \in [Warps -> BOOLEAN]
  BY <1>1 DEF Labels, InTile, KeptSteps, TypeInv
<1>8. QED
  BY <1>1, <1>2, <1>3, <1>4, <1>5, <1>6, <1>7, Goes

LEMMA AddDKVKeeps ==
    ASSUME TypeInv, Followed, ~misread, UNCHANGED launch, NEW w \in Warps, AddDKV(w)
    PROVE  IInv'
<1>1. /\ pc[w] = "epilogue" /\ ~Blocked(w) /\ launch.gqa /\ Goto(w, "done")
      /\ pc'[w] = "done"
      /\ UNCHANGED <<tile, queue, mem, bar, words, vote, isSkip, decision, misread>>
  BY DEF AddDKV, At, voteVars, Goto, TypeInv
<1>2. LocalAt(w) /\ tile[w] \in Nat /\ tile[w] = launch.tiles /\ ~Forward
  BY <1>1, Known DEF Followed, LocalAt, PlaceOK, Closing, NumTiles
<1>3. NextGate(launch, decision, "done", tile[w]) = NextGate(launch, decision, pc[w], tile[w])
  BY <1>1, <1>2, Gates DEF BeginGate
<1>4. LocalAt(w)' /\ SkipOK(w)'
  BY <1>1, <1>2
     DEF LocalAt, PlaceOK, QueueOK, QueueB, MemOK, MemB, HasKV, SkipOK, Forward, NumTiles, InTile,
         Scored, KeptSteps, Closing, Before, Late, LastKept, Followed, SkipInv
<1>5. /\ Fact(launch, decision, words, "done", tile[w])
      /\ NumDecided("done", tile[w]) = NumDecided(pc[w], tile[w])
      /\ tile' = [tile EXCEPT ![w] = tile[w]] /\ tile[w] <= Len(decision)
  BY <1>1 DEF Fact, Post, KeptSteps, NumDecided, TypeInv, Followed, DecInv
<1>6. "done" \in Labels \ {"reduce"} /\ isSkip' \in [Warps -> BOOLEAN] /\ Touches(w)
  BY <1>1, Unmoved DEF Labels, Closing, TypeInv
<1>7. QED
  BY <1>1, <1>2, <1>3, <1>4, <1>5, <1>6, Goes

LEMMA EnterEpilogueKeeps ==
    ASSUME TypeInv, Followed, ~misread, UNCHANGED launch, NEW w \in Warps, EnterEpilogue(w)
    PROVE  IInv'
<1>1. /\ pc[w] = "epilogue" /\ ~Blocked(w) /\ ~launch.gqa /\ Goto(w, "write")
      /\ pc'[w] = "write" /\ SyncOn(EpilogueBarrier, w)
      /\ UNCHANGED <<tile, queue, mem, words, vote, isSkip, decision, misread>>
  BY DEF EnterEpilogue, At, voteVars, Goto, TypeInv
<1>2. LocalAt(w) /\ tile[w] \in Nat /\ tile[w] = launch.tiles
  BY <1>1, Known DEF Followed, LocalAt, PlaceOK, Closing, NumTiles
<1>3. NextGate(launch, decision, pc[w], tile[w]) = <<tile[w], "write">>
  BY <1>1, <1>2, Gates DEF BeginGate
<1>4. LocalAt(w)' /\ SkipOK(w)'
  BY <1>1, <1>2
     DEF LocalAt, PlaceOK, QueueOK, QueueF, QueueB, MemOK, MemF, MemB, HasKV, SkipOK, Forward,
         NumTiles, InTile, Scored, KeptSteps, Closing, Before, Late, LastKept, Followed, SkipInv
<1>5. /\ Fact(launch, decision, words, "write", tile[w])
      /\ NumDecided("write", tile[w]) = NumDecided(pc[w], tile[w])
      /\ SyncOn(BarrierOf("write"), w)
  BY <1>1 DEF Fact, Post, KeptSteps, NumDecided, BarrierOf
<1>6. "write" \in Labels \ {"load", "reduce", "read"} /\ Touches(w)
  BY <1>1, Unmoved DEF Labels, Closing
<1>7. QED
  BY <1>1, <1>3, <1>4, <1>5, <1>6, MeetsPlainly

LEMMA WriteOutKeeps ==
    ASSUME TypeInv, Followed, ~misread, UNCHANGED launch, NEW w \in Warps, WriteOut(w)
    PROVE  IInv'
<1>1. /\ pc[w] = "write" /\ ~Blocked(w) /\ Goto(w, "store") /\ pc'[w] = "store"
      /\ SyncOn(EpilogueBarrier, w)
      /\ mem' = [b \in Buffers |-> IF b \in OutBuffers THEN [mem[b] EXCEPT ![w] = Out] ELSE mem[b]]
      /\ UNCHANGED <<tile, queue, words, vote, isSkip, decision, misread>>
  BY DEF WriteOut, At, voteVars, Goto, TypeInv
<1>2. LocalAt(w) /\ tile[w] \in Nat
  BY <1>1, Known DEF Followed
<1>3. Touches(w)
  <2>1. /\ \A b \in Buffers : mem[b] = [v \in Warps |-> mem[b][v]]
        /\ queue = [v \in Warps |-> queue[v]]
    BY DEF TypeInv
  <2>2. \A b \in Buffers : /\ mem'[b] = [v \in Warps |-> mem'[b][v]]
                           /\ \A v \in Warps \ {w} : mem'[b][v] = mem[b][v]
    BY <1>1, <2>1
  <2>3. mem' = [b \in Buffers |-> [v \in Warps |-> mem'[b][v]]]
    BY <1>1, <2>2
  <2>4. Warps' = Warps /\ Buffers' = Buffers
    BY DEF Warps, Buffers, Forward
  <2>5. QED
    BY <1>1, <2>1, <2>2, <2>3, <2>4 DEF Touches, Form
<1>4. NextGate(launch, decision, pc[w], tile[w]) = <<tile[w], "store">>
  BY <1>1, Gates
<1>5. LocalAt(w)' /\ SkipOK(w)'
  BY <1>1, <1>2
     DEF LocalAt, PlaceOK, QueueOK, QueueF, QueueB, MemOK, MemF, MemB, HasKV, SkipOK, Forward,
         NumTiles, InTile, Scored, KeptSteps, Closing, Before, Late, LastKept
<1>6. /\ Fact(launch, decision, words, "store", tile[w])
      /\ NumDecided("store", tile[w]) = NumDecided(pc[w], tile[w])
      /\ SyncOn(BarrierOf("store"), w)
  BY <1>1 DEF Fact, Post, KeptSteps, NumDecided, BarrierOf
<1>7. "store" \in Labels \ {"load", "reduce", "read"}
  BY DEF Labels, Closing
<1>8. QED
  BY <1>1, <1>3, <1>4, <1>5, <1>6, <1>7, MeetsPlainly

LEMMA StoreOutKeeps ==
    ASSUME TypeInv, Followed, ~misread, UNCHANGED launch, NEW w \in Warps, StoreOut(w)
    PROVE  IInv'
<1>1. /\ pc[w] = "store" /\ ~Blocked(w) /\ Goto(w, "done") /\ pc'[w] = "done"
      /\ UNCHANGED <<tile, queue, mem, bar, words, vote, isSkip, decision, misread>>
  BY DEF StoreOut, At, voteVars, Goto, TypeInv
<1>2. LocalAt(w) /\ tile[w] \in Nat /\ ~launch.gqa
  BY <1>1, Known DEF Followed, LocalAt, PlaceOK
<1>3. NextGate(launch, decision, "done", tile[w]) = NextGate(launch, decision, pc[w], tile[w])
  BY <1>1, Gates
<1>4. LocalAt(w)' /\ SkipOK(w)'
  BY <1>1, <1>2
     DEF LocalAt, PlaceOK, QueueOK, QueueF, QueueB, MemOK, MemF, MemB, HasKV, SkipOK, Forward,
         NumTiles, InTile, Scored, KeptSteps, Closing, Before, Late, LastKept
<1>5. /\ Fact(launch, decision, words, "done", tile[w])
      /\ NumDecided("done", tile[w]) = NumDecided(pc[w], tile[w])
      /\ tile' = [tile EXCEPT ![w] = tile[w]] /\ tile[w] <= Len(decision)
  BY <1>1 DEF Fact, Post, KeptSteps, NumDecided, TypeInv, Followed, DecInv
<1>6. "done" \in Labels \ {"reduce"} /\ isSkip' \in [Warps -> BOOLEAN] /\ Touches(w)
  BY <1>1, Unmoved DEF Labels, Closing, TypeInv
<1>7. QED
  BY <1>1, <1>2, <1>3, <1>4, <1>5, <1>6, Goes

-----------------------------------------------------------------------------
(* The steps that write over the words. *)

LEMMA WordsWritten ==
    ASSUME TypeInv, Followed, UNCHANGED <<launch, decision, vote>>,
           NEW w \in Warps, ~Blocked(w), NEW label \in {"pv", "ds"}, NEW t,
           NextGate(launch, decision, pc[w], tile[w]) = <<t, label>>,
           words' = WordsOver(w, t),
           t < Len(decision), ~decision[t + 1]
    PROVE  /\ \A v \in Warps \ {w} : Free(v) => Fact(launch, decision', words', pc[v], tile[v])
           /\ w = 0 => Fact(launch, decision', words', label, t)
           /\ \A v \in Warps \ {w} : CastAt(v) => words'[v] = Vote(vote'[v])
           /\ words' = [v \in Warps |-> words'[v]]
<1>1. /\ w = 0 => words' = TileBytes(launch, t)
      /\ w # 0 => words' = words
  BY DEF WordsOver, TileBytes, Warps
<1>2. 0 \in Warps /\ Warps = 0 .. launch.warps - 1
  BY WarpSet DEF TypeInv
<1>3. ASSUME NEW v \in Warps \ {w}, Free(v)
      PROVE  Fact(launch, decision', words', pc[v], tile[v])
  <2>1. Fact(launch, decision, words, pc[v], tile[v])
    BY <1>3 DEF Followed, FactInv
  <2>2. CASE w # 0
    BY <1>1, <2>1, <2>2
  <2>3. CASE w = 0
    <3>1. ~Blocked(v)
      BY <1>3, <2>3 DEF Free
    <3>2. /\ pc[v] \notin {"pv", "ds", "dv"}
          /\ pc[v] = "read" => Forward /\ tile[v] = t
      BY <3>1, Readers DEF Followed
    <3>3. words'[0] = Bytes(t)
      BY <1>1, <1>2, <2>3 DEF TileBytes
    <3>4. QED
      BY <2>1, <3>2, <3>3 DEF Fact, Forward
  <2>4. QED
    BY <2>2, <2>3
<1>4. w = 0 => Fact(launch, decision', words', label, t)
  BY <1>1 DEF Fact
<1>5. \A v \in Warps \ {w} : ~CastAt(v)
  BY Readers DEF Followed
<1>6. words' = [v \in Warps |-> words'[v]]
  BY <1>1, <1>2 DEF TileBytes, TypeInv
<1>7. QED
  BY <1>3, <1>4, <1>5, <1>6

(* A wait that covers one copy. *)
LEMMA WaitsForOne ==
    ASSUME TypeInv, UNCHANGED launch, NEW w \in Warps, NEW q, NEW n, Wait(w, q, n),
           NEW b \in Buffers, NEW t \in Tiles \union {Fixed}, Landed(q, n) = {<<b, t>>}
    PROVE  /\ Touches(w) /\ queue'[w] = Left(q, n) /\ mem'[b][w] = t
           /\ \A c \in Buffers \ {b} : mem'[c][w] = mem[c][w]
<1>1. <<b, t>> \in Landed(q, n) /\ \A u : <<b, u>> \in Landed(q, n) => u = t
  OBVIOUS
<1>2. mem'[b][w] = t
  BY <1>1, WaitEffect
<1>3. \A c \in Buffers \ {b} : \A u : <<c, u>> \notin Landed(q, n)
  OBVIOUS
<1>4. \A c \in Buffers \ {b} : mem'[c][w] = mem[c][w]
  BY <1>3, WaitEffect
<1>5. Touches(w) /\ queue'[w] = Left(q, n)
  BY WaitEffect DEF Touches
<1>6. QED
  BY <1>2, <1>4, <1>5

LEMMA LoadVKeeps ==
    ASSUME TypeInv, Followed, ~misread, UNCHANGED launch, NEW w \in Warps, LoadV(w)
    PROVE  IInv'
<1> DEFINE t == tile[w]
           q == Commit(queue[w], CopyV(t))
<1>1. /\ pc[w] = "act" /\ ~Blocked(w) /\ Forward /\ ~isSkip[w] /\ Goto(w, "pv")
      /\ pc'[w] = "pv" /\ words' = WordsOver(w, t) /\ Sync(w)
      /\ HasNext(t) => Wait(w, Commit(q, NextTile(t)), 1)
      /\ ~HasNext(t) => Wait(w, q, 0)
      /\ UNCHANGED <<tile, vote, isSkip, decision, misread>>
  BY DEF LoadV, At, outVars, Goto, TypeInv
<1>2. /\ LocalAt(w) /\ t \in Nat /\ launch.tiles \in Nat /\ t < launch.tiles
      /\ isSkip[w] \in BOOLEAN /\ Buffers = {"Q", "K", "V"}
  BY <1>1, Known DEF Followed, LocalAt, PlaceOK, InTile, Scored, NumTiles
<1>3. queue[w] = <<>> /\ CopyV(t) = {<<"V", t>>}
  BY <1>1, <1>2 DEF LocalAt, QueueOK, QueueF, CopyV
<1>4. More(launch, t) <=> HasNext(t)
  BY DEF More, HasNext, NumTiles
<1>5. /\ Touches(w) /\ mem'["V"][w] = t /\ mem'["Q"][w] = mem["Q"][w]
      /\ More(launch, t) => queue'[w] = <<{<<"K", t + 1>>}>>
      /\ ~More(launch, t) => queue'[w] = <<>>
  <2>1. q = <<{<<"V", t>>}>> /\ t \in Tiles \union {Fixed}
    BY <1>2, <1>3, Commits DEF Tiles, NumTiles
  <2> HIDE DEF t, q
  <2>2. CASE HasNext(t)
    <3>1. Commit(q, NextTile(t)) = <<{<<"V", t>>}, {<<"K", t + 1>>}>>
      BY <1>1, <2>1, <2>2, Commits DEF NextTile, CopyTile, CopyKeys
    <3>2. /\ Landed(Commit(q, NextTile(t)), 1) = {<<"V", t>>}
          /\ Left(Commit(q, NextTile(t)), 1) = <<{<<"K", t + 1>>}>>
      BY <3>1, Waits
    <3> DEFINE r == Commit(q, NextTile(t))
    <3>3. Wait(w, r, 1) /\ "V" \in Buffers /\ "Q" \in Buffers \ {"V"}
      BY <1>1, <1>2, <2>2
    <3> HIDE DEF r
    <3>4. /\ Touches(w) /\ queue'[w] = Left(r, 1) /\ mem'["V"][w] = t
          /\ \A c \in Buffers \ {"V"} : mem'[c][w] = mem[c][w]
      BY <2>1, <3>2, <3>3, WaitsForOne DEF r
    <3>5. QED
      BY <1>4, <2>2, <3>2, <3>3, <3>4 DEF r
  <2>3. CASE ~HasNext(t)
    <3>1. Landed(q, 0) = {<<"V", t>>} /\ Left(q, 0) = <<>>
      BY <2>1, Waits
    <3>2. Wait(w, q, 0) /\ "V" \in Buffers /\ "Q" \in Buffers \ {"V"}
      BY <1>1, <1>2, <2>3 DEF q
    <3>3. /\ Touches(w) /\ queue'[w] = Left(q, 0) /\ mem'["V"][w] = t
          /\ \A c \in Buffers \ {"V"} : mem'[c][w] = mem[c][w]
      <4>1. t \in Tiles \union {Fixed} /\ Landed(q, 0) = {<<"V", t>>}
        BY <2>1, <3>1
      <4>2. QED
        BY <3>2, <4>1, WaitsForOne
    <3>4. QED
      BY <1>4, <2>3, <3>1, <3>2, <3>3
  <2>4. QED
    BY <2>2, <2>3
<1>6. t < Len(decision) /\ ~decision[t + 1]
  <2>1. t < Len(decision)
    BY <1>1 DEF Followed, FactInv, Free, Fact, Post
  <2>2. CASE t = 0
    BY <1>1, <1>2, <2>1, <2>2 DEF Followed, DecInv
  <2>3. CASE t # 0
    BY <1>1, <1>2, <2>3 DEF Followed, SkipInv, SkipOK
  <2>4. QED
    BY <2>1, <2>2, <2>3
<1>7. NextGate(launch, decision, pc[w], t) = <<t, "pv">>
  BY <1>1, <1>6, Gates DEF Forward
<1>8. LocalAt(w)' /\ SkipOK(w)'
  BY <1>1, <1>2, <1>5
     DEF LocalAt, PlaceOK, QueueOK, QueueF, MemOK, MemF, SkipOK, Forward, NumTiles, InTile,
         Scored, KeptSteps, Closing, Before, Late, LastKept
<1>9. /\ \A v \in Warps \ {w} : Free(v) => Fact(launch, decision', words', pc[v], tile[v])
      /\ w = 0 => Fact(launch, decision', words', "pv", t)
      /\ \A v \in Warps \ {w} : CastAt(v) => words'[v] = Vote(vote'[v])
      /\ words' = [v \in Warps |-> words'[v]]
  BY <1>1, <1>6, <1>7, WordsWritten
<1>10. /\ w = 0 => Len(decision) = NumDecided("pv", t)
       /\ tile[w] <= Len(decision') /\ (Forward /\ Len(decision') > 0 => ~decision'[1])
       /\ SyncOn(BarrierOf("pv"), w)
  BY <1>1 DEF NumDecided, Post, Followed, DecInv, BarrierOf, Sync
<1>11. /\ "pv" \in Labels \ {"load"} /\ isSkip' \in [Warps -> BOOLEAN]
       /\ vote' \in [Warps -> BOOLEAN] /\ \A v \in Warps \ {w} : isSkip'[v] = isSkip[v]
  BY <1>1 DEF Labels, InTile, TypeInv
<1>12. QED
  BY <1>1, <1>5, <1>7, <1>8, <1>9, <1>10, <1>11, Meets

LEMMA LoadDOKeeps ==
    ASSUME TypeInv, Followed, ~misread, UNCHANGED launch, NEW w \in Warps, LoadDO(w)
    PROVE  IInv'
<1> DEFINE t == tile[w]
<1>1. /\ pc[w] = "act" /\ ~Blocked(w) /\ ~Forward /\ ~isSkip[w] /\ Goto(w, "dp")
      /\ pc'[w] = "dp" /\ Wait(w, Commit(queue[w], CopyDO(t)), 0) /\ Sync(w)
      /\ UNCHANGED <<tile, words, vote, isSkip, decision, misread>>
  BY DEF LoadDO, At, voteVars, Goto, TypeInv
<1>2. /\ LocalAt(w) /\ t \in Nat /\ launch.tiles \in Nat /\ t < launch.tiles
      /\ isSkip[w] \in BOOLEAN /\ Buffers = {"Q0", "Q1", "K", "V", "dO", "P", "dS"}
      /\ QS(launch, t) \in {"Q0", "Q1"}
  BY <1>1, Known DEF Followed, LocalAt, PlaceOK, InTile, Scored, NumTiles
<1>3. Commit(queue[w], CopyDO(t)) = <<{<<"dO", t>>}>> /\ t \in Tiles \union {Fixed}
  <2>1. queue[w] = <<>> /\ CopyDO(t) = {<<"dO", t>>}
    BY <1>1, <1>2 DEF LocalAt, QueueOK, QueueB, Scored, CopyDO
  <2>2. QED
    BY <1>2, <2>1, Commits DEF Tiles, NumTiles
<1>4. /\ Touches(w) /\ mem'["dO"][w] = t /\ queue'[w] = <<>>
      /\ \A b \in Buffers \ {"dO"} : mem'[b][w] = mem[b][w]
  <2> DEFINE q == Commit(queue[w], CopyDO(t))
  <2>1. Landed(q, 0) = {<<"dO", t>>} /\ Left(q, 0) = <<>>
    BY <1>3, Waits
  <2> HIDE DEF q
  <2>2. Wait(w, q, 0)
    BY <1>1 DEF q
  <2>3. "dO" \in Buffers
    BY <1>2
  <2> HIDE DEF t
  <2>4. /\ Touches(w) /\ queue'[w] = Left(q, 0) /\ mem'["dO"][w] = t
        /\ \A c \in Buffers \ {"dO"} : mem'[c][w] = mem[c][w]
    BY <1>3, <2>1, <2>2, <2>3, WaitsForOne
  <2>5. QED
    BY <2>1, <2>4
<1>5. t < Len(decision) /\ ~decision[t + 1]
  BY <1>1, <1>2 DEF Followed, SkipInv, SkipOK
<1>6. NextGate(launch, decision, pc[w], t) = <<t, "dp">>
  BY <1>1, <1>5, Gates DEF Forward
<1>7. LocalAt(w)' /\ SkipOK(w)'
  BY <1>1, <1>2, <1>4
     DEF LocalAt, PlaceOK, QueueOK, QueueB, MemOK, MemB, HasKV, SkipOK, Forward, NumTiles, InTile,
         Scored, KeptSteps, Closing, Before, Late, LastKept
<1>8. /\ Fact(launch, decision, words, "dp", t) /\ NumDecided("dp", t) = NumDecided(pc[w], t)
      /\ SyncOn(BarrierOf("dp"), w)
  BY <1>1, <1>5 DEF Fact, Post, KeptSteps, NumDecided, BarrierOf, Sync
<1>9. "dp" \in Labels \ {"load", "reduce", "read"}
  BY DEF Labels, InTile, KeptSteps
<1>10. QED
  BY <1>1, <1>4, <1>6, <1>7, <1>8, <1>9, MeetsPlainly

LEMMA WritePKeeps ==
    ASSUME TypeInv, Followed, ~misread, UNCHANGED launch, NEW w \in Warps, WriteP(w)
    PROVE  IInv'
<1> DEFINE t == tile[w]
<1>1. /\ pc[w] = "dp" /\ ~Blocked(w) /\ Goto(w, "ds") /\ pc'[w] = "ds"
      /\ mem' = [mem EXCEPT !["P"][w] = t] /\ words' = WordsOver(w, t) /\ Sync(w)
      /\ launch.stages = 1 => queue' = queue
      /\ launch.stages # 1 => queue' = [queue EXCEPT ![w] = Commit(@, NextTile(t))]
      /\ UNCHANGED <<tile, vote, isSkip, decision, misread>>
  BY DEF WriteP, At, outVars, Goto, TypeInv
<1>2. /\ LocalAt(w) /\ t \in Nat /\ ~Forward /\ launch.stages \in {1, 2}
      /\ Buffers = {"Q0", "Q1", "K", "V", "dO", "P", "dS"}
      /\ QS(launch, t) \in {"Q0", "Q1"}
  BY <1>1, Known DEF Followed, LocalAt, PlaceOK, KeptSteps
<1>3. /\ Touches(w) /\ mem'["P"][w] = t
      /\ \A b \in Buffers \ {"P"} : mem'[b] = mem[b]
      /\ launch.stages = 1 => queue'[w] = <<>>
      /\ launch.stages = 2 => queue'[w] = <<NextQ(launch, t)>>
  <2>1. /\ mem' = [c \in Buffers |-> [v \in Warps |-> mem'[c][v]]] /\ mem'["P"][w] = t
        /\ \A c \in Buffers \ {"P"} : mem'[c] = mem[c]
        /\ \A c \in Buffers : \A v \in Warps \ {w} : mem'[c][v] = mem[c][v]
    <3>1. "P" \in Buffers
      BY <1>2
    <3>2. mem' = [mem EXCEPT !["P"][w] = tile[w]]
      BY <1>1
    <3>3. QED
      BY <3>1, <3>2, WriteEffect, ZenonT(40)
  <2>2. Warps' = Warps /\ Buffers' = Buffers /\ queue = [v \in Warps |-> queue[v]]
    BY DEF Warps, Buffers, Forward, TypeInv
  <2>3. queue[w] = <<>>
    BY <1>1, <1>2 DEF LocalAt, QueueOK, QueueB
  <2>4. Commit(queue[w], NextTile(t)) = <<NextQ(launch, t)>>
    BY <1>2, <2>3, Commits, NextQueries
  <2>5. /\ queue' = [v \in Warps |-> queue'[v]] /\ \A v \in Warps \ {w} : queue'[v] = queue[v]
        /\ launch.stages = 1 => queue'[w] = <<>>
        /\ launch.stages = 2 => queue'[w] = <<NextQ(launch, t)>>
    BY <1>1, <1>2, <2>2, <2>3, <2>4
  <2>6. QED
    BY <2>1, <2>2, <2>5 DEF Touches, Form
<1>4. LocalAt(w)' /\ SkipOK(w)'
  BY <1>1, <1>2, <1>3
     DEF LocalAt, PlaceOK, QueueOK, QueueB, MemOK, MemB, HasKV, SkipOK, Forward, NumTiles, InTile,
         Scored, KeptSteps, Closing, Before, Late, LastKept
<1>5. t < Len(decision) /\ ~decision[t + 1]
  BY <1>1 DEF Followed, FactInv, Free, Fact, Post, KeptSteps
<1>6. NextGate(launch, decision, pc[w], t) = <<t, "ds">>
  BY <1>1, Gates
<1>7. /\ \A v \in Warps \ {w} : Free(v) => Fact(launch, decision', words', pc[v], tile[v])
      /\ w = 0 => Fact(launch, decision', words', "ds", t)
      /\ \A v \in Warps \ {w} : CastAt(v) => words'[v] = Vote(vote'[v])
      /\ words' = [v \in Warps |-> words'[v]]
  BY <1>1, <1>5, <1>6, WordsWritten
<1>8. /\ w = 0 => Len(decision) = NumDecided("ds", t)
      /\ tile[w] <= Len(decision') /\ (Forward /\ Len(decision') > 0 => ~decision'[1])
      /\ SyncOn(BarrierOf("ds"), w)
  BY <1>1 DEF NumDecided, Post, KeptSteps, Followed, DecInv, BarrierOf, Sync
<1>9. /\ "ds" \in Labels \ {"load"} /\ isSkip' \in [Warps -> BOOLEAN]
      /\ vote' \in [Warps -> BOOLEAN] /\ \A v \in Warps \ {w} : isSkip'[v] = isSkip[v]
  BY <1>1 DEF Labels, InTile, KeptSteps, TypeInv
<1>10. QED
  BY <1>1, <1>3, <1>4, <1>6, <1>7, <1>8, <1>9, Meets

-----------------------------------------------------------------------------
(* The invariant holds throughout. *)

LEMMA Begins ==
    ASSUME Init
    PROVE  IInv
<1>1. launch \in Launches /\ launch.warps \in Nat \ {0} /\ 0 \in Warps
  BY LaunchFacts, WarpSet DEF Init
<1>2. TypeInv
  BY <1>1 DEF Init, TypeInv, Labels
<1>3. BarInv
  <2>1. Cardinality({}) = 0
    BY FS_EmptySet
  <2>2. bar = [b \in {"cta", "Epilogue"} |-> [count |-> 0, blocked |-> {}]]
    BY DEF Init, NoOne
  <2>3. QED
    BY <1>1, <2>1, <2>2 DEF BarInv
<1>4. \A w \in Warps : ~Blocked(w) /\ pc[w] = "load" /\ tile[w] = 0 /\ queue[w] = <<>>
  BY DEF Init, Blocked, NoOne
<1>5. GateInv
  BY <1>4 DEF GateInv, Gate
<1>6. LocalInv
  BY <1>4
     DEF LocalInv, LocalAt, PlaceOK, QueueOK, QueueF, QueueB, MemOK, MemF, MemB, HasKV, InTile,
         Scored, KeptSteps, Closing, Before, LastKept, Late
<1>7. DecInv
  <2>1. decision = <<>> /\ Len(<<>>) = 0
    BY DEF Init
  <2>2. QED
    BY <1>1, <1>4, <2>1 DEF DecInv, Post, KeptSteps
<1>8. SkipInv /\ CastInv /\ FactInv
  BY <1>4 DEF SkipInv, SkipOK, Late, Before, CastInv, CastAt, FactInv, Fact, Post, KeptSteps
<1>9. ~misread
  BY DEF Init
<1>10. QED
  BY <1>2, <1>3, <1>5, <1>6, <1>7, <1>8, <1>9 DEF IInv, Followed

LEMMA Stays ==
    ASSUME IInv, UNCHANGED vars
    PROVE  IInv'
<1>1. UNCHANGED <<launch, pc, tile, queue, bar, mem, words, vote, isSkip, decision, misread>>
  BY DEF vars, voteVars
<1>2. Warps' = Warps /\ (Forward)' = Forward /\ Buffers' = Buffers
  BY <1>1 DEF Warps, Forward, Buffers
<1>3. TypeInv'
  BY <1>1, <1>2 DEF IInv, TypeInv
<1>4. ASSUME Followed PROVE (Followed)'
  <2>1. \A w : (Blocked(w))' <=> Blocked(w)
    BY <1>1 DEF Blocked
  <2>2. (BarInv)'
    BY <1>1, <1>2, <1>4 DEF Followed, BarInv, BarrierOf, EpilogueBarrier
  <2>3. (GateInv)'
    BY <1>1, <1>2, <1>4, <2>1 DEF Followed, GateInv, Gate
  <2>4. (LocalInv)'
    <3>1. \A w : (PlaceOK(w))' <=> PlaceOK(w)
      BY <1>1, <1>2 DEF PlaceOK, NumTiles
    <3>2. \A w : (QueueOK(w))' <=> QueueOK(w)
      BY <1>1, <1>2 DEF QueueOK
    <3>3. \A w : (MemOK(w))' <=> MemOK(w)
      BY <1>1, <1>2 DEF MemOK, MemF, MemB, HasKV, LastKept, Late
    <3>4. QED
      BY <1>2, <1>4, <3>1, <3>2, <3>3 DEF Followed, LocalInv, LocalAt
  <2>5. (DecInv)'
    BY <1>1, <1>2, <1>4 DEF Followed, DecInv
  <2>6. (SkipInv)' /\ (CastInv)' /\ (FactInv)'
    BY <1>1, <1>2, <1>4, <2>1
       DEF Followed, SkipInv, SkipOK, Late, CastInv, CastAt, FactInv, Free
  <2>7. QED
    BY <2>2, <2>3, <2>4, <2>5, <2>6 DEF Followed
<1>5. QED
  BY <1>1, <1>2, <1>3, <1>4 DEF IInv

LEMMA Steps ==
    ASSUME IInv, [Next]_vars
    PROVE  IInv'
<1>1. ASSUME NEW w \in Warps, WarpStep(w) PROVE IInv'
  <2>1. ~misread /\ UNCHANGED launch
    BY <1>1 DEF WarpStep
  <2>2. TypeInv /\ Followed
    BY <2>1 DEF IInv
  <2>3. CASE LoadQ(w) \/ LoadKV(w) \/ Restart(w) \/ LoadFirst(w) \/ WaitTile(w)
    BY <2>1, <2>2, <2>3, LoadQKeeps, LoadKVKeeps, RestartKeeps, LoadFirstKeeps, WaitTileKeeps
  <2>4. CASE FirstVote(w) \/ CastVote(w) \/ ReduceVotes(w) \/ ReadVote(w)
    BY <2>1, <2>2, <2>4, FirstVoteKeeps, CastVoteKeeps, ReduceVotesKeeps, ReadVoteKeeps
  <2>5. CASE SkipKeys(w) \/ LoadV(w) \/ FinishPV(w)
    BY <2>1, <2>2, <2>5, SkipKeysKeeps, LoadVKeeps, FinishPVKeeps
  <2>6. CASE SkipQueries(w) \/ LoadDO(w) \/ WriteP(w) \/ WriteDS(w) \/ FinishDV(w)
    BY <2>1, <2>2, <2>6, SkipQueriesKeeps, LoadDOKeeps, WritePKeeps, WriteDSKeeps,
       FinishDVKeeps
  <2>7. CASE \/ FinishDQ(w) \/ FinishDK(w) \/ FinishDKFirst(w) \/ LoadNextQ(w)
             \/ FinishDQLast(w)
    BY <2>1, <2>2, <2>7, FinishDQKeeps, FinishDKKeeps, FinishDKFirstKeeps, LoadNextQKeeps,
       FinishDQLastKeeps
  <2>8. CASE AddDKV(w) \/ EnterEpilogue(w) \/ WriteOut(w) \/ StoreOut(w)
    BY <2>1, <2>2, <2>8, AddDKVKeeps, EnterEpilogueKeeps, WriteOutKeeps, StoreOutKeeps
  <2>9. QED
    BY <1>1, <2>3, <2>4, <2>5, <2>6, <2>7, <2>8 DEF WarpStep
<1>2. CASE UNCHANGED vars
  BY <1>2, Stays
<1>3. QED
  BY <1>1, <1>2 DEF Next

-----------------------------------------------------------------------------
(* What the warps read is whole. *)

LEMMA Quiets ==
    /\ \A b : Quiet(<<>>, b) /\ Quiet(<<{}>>, b)
    /\ \A b, c, t : c # b => Quiet(<<{<<c, t>>}>>, b)
    /\ \A b, l, t : (More(l, t) => QS(l, t + 1) # b) => Quiet(<<NextQ(l, t)>>, b)
<1>1. \A b : Quiet(<<>>, b) /\ Quiet(<<{}>>, b)
  BY DEF Quiet
<1>2. \A b, c, t : c # b => Quiet(<<{<<c, t>>}>>, b)
  BY DEF Quiet
<1>3. \A b, l, t : (More(l, t) => QS(l, t + 1) # b) => Quiet(<<NextQ(l, t)>>, b)
  BY <1>1, <1>2 DEF NextQ
<1>4. QED
  BY <1>1, <1>2, <1>3

(* Where the others are when a warp is at a product within a tile, ... *)
LEMMA Company ==
    ASSUME TypeInv, Followed, NEW w \in Warps, ~Blocked(w), NEW v \in Warps
    PROVE  /\ pc[w] = "s" => pc[v] \in Scored /\ tile[v] = tile[w]
           /\ pc[w] = "dp" => pc[v] \in {"dp", "ds"} /\ tile[v] = tile[w]
           /\ pc[w] = "dv" => /\ pc[v] \in {"ds", "dv", "dk", "dq"} /\ tile[v] = tile[w]
                              /\ pc[v] = "dk" => launch.stages = 1
                              /\ pc[v] = "dq" => launch.stages # 1
           /\ pc[w] = "dk" /\ launch.stages = 1 =>
                pc[v] \in {"dk", "dqload"} /\ tile[v] = tile[w]
<1>1. Gate(v) = NextGate(launch, decision, pc[w], tile[w])
  BY DEF Followed, GateInv, Gate
<1>2. pc[v] \in Labels
  BY DEF TypeInv
<1>3. CASE Blocked(v)
  <2>1. NextGate(launch, decision, pc[w], tile[w]) = <<tile[v], pc[v]>>
    BY <1>1, <1>3 DEF Gate
  <2>2. QED
    BY <2>1, Gates DEF Scored
<1>4. CASE ~Blocked(v)
  <2>1. NextGate(launch, decision, pc[v], tile[v]) = NextGate(launch, decision, pc[w], tile[w])
    BY <1>1, <1>4 DEF Gate
  <2>2. ASSUME pc[w] = "s" PROVE pc[v] = "s" /\ tile[v] = tile[w]
    BY <1>2, <2>1, <2>2, Gates
       DEF BeginGate, Labels, Before, InTile, Scored, KeptSteps, Closing
  <2>3. ASSUME pc[w] = "dp" PROVE pc[v] = "dp" /\ tile[v] = tile[w]
    BY <1>2, <2>1, <2>3, Gates
       DEF BeginGate, Labels, Before, InTile, Scored, KeptSteps, Closing
  <2>4. ASSUME pc[w] = "dv" PROVE pc[v] \in {"ds", "dv"} /\ tile[v] = tile[w]
    BY <1>2, <2>1, <2>4, Gates
       DEF BeginGate, Labels, Before, InTile, Scored, KeptSteps, Closing
  <2>5. ASSUME pc[w] = "dk", launch.stages = 1 PROVE pc[v] = "dk" /\ tile[v] = tile[w]
    BY <1>2, <2>1, <2>5, Gates
       DEF BeginGate, Labels, Before, InTile, Scored, KeptSteps, Closing
  <2>6. QED
    BY <2>2, <2>3, <2>4, <2>5 DEF Scored
<1>5. QED
  BY <1>3, <1>4

(* ... and when it is at the last products of one it has kept: on the same *)
(* tile or on the way to the first barrier after it.                       *)
LEMMA LastCompany ==
    ASSUME TypeInv, Followed, NEW w \in Warps, ~Blocked(w),
           pc[w] \in {"pv", "dq", "dqload", "dk"}, pc[w] = "dk" => launch.stages = 2,
           NEW v \in Warps
    PROVE  \/ /\ pc[v] \in {"pv", "dq", "dqload", "dk"} /\ tile[v] = tile[w]
              /\ pc[v] = "dk" => launch.stages = 2
           \/ /\ LastKept(v) /\ tile[v] = tile[w] + 1
              /\ pc[v] \in {"tile", "s"} => tile[v] \notin launch.restarts
<1> DEFINE t == tile[w]
<1>1. /\ t \in Nat /\ tile[v] \in Nat /\ pc[v] \in Labels /\ launch.tiles \in Nat
      /\ \A i \in launch.restarts : i < launch.tiles
      /\ launch.stages \in {1, 2} /\ PlaceOK(v) /\ decision \in Seq(BOOLEAN)
      /\ isSkip[v] \in BOOLEAN
  BY Known DEF Followed, LocalAt, TypeInv
<1>2. t < Len(decision) /\ ~decision[t + 1]
  BY DEF Followed, FactInv, Free, Fact, Post, KeptSteps
<1>3. Gate(v) = BeginGate(launch, t + 1)
  <2>1. NextGate(launch, decision, pc[w], t) = BeginGate(launch, t + 1)
    BY Gates
  <2>2. QED
    BY <2>1 DEF Followed, GateInv, Gate
<1>4. ASSUME Late(v), tile[v] = t + 1 PROVE LastKept(v)
  BY <1>1, <1>2, <1>4 DEF Followed, SkipInv, SkipOK, LastKept
<1>5. CASE Blocked(v)
  <2>1. BeginGate(launch, t + 1) = <<tile[v], pc[v]>>
    BY <1>3, <1>5 DEF Gate
  <2>2. /\ tile[v] = t + 1
        /\ \/ pc[v] \in {"write", "first", "s"}
           \/ pc[v] = "done" /\ launch.gqa
        /\ pc[v] = "s" => tile[v] \notin launch.restarts
    BY <1>1, <2>1 DEF BeginGate
  <2>3. Late(v) /\ pc[v] # "tile"
    BY <2>2 DEF Late, Before
  <2>4. QED
    BY <1>4, <2>2, <2>3
<1>6. CASE ~Blocked(v)
  <2>1. NextGate(launch, decision, pc[v], tile[v]) = BeginGate(launch, t + 1)
    BY <1>3, <1>6 DEF Gate
  <2>2. CASE pc[v] \in {"load", "restart", "epilogue"}
    <3>1. tile[v] = t + 1
      BY <2>1, <2>2, Gates DEF BeginGate
    <3>2. pc[v] # "load"
      BY <1>1, <3>1 DEF PlaceOK
    <3>3. Late(v)
      BY <2>2, <3>2 DEF Late, Before
    <3>4. QED
      BY <1>4, <2>2, <3>1, <3>3
  <2>3. CASE pc[v] \in {"first", "tile"}
    <3>1. tile[v] = t + 1 /\ t + 1 \notin launch.restarts
      BY <2>1, <2>3, Gates DEF BeginGate
    <3>2. Late(v)
      BY <2>3 DEF Late, Before
    <3>3. QED
      BY <1>4, <3>1, <3>2
  <2>4. CASE pc[v] \in {"read", "act"}
    <3>1. NextGate(launch, decision, pc[v], tile[v]) =
            IF decision[tile[v] + 1] THEN BeginGate(launch, tile[v] + 1)
            ELSE <<tile[v], IF launch.kind = "forward" THEN "pv" ELSE "dp">>
      BY <2>4, Gates
    <3>2. /\ BeginGate(launch, t + 1)[2] \notin {"pv", "dp"}
          /\ BeginGate(launch, t + 1)[1] = t + 1
          /\ BeginGate(launch, tile[v] + 1)[1] = tile[v] + 1
      BY DEF BeginGate
    <3>3. decision[tile[v] + 1]
      BY <2>1, <3>1, <3>2
    <3>4. tile[v] = t
      BY <1>1, <2>1, <3>1, <3>2, <3>3
    <3>5. QED
      BY <1>2, <3>3, <3>4
  <2>5. CASE pc[v] \in {"pv", "dq", "dqload", "dk"}
    <3>1. tile[v] = t /\ (pc[v] = "dk" => launch.stages = 2)
      BY <1>1, <2>1, <2>5, Gates DEF BeginGate
    <3>2. QED
      BY <2>5, <3>1
  <2>6. CASE pc[v] \in {"s", "reduce", "dp", "ds", "dv", "write"}
    BY <2>1, <2>6, Gates DEF BeginGate
  <2>7. CASE pc[v] \in {"store", "done"}
    <3>1. tile[v] = t + 1 /\ launch.gqa
      BY <2>1, <2>7, Gates DEF BeginGate
    <3>2. pc[v] = "done"
      BY <1>1, <2>7, <3>1 DEF PlaceOK
    <3>3. Late(v)
      BY <3>1, <3>2 DEF Late
    <3>4. QED
      BY <1>4, <3>1, <3>2, <3>3
  <2>8. QED
    BY <1>1, <2>2, <2>3, <2>4, <2>5, <2>6, <2>7
       DEF Labels, Before, InTile, Scored, KeptSteps, Closing
<1>7. QED
  BY <1>5, <1>6

LEMMA Whole ==
    ASSUME IInv
    PROVE  ReadsWhole
<1> SUFFICES ASSUME ~misread, NEW w \in Warps, ~Blocked(w)
             PROVE  LET t == tile[w] IN
               /\ pc[w] = "s" => /\ Holds(TileBuffer(t), t)
                                 /\ Holds(IF Forward THEN "Q" ELSE "K", Fixed)
               /\ pc[w] = "pv" => Holds("V", t) /\ words = [v \in Warps |-> Bytes(t)]
               /\ pc[w] = "dp" => Holds("dO", t) /\ Holds("V", Fixed)
               /\ pc[w] = "dv" => /\ Holds("P", t) /\ Holds("dO", t)
                                  /\ words = [v \in Warps |-> Bytes(t)]
               /\ pc[w] \in {"dq", "dqload"} => Holds("dS", t) /\ Holds("K", Fixed)
               /\ pc[w] = "dk" => Holds("dS", t) /\ Holds(QStage(t), t)
  BY DEF ReadsWhole, At
<1> DEFINE t == tile[w]
<1>1. TypeInv /\ Followed
  BY DEF IInv
<1>2. /\ t \in Nat /\ launch.stages \in {1, 2} /\ LocalAt(w) /\ QStage(t) = QS(launch, t)
      /\ QS(launch, t) \in {"Q0", "Q1"} /\ QS(launch, t + 1) \in {"Q0", "Q1"}
      /\ launch.stages = 2 /\ t + 1 \notin launch.restarts =>
           QS(launch, t + 1) # QS(launch, t)
      /\ launch.tiles \in Nat
  BY <1>1, Known, Stages DEF Followed
<1>3. \A v \in Warps : LocalAt(v) /\ tile[v] \in Nat
  BY <1>1 DEF TypeInv, Followed, LocalInv
<1>4. /\ pc[w] = "pv" => Forward
      /\ pc[w] \in KeptSteps => ~Forward
  BY <1>2 DEF LocalAt, PlaceOK
<1>5. pc[w] \in {"pv", "dv"} => words = [v \in Warps |-> Bytes(t)]
  BY <1>1 DEF Followed, FactInv, Free, Fact, TileBytes, Warps
<1>6. ASSUME pc[w] = "s"
      PROVE  Holds(TileBuffer(t), t) /\ Holds(IF Forward THEN "Q" ELSE "K", Fixed)
  <2>1. \A v \in Warps : pc[v] \in Scored /\ tile[v] = t
    BY <1>1, <1>6, Company
  <2>2. ASSUME NEW v \in Warps PROVE \A b : Quiet(queue[v], b)
    <3>1. queue[v] = <<>>
      BY <1>3, <2>1 DEF LocalAt, QueueOK, QueueF, QueueB, Scored
    <3>2. QED
      BY <3>1, Quiets
  <2>3. CASE Forward
    <3>1. \A v \in Warps : mem["K"][v] = t /\ mem["Q"][v] = Fixed
      BY <1>3, <2>1, <2>3 DEF LocalAt, MemOK, MemF, Scored
    <3>2. QED
      BY <2>2, <2>3, <3>1 DEF Holds, TileBuffer
  <2>4. CASE ~Forward
    <3>1. \A v \in Warps : mem[QS(launch, t)][v] = t /\ mem["K"][v] = Fixed
      BY <1>3, <2>1, <2>4 DEF LocalAt, MemOK, MemB, HasKV, Scored
    <3>2. QED
      BY <1>2, <2>2, <2>4, <3>1 DEF Holds, TileBuffer
  <2>5. QED
    BY <2>3, <2>4
<1>7. ASSUME pc[w] = "dp" PROVE Holds("dO", t) /\ Holds("V", Fixed)
  <2>1. ASSUME NEW v \in Warps
        PROVE  /\ mem["dO"][v] = t /\ mem["V"][v] = Fixed
               /\ Quiet(queue[v], "dO") /\ Quiet(queue[v], "V")
    <3>1. pc[v] \in {"dp", "ds"} /\ tile[v] = t
      BY <1>1, <1>7, Company
    <3>2. mem["dO"][v] = t /\ mem["V"][v] = Fixed
      BY <1>3, <1>4, <1>7, <3>1 DEF LocalAt, MemOK, MemB, HasKV, KeptSteps
    <3>3. queue[v] \in {<<>>, <<NextQ(launch, t)>>}
      BY <1>2, <1>3, <1>4, <1>7, <3>1 DEF LocalAt, QueueOK, QueueB, KeptSteps
    <3>4. QED
      BY <1>2, <3>2, <3>3, Quiets
  <2>2. QED
    BY <2>1 DEF Holds
<1>8. ASSUME pc[w] = "dv" PROVE Holds("P", t) /\ Holds("dO", t)
  <2>1. ASSUME NEW v \in Warps
        PROVE  /\ mem["P"][v] = t /\ mem["dO"][v] = t
               /\ Quiet(queue[v], "P") /\ Quiet(queue[v], "dO")
    <3>1. pc[v] \in {"ds", "dv", "dk", "dq"} /\ tile[v] = t
      BY <1>1, <1>8, Company
    <3>2. mem["P"][v] = t /\ mem["dO"][v] = t
      BY <1>3, <1>4, <1>8, <3>1 DEF LocalAt, MemOK, MemB, HasKV, KeptSteps
    <3>3. queue[v] \in {<<>>, <<NextQ(launch, t)>>}
      BY <1>2, <1>3, <1>4, <1>8, <3>1 DEF LocalAt, QueueOK, QueueB, KeptSteps
    <3>4. QED
      BY <1>2, <3>2, <3>3, Quiets
  <2>2. QED
    BY <2>1 DEF Holds
<1>9. ASSUME pc[w] = "pv" PROVE Holds("V", t)
  <2>1. ASSUME NEW v \in Warps PROVE mem["V"][v] = t /\ Quiet(queue[v], "V")
    <3>1. CASE pc[v] \in {"pv", "dq", "dqload", "dk"} /\ tile[v] = t
      <4>1. pc[v] = "pv"
        BY <1>3, <1>4, <1>9, <3>1 DEF LocalAt, PlaceOK, KeptSteps
      <4>2. mem["V"][v] = t /\ queue[v] \in {<<>>, <<{<<"K", t + 1>>}>>}
        BY <1>3, <1>4, <1>9, <3>1, <4>1 DEF LocalAt, MemOK, MemF, QueueOK, QueueF
      <4>3. Quiet(<<>>, "V") /\ Quiet(<<{<<"K", t + 1>>}>>, "V")
        BY Quiets, "K" # "V", Zenon
      <4>4. QED
        BY <4>2, <4>3
    <3>2. CASE LastKept(v) /\ tile[v] = t + 1
      <4>1. mem["V"][v] = t
        BY <1>2, <1>3, <1>4, <1>9, <3>2 DEF LocalAt, MemOK, MemF
      <4>2. queue[v] \in {<<>>, <<{<<"K", t + 1>>}>>}
        BY <1>3, <1>4, <1>9, <3>2 DEF LocalAt, QueueOK, QueueF, LastKept, Late, Before
      <4>3. Quiet(<<>>, "V") /\ Quiet(<<{<<"K", t + 1>>}>>, "V")
        BY Quiets, "K" # "V", Zenon
      <4>4. QED
        BY <4>1, <4>2, <4>3
    <3>3. QED
      BY <1>1, <1>9, <3>1, <3>2, LastCompany
  <2>2. QED
    BY <2>1 DEF Holds
(* The last products of a tile of the backward kernel. *)
<1>10. ASSUME pc[w] \in {"dq", "dqload", "dk"}, pc[w] = "dk" => launch.stages = 2,
              NEW v \in Warps
       PROVE  /\ mem["dS"][v] = t /\ mem["K"][v] = Fixed
              /\ \A b : (More(launch, t) => QS(launch, t + 1) # b) => Quiet(queue[v], b)
              /\ pc[w] = "dk" => mem[QS(launch, t)][v] = t
  <2>1. ~Forward /\ MemB(v) /\ QueueB(launch, queue[v], pc[v], tile[v]) /\ PlaceOK(v)
    BY <1>3, <1>4, <1>10 DEF LocalAt, MemOK, QueueOK, KeptSteps
  <2>2. CASE pc[v] \in {"pv", "dq", "dqload", "dk"} /\ tile[v] = t /\ (pc[v] = "dk" => launch.stages = 2)
    <3>1. pc[v] \in {"dq", "dqload", "dk"} /\ (pc[v] = "dqload" => launch.stages = 1)
      BY <2>1, <2>2 DEF PlaceOK
    <3>2. /\ mem["dS"][v] = t /\ mem["K"][v] = Fixed
          /\ pc[w] = "dk" => mem[QS(launch, t)][v] = t
      BY <1>10, <2>1, <2>2, <3>1 DEF MemB, HasKV, KeptSteps
    <3>3. queue[v] \in {<<>>, <<NextQ(launch, t)>>}
      BY <1>2, <2>1, <2>2, <3>1 DEF QueueB
    <3>4. QED
      BY <3>2, <3>3, Quiets
  <2>3. CASE /\ LastKept(v) /\ tile[v] = t + 1
             /\ pc[v] \in {"tile", "s"} => tile[v] \notin launch.restarts
    <3>1. /\ tile[v] > 0 /\ Late(v) /\ tile[v] - 1 = t
          /\ pc[v] \in {"restart", "first", "tile", "s", "epilogue", "write", "done"}
      BY <1>2, <2>3 DEF LastKept, Late, Before
    <3>2. mem["dS"][v] = t /\ mem["K"][v] = Fixed
      BY <2>1, <2>3, <3>1 DEF MemB, HasKV
    <3>3. pc[w] = "dk" => mem[QS(launch, t)][v] = t
      BY <1>10, <2>1, <2>3, <3>1 DEF MemB, HasKV
    <3>4. pc[v] = "tile" => queue[v] = <<NextQ(launch, t)>>
      <4>1. ASSUME pc[v] = "tile" PROVE More(launch, t)
        BY <2>1, <2>3, <4>1 DEF PlaceOK, More, NumTiles
      <4>2. ASSUME pc[v] = "tile" PROVE queue[v] = <<{<<QS(launch, t + 1), t + 1>>}>>
        BY <1>2, <2>1, <2>3, <4>2 DEF QueueB
      <4>3. QED
        BY <4>1, <4>2 DEF NextQ
    <3>5. pc[v] # "tile" => queue[v] = <<>> \/ queue[v] = <<{}>>
      <4>1. CASE pc[v] \in {"restart", "s"}
        BY <1>2, <2>1, <2>3, <4>1 DEF QueueB, Scored
      <4>2. CASE pc[v] = "first"
        <5>1. tile[v] \in launch.restarts
          BY <2>1, <3>1, <4>2 DEF PlaceOK
        <5>2. QED
          BY <2>1, <4>2, <5>1 DEF QueueB
      <4>3. CASE pc[v] \in Closing
        <5>1. launch.tiles > 0
          BY <2>1, <3>1, <4>3 DEF PlaceOK, NumTiles
        <5>2. QED
          BY <2>1, <4>3, <5>1 DEF QueueB
      <4>4. QED
        BY <3>1, <4>1, <4>2, <4>3 DEF Closing
    <3>6. \A b : (More(launch, t) => QS(launch, t + 1) # b) => Quiet(queue[v], b)
      BY <3>4, <3>5, Quiets
    <3>7. QED
      BY <3>2, <3>3, <3>6
  <2>4. QED
    BY <1>1, <1>10, <2>2, <2>3, LastCompany
<1>11. \A b : b \notin {"Q0", "Q1"} => (More(launch, t) => QS(launch, t + 1) # b)
  BY <1>2
<1>12. ASSUME pc[w] \in {"dq", "dqload"} PROVE Holds("dS", t) /\ Holds("K", Fixed)
  BY <1>10, <1>11, <1>12 DEF Holds
<1>13. ASSUME pc[w] = "dk" PROVE Holds("dS", t) /\ Holds(QStage(t), t)
  <2>1. CASE launch.stages = 2
    <3>1. More(launch, t) => QS(launch, t + 1) # QS(launch, t)
      BY <1>2, <2>1 DEF More
    <3>2. QED
      BY <1>2, <1>10, <1>11, <1>13, <2>1, <3>1 DEF Holds
  <2>2. CASE launch.stages = 1
    <3>1. ASSUME NEW v \in Warps
          PROVE  /\ mem["dS"][v] = t /\ mem[QS(launch, t)][v] = t /\ queue[v] = <<>>
      <4>1. pc[v] \in {"dk", "dqload"} /\ tile[v] = t
        BY <1>1, <1>13, <2>2, Company
      <4>2. QED
        BY <1>3, <1>4, <1>13, <2>2, <4>1 DEF LocalAt, MemOK, MemB, HasKV, QueueOK, QueueB, KeptSteps
    <3>2. QED
      BY <1>2, <3>1, Quiets DEF Holds
  <2>3. QED
    BY <1>2, <2>1, <2>2
<1>14. QED
  BY <1>5, <1>6, <1>7, <1>8, <1>9, <1>12, <1>13

LEMMA Agree ==
    ASSUME IInv
    PROVE  WarpsAgree
<1> SUFFICES ASSUME ~misread, NEW w \in Warps, Settled(w)
             PROVE  /\ tile[w] + 1 \in DOMAIN decision
                    /\ isSkip[w] = decision[tile[w] + 1]
  BY DEF WarpsAgree, IInv
<1>1. TypeInv /\ Followed
  BY DEF IInv
<1>2. /\ tile[w] \in Nat /\ decision \in Seq(BOOLEAN) /\ isSkip[w] \in BOOLEAN
      /\ PlaceOK(w) /\ launch.tiles \in Nat
  BY <1>1, Known DEF TypeInv, LocalAt, Followed
<1>3. Fact(launch, decision, words, pc[w], tile[w]) /\ SkipOK(w)
  BY <1>1 DEF Followed, FactInv, Free, Settled, SkipInv
<1>4. tile[w] < Len(decision) /\ tile[w] + 1 \in DOMAIN decision
  <2>1. tile[w] < Len(decision)
    BY <1>3 DEF Settled, Fact, Post, KeptSteps
  <2>2. QED
    BY <1>2, <2>1
<1>5. decision[tile[w] + 1] \in BOOLEAN
  BY <1>2, <1>4
<1>6. CASE pc[w] = "act" /\ ~(Forward /\ tile[w] = 0)
  BY <1>3, <1>4, <1>6 DEF SkipOK
<1>7. CASE pc[w] # "act" \/ (Forward /\ tile[w] = 0)
  <2>1. ~isSkip[w]
    BY <1>2, <1>7 DEF PlaceOK, Settled, KeptSteps
  <2>2. ~decision[tile[w] + 1]
    <3>1. CASE pc[w] = "act"
      BY <1>1, <1>4, <1>7, <3>1 DEF Followed, DecInv
    <3>2. CASE pc[w] # "act"
      BY <1>3, <3>2 DEF Settled, Fact, KeptSteps
    <3>3. QED
      BY <3>1, <3>2
  <2>3. isSkip[w] = FALSE /\ decision[tile[w] + 1] = FALSE
    <3>1. isSkip[w] = FALSE
      BY <1>2, <2>1
    <3>2. decision[tile[w] + 1] = FALSE
      BY <1>5, <2>2
    <3>3. QED
      BY <3>1, <3>2
  <2>4. QED
    BY <1>4, <2>3, Zenon
<1>8. QED
  BY <1>6, <1>7

(* The inductive invariant. *)
THEOREM Invariant == Spec => []IInv
<1>1. Init => IInv
  BY Begins
<1>2. IInv /\ [Next]_vars => IInv'
  BY Steps
<1>3. QED
  BY <1>1, <1>2, PTL DEF Spec

(* Whatever the warps, tiles, ranges and stages, and whatever the votes:   *)
(* every product of the two kernels (compute_one_n_block of flash_fwd.py,  *)
(* compute_one_m_block of flash_bwd.py) reads operands that are whole, of  *)
(* its tile, and that the votes have not been written over.                *)
THEOREM ReadsWholeHolds == Spec => []ReadsWhole
<1>1. IInv => ReadsWhole
  BY Whole
<1>2. QED
  BY <1>1, Invariant, PTL

(* All warps take a tile as they have voted (cta_reduce), so that they     *)
(* meet at the same barriers; in the backward kernel no outcome is         *)
(* misread.                                                                *)
THEOREM WarpsAgreeHolds == Spec => []WarpsAgree
<1>1. IInv => WarpsAgree
  BY Agree
<1>2. QED
  BY <1>1, Invariant, PTL
=============================================================================
