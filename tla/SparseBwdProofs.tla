--------------------------- MODULE SparseBwdProofs ---------------------------
(***************************************************************************)
(* The sparse SM90 backward kernel for every number of query tiles, every  *)
(* launch the host chooses and every outcome of the votes: every operand   *)
(* is whole when it is read, and, until an outcome is misread, the groups, *)
(* the producer and the store warp act on one outcome.                     *)
(*                                                                         *)
(* The argument.  A group that is blocked is at a barrier of the CTA; one  *)
(* that is not knows which it meets next: its gate.  All groups have the   *)
(* same gate, and the producer's follows from it (GateInv), for a barrier  *)
(* is left by all at once.  What a group has done to the buffers depends   *)
(* on where it is alone, so that the gate of one tells what the others     *)
(* have voted and written.  The pipeline of dO and the two barriers of     *)
(* every dQ buffer are counted: how often each side has arrived follows    *)
(* from where it is (DOEmptyInv, DQInv).                                   *)
(***************************************************************************)
EXTENDS SparseBwdSm90, FiniteSetTheorems, SequenceTheorems, TLAPS

CTABarriers == {dOLoadFull, dOLoadEmpty, Softmax, PdS, Epilogue}

Blocked(actor) == \E b \in CTABarriers : actor \in bar[b].blocked

(* Labels: before a tile's outcome, after it, once the tile is kept, at    *)
(* the end.                                                                *)
Voting  == {"s", "cast", "reduce", "read"}
Decided == {"full", "do", "mark", "p", "ds", "dv", "dq", "hand", "dk"}
KeptAt  == {"p", "ds", "dv", "dq", "hand", "dk"}
Closing == {"fill", "epilogue", "done"}

(* The tile a group is at, or the end. *)
Place(g) == IF pc[g] \in Closing THEN NumTiles ELSE tile[g]

(* The labels to which a barrier of the CTA leads, and the barrier. *)
ArrivesAt == {"cast", "reduce", "read", "full", "do", "p", "ds", "dv", "epilogue"}
BarrierOf(label) ==
    CASE label \in {"cast", "reduce", "read"} -> Softmax
      [] label = "full" -> dOLoadFull
      [] label = "do" -> dOLoadEmpty
      [] label \in {"p", "ds", "dv"} -> PdS
      [] OTHER -> Epilogue

BeginGate(l, t) == <<t, IF t = l.tiles THEN "epilogue" ELSE "cast">>

(* The label to which a group that goes on from a label comes with the     *)
(* next barrier of the CTA.                                                *)
NextGate(l, d, label, t) ==
    CASE label \in {"q", "s"} -> <<t, "cast">>
      [] label = "cast"   -> <<t, "reduce">>
      [] label = "reduce" -> <<t, "read">>
      [] label = "read"   -> <<t, "full">>
      [] label = "full"   -> <<t, "do">>
      [] label = "do" -> IF d[t + 1] THEN BeginGate(l, t + 1)
                         ELSE <<t, IF l.stagesPdS = 1 THEN IF l.rs THEN "ds" ELSE "p"
                                   ELSE IF l.rs THEN "dv" ELSE "ds">>
      [] label = "p"  -> <<t, IF l.stagesPdS = 1 \/ ~l.rs THEN "ds" ELSE "dv">>
      [] label = "ds" -> <<t, "dv">>
      [] label \in {"mark", "dv", "dq", "hand", "dk"} -> BeginGate(l, t + 1)
      [] label = "fill" -> <<t, "epilogue">>
      [] OTHER -> <<t, "done">>

Gate(g) == IF Blocked(g) THEN <<Place(g), pc[g]>>
           ELSE NextGate(launch, decision, pc[g], Place(g))

(* The label "full" stands for dOLoadFull, "do" for dOLoadEmpty. *)
NextProducerGate(label, t) ==
    CASE label \in {"q", "vote"} -> <<t, "full">>
      [] label = "read" -> <<t, "do">>
      [] OTHER -> <<t + 1, "full">>

ProducerGate ==
    IF Blocked(Producer) THEN <<dONext, IF ppc = "read" THEN "full" ELSE "do">>
    ELSE NextProducerGate(ppc, dONext)

(* The gate of the producer when the groups have a gate. *)
Follows(gate) ==
    <<IF gate[2] \in {"p", "ds", "dv"} THEN gate[1] + 1 ELSE gate[1],
      IF gate[2] = "do" THEN "do" ELSE "full">>

GateInv ==
    /\ \A g, h \in Groups : Gate(g) = Gate(h)
    /\ ProducerGate = Follows(Gate(0))

(* A barrier of the CTA counts those blocked on it. *)
Parties(b) == IF b \in {dOLoadFull, dOLoadEmpty} THEN Groups \union {Producer} ELSE Groups
BarInv ==
    \A b \in CTABarriers :
        /\ bar[b] = [count |-> Cardinality(bar[b].blocked), blocked |-> bar[b].blocked]
        /\ bar[b].blocked \subseteq Parties(b)
        /\ bar[b].count < Cardinality(Parties(b))
        /\ \A g \in bar[b].blocked : g # Producer =>
              pc[g] \in ArrivesAt
              /\ b = BarrierOf(pc[g])
        /\ Producer \in bar[b].blocked =>
              \/ b = dOLoadFull /\ ppc = "read"
              \/ b = dOLoadEmpty /\ ppc = "acquire"

Words0 == {Vote(f) : f \in BOOLEAN} \union {Flag(f) : f \in BOOLEAN}
          \union {DS(t) : t \in TilesOr(Garbage)}

TypeInv ==
    /\ launch \in Launches
    /\ qNext \in Nat /\ dONext \in Nat /\ pskip \in BOOLEAN
    /\ ppc \in {"q", "vote", "read", "acquire", "load"}
    /\ sTile \in Nat /\ sGroup \in DQGroups /\ spc \in {"free", "take", "add"}
    /\ adding \in [DQGroups -> TilesOr(None)]
    /\ qLanded \subseteq Tiles /\ qTaken \in [Groups -> Nat]
    /\ bar = [b \in Barriers |-> bar[b]]
    /\ words \in [Words -> Words0]
    /\ sdS \in [Stages -> [Groups -> TilesOr(Garbage)]]
    /\ sP \in [Stages -> [Groups -> TilesOr(Garbage)]]
    /\ sdO \in TilesOr(Garbage) /\ sKV \in BOOLEAN
    /\ sdQ \in [DQGroups -> TilesOr(Garbage)] /\ sdQSkip \in [DQGroups -> BOOLEAN]
    /\ pc \in [Groups -> Labels] /\ tile \in [Groups -> Nat]
    /\ vote \in [Groups -> BOOLEAN] /\ rSkip \in [Groups -> BOOLEAN]
    /\ accumulate \in [Groups -> BOOLEAN] /\ misread \in BOOLEAN
    /\ decision \in Seq(BOOLEAN)
    /\ dKV \in [Groups -> SUBSET TilesOr(Garbage)] /\ dQ \in [DQGroups -> SUBSET Tiles]

(* Where a group can be. *)
PlaceOK(g) ==
    /\ pc[g] \notin Closing => tile[g] < NumTiles
    /\ pc[g] \in Closing => tile[g] \in TilesOr(0)
    /\ pc[g] \in {"mark", "dq", "hand"} => g \in DQGroups
    /\ Place(g) <= Len(decision)
    /\ pc[g] \in Decided => Place(g) < Len(decision)
    /\ pc[g] \in KeptAt => ~decision[Place(g) + 1]
    /\ pc[g] = "mark" => decision[Place(g) + 1]
PlaceInv ==
    /\ \A g \in Groups : PlaceOK(g)
    /\ Len(decision) = Place(0) + (IF pc[0] \in Decided \union {"read"} THEN 1 ELSE 0)

(* The ring of Q. *)
QInv ==
    /\ qNext = (IF ppc = "q" THEN dONext ELSE dONext + 1) /\ qNext <= NumTiles
    /\ qLanded \subseteq 0 .. qNext - 1
    /\ \A g \in Groups : /\ qTaken[g] = Place(g)
                         /\ pc[g] \in Voting \union Decided => Place(g) < qNext

(* The pipeline of dO: tiles a group has waited for and released. *)
Waited(g)   == Place(g) + (IF pc[g] \in KeptAt \union {"mark"} THEN 1 ELSE 0)
Released(g) == Place(g) + (IF pc[g] \in {"mark", "dq", "hand", "dk"} THEN 1 ELSE 0)

DOFullInv ==
    \/ /\ dOfull = [phase |-> dONext + (IF ppc = "load" THEN 1 ELSE 0), pending |-> 1, tx |-> 0]
       /\ dOflight = {}
       /\ ppc = "load" => pskip
       /\ ppc # "load" /\ dONext > 0 => decision[dONext] \/ sdO = dONext - 1
    \/ /\ ppc = "load" /\ ~pskip
       /\ dOfull = [phase |-> dONext, pending |-> 0, tx |-> 1] /\ dOflight = {}
    \/ /\ ppc # "load" /\ dONext > 0 /\ ~decision[dONext]
       /\ dOfull = [phase |-> dONext - 1, pending |-> 0, tx |-> 1]
       /\ dOflight = {dONext - 1}

DOEmptyInv ==
    /\ dOempty = [phase |-> dOempty.phase, pending |-> dOempty.pending, tx |-> 0]
    /\ dOempty.phase \in Nat /\ dOempty.pending \in 1 .. NumGroups
    /\ dOempty.pending =
          NumGroups - Cardinality({g \in Groups : Released(g) = dOempty.phase + 1})
    /\ \A g \in Groups : /\ Released(g) \in {dOempty.phase, dOempty.phase + 1}
                         /\ Waited(g) <= dOfull.phase
    /\ dONext <= dOempty.phase + (IF ppc = "load" THEN 0 ELSE 1)

(* The outcome as the producer knows it. *)
OutcomeInv ==
    /\ dONext <= Len(decision)
    /\ ppc \in {"acquire", "load"} =>
          /\ dONext < Len(decision) /\ pskip = decision[dONext + 1]
          /\ words[Copy] = Flag(pskip)

(* The words of the votes, and of dS. *)
CastOK(g) ==
    pc[g] = "reduce" \/ (pc[g] = "read" /\ g # 0 /\ Blocked(g)) => words[g] = Vote(vote[g])
VoteInv ==
    /\ \A g \in Groups : CastOK(g)
    /\ pc[0] = "read" => words[0] = Vote(decision[Place(0) + 1])
    /\ pc[0] = "full" \/ (pc[0] = "do" /\ Blocked(0)) =>
          words[0] = Flag(decision[Place(0) + 1])

(* On its way to the first barrier after a tile a group still has its part *)
(* of the operands of that tile, if it has kept it.                        *)
Late(g) == pc[g] \in {"q", "s", "fill"} \/ (pc[g] \in {"cast", "epilogue"} /\ Blocked(g))
LastKept(g) == Late(g) /\ Place(g) > 0 /\ ~decision[Place(g)]

HasP(g, t)  == ~launch.rs => sP[StagePdS(t)][g] = t
HasDS(g, t) == /\ sdS[StagePdS(t)][g] = t
               /\ g = 0 /\ StagePdS(t) = 0 => words = [w \in Words |-> DS(t)]
PartsInv ==
    \A g \in Groups :
        /\ pc[g] \in KeptAt \ {"p"} => HasP(g, Place(g))
        /\ pc[g] \in KeptAt \ {"p", "ds"} => HasDS(g, Place(g))
        /\ LastKept(g) => HasP(g, Place(g) - 1) /\ HasDS(g, Place(g) - 1)
        /\ pc[g] \in {"p", "ds", "dv"} => sdO = Place(g)
        /\ ~sKV => pc[g] \in {"epilogue", "done"}

(* The two barriers of a dQ buffer: how often the store warp and the group *)
(* have arrived at dQEmpty and at dQFull, how often dQ was taken.          *)
Freed(g)  == sTile + (IF spc \in {"take", "add"} \/ g < sGroup THEN 1 ELSE 0)
Asked(g)  == Place(g) + (IF pc[g] \in {"mark", "hand", "dk"} THEN 1 ELSE 0)
Handed(g) == Place(g) + (IF pc[g] = "dk" THEN 1 ELSE 0)
Taken(g)  == sTile + (IF \/ spc \in {"take", "add"} /\ g < sGroup
                         \/ spc = "add" /\ g = sGroup THEN 1 ELSE 0)
Added(g)  == sTile + (IF spc \in {"take", "add"} /\ g < sGroup THEN 1 ELSE 0)

(* A barrier of two: who waits is ahead. *)
Between(b, arrived, synced, actor) ==
    \/ arrived = synced /\ bar[b] = NoOne
    \/ arrived = synced + 1 /\ bar[b] = [count |-> 1, blocked |-> {}]
    \/ synced = arrived + 1 /\ bar[b] = [count |-> 1, blocked |-> {actor}]

DQInv ==
    /\ sTile <= NumTiles /\ (sTile = NumTiles => spc = "free" /\ sGroup = 0)
    /\ \A g \in DQGroups :
        /\ Between(dQEmpty(g), Freed(g), Asked(g), g)
        /\ Between(dQFull(g), Handed(g), Taken(g), StoreWarp)
        /\ Handed(g) <= Freed(g) /\ Added(g) <= Handed(g)
        /\ Handed(g) > 0 => /\ sdQSkip[g] = decision[Handed(g)]
                            /\ ~decision[Handed(g)] => sdQ[g] = Handed(g) - 1
        /\ adding[g] # None =>
              Freed(g) = Handed(g) /\ adding[g] = Handed(g) - 1 /\ sdQ[g] = adding[g]

SkipInv == \A g \in Groups : pc[g] \in Decided => rSkip[g] = decision[Place(g) + 1]

IInv == /\ TypeInv /\ BarInv /\ GateInv /\ PlaceInv /\ QInv
        /\ DOFullInv /\ DOEmptyInv /\ OutcomeInv /\ VoteInv /\ PartsInv /\ DQInv
        /\ misread \/ SkipInv

-----------------------------------------------------------------------------
(* Launches and barriers. *)

LEMMA LaunchFacts ==
    ASSUME NEW l \in Launches
    PROVE  /\ l.groups \in {2, 3} /\ l.tiles \in Nat
           /\ l.stagesQ \in Nat \ {0} /\ l.stagesPdS \in Nat \ {0}
           /\ l.rs \in BOOLEAN /\ l.single \in BOOLEAN
<1>1. /\ l.groups \in 2 .. 3 /\ l.tiles \in Nat
      /\ l.stagesQ \in Nat \ {0} /\ l.stagesPdS \in {1, l.stagesQ}
      /\ l.rs \in BOOLEAN /\ l.single \in BOOLEAN
  BY LaunchesAssumption
<1>2. QED
  BY <1>1

LEMMA GroupSet ==
    ASSUME launch \in Launches
    PROVE  /\ NumGroups \in Nat \ {0} /\ NumTiles \in Nat
           /\ Groups = 0 .. NumGroups - 1 /\ 0 \in Groups /\ Groups \subseteq Nat
           /\ Producer = NumGroups /\ Producer \notin Groups /\ StoreWarp \notin Groups
           /\ Copy \notin Groups /\ Words = Groups \union {Copy}
           /\ DQGroups \subseteq Groups /\ 0 \in DQGroups
           /\ NumWgDQ \in Nat \ {0} /\ DQGroups = 0 .. NumWgDQ - 1
           /\ IsFiniteSet(Groups) /\ Cardinality(Groups) = NumGroups
<1>1. launch.groups \in {2, 3} /\ launch.tiles \in Nat /\ launch.single \in BOOLEAN
  BY LaunchFacts
<1>2. IsFiniteSet(0 .. launch.groups - 1) /\ Cardinality(0 .. launch.groups - 1) = launch.groups
  BY <1>1, FS_Interval, SMTT(20)
<1>3. /\ NumGroups \in Nat \ {0} /\ NumTiles \in Nat
      /\ Groups = 0 .. NumGroups - 1 /\ 0 \in Groups /\ Groups \subseteq Nat
      /\ Producer = NumGroups /\ Producer \notin Groups /\ StoreWarp \notin Groups
      /\ Copy \notin Groups /\ Words = Groups \union {Copy}
      /\ DQGroups \subseteq Groups /\ 0 \in DQGroups
      /\ NumWgDQ \in Nat \ {0}
  BY <1>1 DEF NumGroups, NumTiles, Groups, Producer, StoreWarp, Copy, Words, DQGroups, NumWgDQ
<1>4. DQGroups = 0 .. NumWgDQ - 1
  <2>1. CASE launch.single
    <3>1. {0} = 0 .. 1 - 1
      OBVIOUS
    <3>2. QED
      BY <2>1, <3>1 DEF DQGroups, NumWgDQ
  <2>2. CASE ~launch.single
    BY <2>2 DEF DQGroups, NumWgDQ, Groups, NumGroups
  <2>3. QED
    BY <2>1, <2>2
<1>5. QED
  BY <1>2, <1>3, <1>4 DEF Groups, NumGroups

LEMMA Bars ==
    /\ dOLoadFull # dOLoadEmpty /\ dOLoadFull # Softmax /\ dOLoadFull # PdS
    /\ dOLoadFull # Epilogue /\ dOLoadEmpty # Softmax /\ dOLoadEmpty # PdS
    /\ dOLoadEmpty # Epilogue /\ Softmax # PdS /\ Softmax # Epilogue /\ PdS # Epilogue
    /\ \A g, h : dQFull(g) # dQEmpty(h)
    /\ \A g : dQFull(g) \notin CTABarriers /\ dQEmpty(g) \notin CTABarriers
    /\ \A g, h : g # h => dQFull(g) # dQFull(h) /\ dQEmpty(g) # dQEmpty(h)
    /\ CTABarriers \subseteq Barriers
    /\ \A g \in DQGroups : dQFull(g) \in Barriers /\ dQEmpty(g) \in Barriers
BY DEF dOLoadFull, dOLoadEmpty, Softmax, PdS, Epilogue, dQFull, dQEmpty, CTABarriers, Barriers

LEMMA Names ==
    ASSUME NEW label
    PROVE  BarrierOf(label) \in CTABarriers
BY DEF BarrierOf, CTABarriers

LEMMA Party ==
    ASSUME launch \in Launches, NEW b \in CTABarriers
    PROVE  /\ IsFiniteSet(Parties(b)) /\ Cardinality(Parties(b)) \in Nat \ {0}
           /\ NumberOfThreads(b) = Cardinality(Parties(b))
           /\ Groups \subseteq Parties(b)
<1>1. /\ IsFiniteSet(Groups) /\ Cardinality(Groups) = NumGroups /\ NumGroups \in Nat \ {0}
      /\ Producer \notin Groups
  BY GroupSet
<1>2. /\ IsFiniteSet(Groups \union {Producer})
      /\ Cardinality(Groups \union {Producer}) = NumGroups + 1
  BY <1>1, FS_AddElement
<1>3. CASE b \in {dOLoadFull, dOLoadEmpty}
  <2>1. Parties(b) = Groups \union {Producer}
    BY <1>3 DEF Parties
  <2>2. NumberOfThreads(b) = NumGroups + 1
    <3>1. b \notin {Softmax, PdS, Epilogue}
      BY <1>3, Bars
    <3>2. QED
      BY <1>3, <3>1 DEF NumberOfThreads
  <2>3. NumGroups + 1 \in Nat \ {0}
    BY <1>1
  <2>4. QED
    BY <1>2, <2>1, <2>2, <2>3
<1>4. CASE b \notin {dOLoadFull, dOLoadEmpty}
  <2>1. b \in {Softmax, PdS, Epilogue}
    BY <1>4 DEF CTABarriers
  <2>2. QED
    BY <1>1, <1>4, <2>1 DEF Parties, NumberOfThreads
<1>5. QED
  BY <1>3, <1>4

LEMMA Crowd ==
    ASSUME NEW P, IsFiniteSet(P), NEW S, S \subseteq P, NEW a \in P \ S
    PROVE  /\ Cardinality(S) \in Nat /\ Cardinality(P) \in Nat
           /\ Cardinality(S \union {a}) = Cardinality(S) + 1
           /\ Cardinality(S) + 1 <= Cardinality(P)
           /\ Cardinality(S) + 1 = Cardinality(P) => S \union {a} = P
<1>1. IsFiniteSet(S) /\ Cardinality(S) \in Nat /\ Cardinality(P) \in Nat
  BY FS_Subset, FS_CardinalityType
<1>2. Cardinality(S \union {a}) = Cardinality(S) + 1
  BY <1>1, FS_AddElement
<1>3. S \union {a} \in SUBSET P
  OBVIOUS
<1>4. /\ Cardinality(S \union {a}) <= Cardinality(P)
      /\ Cardinality(P) = Cardinality(S \union {a}) => P = S \union {a}
  BY <1>3, FS_Subset
<1>5. QED
  BY <1>1, <1>2, <1>4

(* An arrival at a barrier of the CTA: the last of the parties opens it,   *)
(* another one blocks.                                                     *)
LEMMA Arrival ==
    ASSUME TypeInv, BarInv, UNCHANGED launch,
           NEW b \in CTABarriers, NEW a \in Parties(b), a \notin bar[b].blocked, Sync(b, a)
    PROVE  /\ bar' = [c \in Barriers' |-> bar'[c]]
           /\ \A c \in Barriers \ {b} : bar'[c] = bar[c]
           /\ LET S == bar[b].blocked \union {a}
              IN  \/ /\ S # Parties(b) /\ S \subseteq Parties(b)
                     /\ bar'[b] = [count |-> Cardinality(S), blocked |-> S]
                     /\ Cardinality(S) < Cardinality(Parties(b))
                  \/ S = Parties(b) /\ bar'[b] = [count |-> Cardinality({}), blocked |-> {}]
<1> DEFINE S == bar[b].blocked
           n == Cardinality(Parties(b))
<1>1. launch \in Launches /\ bar = [c \in Barriers |-> bar[c]] /\ b \in Barriers
  BY Bars DEF TypeInv
<1>2. Barriers' = Barriers /\ NumberOfThreads(b) = n
  BY <1>1, Party DEF Barriers, DQGroups, Groups, NumGroups
<1>3. bar' = [bar EXCEPT ![b] = BarrierSync(@, a, n)]
  BY <1>2 DEF Sync
<1>4. /\ bar' = [c \in Barriers |-> bar'[c]]
      /\ \A c \in Barriers \ {b} : bar'[c] = bar[c]
      /\ bar'[b] = BarrierSync(bar[b], a, n)
  BY <1>1, <1>3
<1>5. bar[b] = [count |-> Cardinality(S), blocked |-> S] /\ S \subseteq Parties(b)
  BY DEF BarInv
<1>6. /\ Cardinality(S) \in Nat /\ n \in Nat
      /\ Cardinality(S \union {a}) = Cardinality(S) + 1
      /\ Cardinality(S) + 1 <= n
      /\ Cardinality(S) + 1 = n => S \union {a} = Parties(b)
  BY <1>1, <1>5, Party, Crowd
<1>7. bar[b].count = Cardinality(S) /\ Cardinality({}) = 0
  BY <1>5, FS_EmptySet
<1> HIDE DEF n
<1>8. CASE Cardinality(S) + 1 = n
  <2>1. bar'[b] = NoOne
    BY <1>4, <1>7, <1>8 DEF BarrierSync
  <2>2. QED
    BY <1>2, <1>4, <1>6, <1>7, <1>8, <2>1 DEF NoOne
<1>9. CASE Cardinality(S) + 1 # n
  <2>1. bar'[b] = [count |-> Cardinality(S) + 1, blocked |-> S \union {a}]
    BY <1>4, <1>7, <1>9 DEF BarrierSync
  <2>2. Cardinality(S \union {a}) < n /\ S \union {a} # Parties(b)
    BY <1>6, <1>9 DEF n
  <2>3. QED
    BY <1>2, <1>4, <1>5, <1>6, <2>1, <2>2 DEF n
<1>10. QED
  BY <1>8, <1>9

-----------------------------------------------------------------------------
(* Gates. *)

LEMMA Gates ==
    ASSUME NEW l, NEW d, NEW t
    PROVE  /\ \A label \in {"q", "s"} : NextGate(l, d, label, t) = <<t, "cast">>
           /\ NextGate(l, d, "cast", t) = <<t, "reduce">>
           /\ NextGate(l, d, "reduce", t) = <<t, "read">>
           /\ NextGate(l, d, "read", t) = <<t, "full">>
           /\ NextGate(l, d, "full", t) = <<t, "do">>
           /\ NextGate(l, d, "do", t) =
                IF d[t + 1] THEN BeginGate(l, t + 1)
                ELSE <<t, IF l.stagesPdS = 1 THEN IF l.rs THEN "ds" ELSE "p"
                          ELSE IF l.rs THEN "dv" ELSE "ds">>
           /\ NextGate(l, d, "p", t) =
                <<t, IF l.stagesPdS = 1 \/ ~l.rs THEN "ds" ELSE "dv">>
           /\ NextGate(l, d, "ds", t) = <<t, "dv">>
           /\ \A label \in {"mark", "dv", "dq", "hand", "dk"} :
                NextGate(l, d, label, t) = BeginGate(l, t + 1)
           /\ NextGate(l, d, "fill", t) = <<t, "epilogue">>
           /\ \A label \in {"epilogue", "done"} : NextGate(l, d, label, t) = <<t, "done">>
BY DEF NextGate

LEMMA BarrierOfs ==
    /\ BarrierOf("cast") = Softmax /\ BarrierOf("reduce") = Softmax
    /\ BarrierOf("read") = Softmax /\ BarrierOf("full") = dOLoadFull
    /\ BarrierOf("do") = dOLoadEmpty /\ BarrierOf("p") = PdS /\ BarrierOf("ds") = PdS
    /\ BarrierOf("dv") = PdS /\ BarrierOf("epilogue") = Epilogue
BY DEF BarrierOf

LEMMA LabelOf ==
    ASSUME NEW label \in ArrivesAt
    PROVE  /\ BarrierOf(label) = dOLoadFull <=> label = "full"
           /\ BarrierOf(label) = dOLoadEmpty <=> label = "do"
BY Bars, BarrierOfs DEF ArrivesAt

LEMMA FollowsStays ==
    ASSUME launch \in Launches, NEW d, NEW t \in Nat, NEW label \in ArrivesAt \ {"full", "do"}
    PROVE  Follows(NextGate(launch, d, label, t)) = Follows(<<t, label>>)
<1>1. CASE label \in {"cast", "reduce", "read", "epilogue"}
  BY <1>1, Gates DEF Follows
<1>2. CASE label = "p"
  <2>1. NextGate(launch, d, label, t) = <<t, "ds">> \/ NextGate(launch, d, label, t) = <<t, "dv">>
    BY <1>2, Gates
  <2>2. QED
    BY <1>2, <2>1 DEF Follows
<1>3. CASE label = "ds"
  BY <1>3, Gates DEF Follows
<1>4. CASE label = "dv"
  BY <1>4, Gates DEF Follows, BeginGate
<1>5. QED
  BY <1>1, <1>2, <1>3, <1>4 DEF ArrivesAt

LEMMA FollowsDo ==
    ASSUME launch \in Launches, NEW d, NEW t \in Nat
    PROVE  Follows(NextGate(launch, d, "do", t)) = <<t + 1, "full">>
<1>1. CASE d[t + 1]
  BY <1>1, Gates DEF Follows, BeginGate
<1>2. CASE ~d[t + 1]
  <2>1. \E label \in {"p", "ds", "dv"} : NextGate(launch, d, "do", t) = <<t, label>>
    BY <1>2, Gates
  <2>2. QED
    BY <2>1 DEF Follows
<1>3. QED
  BY <1>1, <1>2

LEMMA WhoIsBlocked ==
    ASSUME TypeInv, BarInv, NEW c \in CTABarriers, NEW a \in bar[c].blocked
    PROVE  /\ Blocked(a)
           /\ \/ a \in Groups /\ a # Producer /\ pc[a] \in ArrivesAt /\ c = BarrierOf(pc[a])
              \/ a = Producer /\ c = dOLoadFull /\ ppc = "read"
              \/ a = Producer /\ c = dOLoadEmpty /\ ppc = "acquire"
<1>1. a \in Parties(c) /\ a \in Groups \union {Producer}
  <2>1. a \in Parties(c)
    BY DEF BarInv
  <2>2. QED
    BY <2>1 DEF Parties
<1>2. CASE a = Producer
  BY <1>2 DEF BarInv, Blocked
<1>3. CASE a # Producer
  <2>1. pc[a] \in ArrivesAt /\ c = BarrierOf(pc[a])
    BY <1>3 DEF BarInv
  <2>2. QED
    BY <1>1, <1>3, <2>1 DEF Blocked
<1>4. QED
  BY <1>2, <1>3

LEMMA PlaceNat ==
    ASSUME TypeInv, NEW g \in Groups
    PROVE  Place(g) \in Nat
BY GroupSet DEF TypeInv, Place

(* Only one group goes on. *)
Moved(g, label, p) ==
    /\ pc'[g] = label /\ Place(g)' = p
    /\ \A h \in Groups \ {g} : pc'[h] = pc[h] /\ Place(h)' = Place(h)

(* What a step does to the barriers that are not of the CTA. *)
OthersStay == /\ bar' = [c \in Barriers' |-> bar'[c]]
              /\ \A c \in Barriers \ CTABarriers : bar'[c] = bar[c]

LEMMA GroupArrives ==
    ASSUME TypeInv, BarInv, GateInv, NEW g \in Groups, ~Blocked(g), NEW label \in ArrivesAt,
           NextGate(launch, decision, pc[g], Place(g)) = <<Place(g), label>>,
           Sync(BarrierOf(label), g), Moved(g, label, Place(g)),
           UNCHANGED <<launch, ppc, dONext>>,
           \A h \in Groups : ~Blocked(h) => NextGate(launch, decision', pc[h], Place(h))
                                              = NextGate(launch, decision, pc[h], Place(h))
    PROVE  /\ BarInv' /\ GateInv' /\ OthersStay
           /\ \A h \in Groups \ {g} : Blocked(h)' => Blocked(h)
<1> DEFINE b == BarrierOf(label)
           S == bar[b].blocked \union {g}
<1>1. /\ launch \in Launches /\ b \in CTABarriers /\ g \in Parties(b)
      /\ \A c \in CTABarriers : g \notin bar[c].blocked
      /\ Groups' = Groups /\ Producer \notin Groups /\ Producer' = Producer
      /\ \A c \in CTABarriers : Parties(c)' = Parties(c)
      /\ Place(g) \in Nat
  BY Names, GroupSet, Party, PlaceNat
  DEF TypeInv, Blocked, Parties, Groups, Producer, NumGroups
<1>2. /\ OthersStay /\ \A c \in CTABarriers \ {b} : bar'[c] = bar[c]
      /\ \/ /\ S # Parties(b) /\ S \subseteq Parties(b)
            /\ bar'[b] = [count |-> Cardinality(S), blocked |-> S]
            /\ Cardinality(S) < Cardinality(Parties(b))
         \/ S = Parties(b) /\ bar'[b] = [count |-> Cardinality({}), blocked |-> {}]
  <2> HIDE DEF b
  <2>1. /\ bar' = [c \in Barriers' |-> bar'[c]]
        /\ \A c \in Barriers \ {b} : bar'[c] = bar[c]
        /\ \/ /\ S # Parties(b) /\ S \subseteq Parties(b)
              /\ bar'[b] = [count |-> Cardinality(S), blocked |-> S]
              /\ Cardinality(S) < Cardinality(Parties(b))
           \/ S = Parties(b) /\ bar'[b] = [count |-> Cardinality({}), blocked |-> {}]
    BY <1>1, Arrival DEF b
  <2>2. QED
    BY <1>1, <2>1, Bars DEF OthersStay
<1>3. /\ Gate(g) = <<Place(g), label>>
      /\ \A h \in Groups : Gate(h) = <<Place(g), label>>
      /\ ProducerGate = Follows(<<Place(g), label>>)
  BY GroupSet DEF Gate, GateInv, TypeInv
<1>4. \A h \in Groups : Blocked(h) => pc[h] = label /\ Place(h) = Place(g)
  BY <1>3 DEF Gate
<1>5. \A h \in Groups : \A c \in CTABarriers : h \in bar[c].blocked => c = b /\ pc[h] = label
  <2>1. ASSUME NEW h \in Groups, NEW c \in CTABarriers, h \in bar[c].blocked
        PROVE  c = b /\ pc[h] = label
    <3>1. Blocked(h) /\ h # Producer /\ c = BarrierOf(pc[h])
      BY <1>1, <2>1, WhoIsBlocked
    <3>2. QED
      BY <1>4, <3>1
  <2>2. QED
    BY <2>1
<1>6. /\ pc'[g] = label /\ Place(g)' = Place(g)
      /\ \A h \in Groups \ {g} : pc'[h] = pc[h] /\ Place(h)' = Place(h)
  BY DEF Moved
<1> HIDE DEF b
<1>7. CASE S # Parties(b)
  <2>1. /\ S \subseteq Parties(b)
        /\ bar'[b] = [count |-> Cardinality(S), blocked |-> S]
        /\ Cardinality(S) < Cardinality(Parties(b))
    BY <1>2, <1>7
  <2>2. BarInv'
    <3>1. ASSUME NEW c \in CTABarriers
          PROVE  /\ bar'[c] = [count |-> Cardinality(bar'[c].blocked),
                               blocked |-> bar'[c].blocked]
                 /\ bar'[c].blocked \subseteq Parties(c)
                 /\ bar'[c].count < Cardinality(Parties(c))
                 /\ \A h \in bar'[c].blocked : h # Producer =>
                      pc'[h] \in ArrivesAt /\ c = BarrierOf(pc'[h])
                 /\ Producer \in bar'[c].blocked => \/ c = dOLoadFull /\ ppc = "read"
                                                    \/ c = dOLoadEmpty /\ ppc = "acquire"
      <4>1. CASE c = b
        <5>1. \A h \in S : h # Producer => h \in Groups /\ pc'[h] = label
          BY <1>1, <1>5, <1>6, <2>1 DEF Parties
        <5>2. BarrierOf(label) = b
          BY DEF b
        <5>3. Producer \in S => \/ c = dOLoadFull /\ ppc = "read"
                                \/ c = dOLoadEmpty /\ ppc = "acquire"
          BY <1>1, <4>1 DEF BarInv
        <5>4. QED
          BY <2>1, <4>1, <5>1, <5>2, <5>3
      <4>2. CASE c # b
        <5>1. bar'[c] = bar[c]
          BY <1>2, <4>2
        <5>2. \A h \in bar[c].blocked : h # Producer => h \in Groups \ {g}
          BY <1>1, WhoIsBlocked
        <5>3. QED
          BY <1>6, <5>1, <5>2 DEF BarInv
      <4>3. QED
        BY <4>1, <4>2
    <3>2. QED
      BY <1>1, <3>1 DEF BarInv, BarrierOf
  <2>3. Blocked(g)'
    BY <1>1, <2>1 DEF Blocked
  <2>4. ASSUME NEW h, h # g PROVE Blocked(h)' <=> Blocked(h)
    <3>1. \A c \in CTABarriers : h \in bar'[c].blocked <=> h \in bar[c].blocked
      BY <1>2, <2>1, <2>4
    <3>2. QED
      BY <3>1 DEF Blocked
  <2>5. \A h \in Groups : Gate(h)' = Gate(h)
    <3>1. Gate(g)' = Gate(g)
      BY <1>3, <1>6, <2>3 DEF Gate
    <3>2. ASSUME NEW h \in Groups \ {g} PROVE Gate(h)' = Gate(h)
      BY <1>6, <2>4 DEF Gate
    <3>3. QED
      BY <3>1, <3>2
  <2>6. ProducerGate' = ProducerGate
    BY <1>1, <2>4 DEF ProducerGate
  <2>7. GateInv'
    BY <1>1, <2>5, <2>6, GroupSet DEF GateInv, Follows
  <2>8. QED
    BY <1>2, <2>2, <2>4, <2>7
<1>8. CASE S = Parties(b)
  <2>1. bar'[b] = [count |-> Cardinality({}), blocked |-> {}]
    BY <1>2, <1>8
  <2>2. \A c \in CTABarriers \ {b} : \A h \in bar[c].blocked : h = Producer
    BY <1>1, <1>5 DEF BarInv, Parties
  <2>3. \A h \in Groups : ~Blocked(h)'
    BY <1>1, <1>2, <2>1, <2>2 DEF Blocked
  <2>4. \A h \in Groups : pc'[h] = label /\ Place(h)' = Place(g)
    <3>1. \A h \in Groups \ {g} : Blocked(h)
      BY <1>1, <1>8, Party DEF Blocked
    <3>2. QED
      BY <1>4, <1>6, <3>1
  <2>5. \A h \in Groups : Gate(h)' = NextGate(launch, decision', label, Place(g))
    BY <2>3, <2>4 DEF Gate
  <2>6. BarInv'
    <3>1. ASSUME NEW c \in CTABarriers
          PROVE  /\ bar'[c] = [count |-> Cardinality(bar'[c].blocked),
                               blocked |-> bar'[c].blocked]
                 /\ bar'[c].blocked \subseteq Parties(c)
                 /\ bar'[c].count < Cardinality(Parties(c))
                 /\ \A h \in bar'[c].blocked : h = Producer
                 /\ Producer \in bar'[c].blocked => \/ c = dOLoadFull /\ ppc = "read"
                                                    \/ c = dOLoadEmpty /\ ppc = "acquire"
      <4>1. CASE c = b
        <5>1. /\ bar'[c].blocked = {} /\ bar'[c].count = Cardinality({})
              /\ bar'[c] = [count |-> Cardinality(bar'[c].blocked),
                            blocked |-> bar'[c].blocked]
          BY <2>1, <4>1
        <5>2. Cardinality({}) = 0 /\ Cardinality(Parties(c)) \in Nat \ {0}
          BY <1>1, Party, FS_EmptySet
        <5>3. QED
          BY <5>1, <5>2
      <4>2. CASE c # b
        BY <1>2, <2>2, <4>2 DEF BarInv
      <4>3. QED
        BY <4>1, <4>2
    <3>2. QED
      BY <1>1, <3>1 DEF BarInv
  <2>7. ProducerGate' = Follows(NextGate(launch, decision', label, Place(g)))
    <3>1. CASE label \notin {"full", "do"}
      <4>1. b \notin {dOLoadFull, dOLoadEmpty}
        BY <3>1, LabelOf DEF b
      <4>2. Producer \notin bar[b].blocked
        BY <1>1, <4>1 DEF BarInv
      <4>3. \A c \in CTABarriers : Producer \in bar'[c].blocked <=> Producer \in bar[c].blocked
        BY <1>2, <2>1, <4>2
      <4>4. Blocked(Producer)' <=> Blocked(Producer)
        BY <1>1, <4>3 DEF Blocked
      <4>5. ProducerGate' = ProducerGate
        BY <1>1, <4>4 DEF ProducerGate
      <4>6. QED
        BY <1>1, <1>3, <3>1, <4>5, FollowsStays
    <3>2. CASE label \in {"full", "do"}
      <4>1. b \in {dOLoadFull, dOLoadEmpty} /\ Producer \in bar[b].blocked
        <5>1. b \in {dOLoadFull, dOLoadEmpty}
          BY <3>2, LabelOf DEF b
        <5>2. Producer \in Parties(b) /\ Producer # g
          BY <1>1, <5>1 DEF Parties
        <5>3. QED
          BY <1>8, <5>1, <5>2
      <4>2. \A c \in CTABarriers : Producer \notin bar'[c].blocked
        <5>1. \A c \in CTABarriers \ {b} : Producer \notin bar[c].blocked
          BY <1>1, <4>1, Bars, WhoIsBlocked
        <5>2. Producer \notin bar'[b].blocked
          BY <2>1
        <5>3. QED
          BY <1>2, <5>1, <5>2
      <4>3. ~Blocked(Producer)' /\ Blocked(Producer)
        BY <1>1, <4>1, <4>2 DEF Blocked
      <4>4. CASE label = "full"
        <5>1. ppc = "read"
          BY <1>1, <4>1, <4>4, BarrierOfs, Bars DEF BarInv, b
        <5>2. dONext = Place(g)
          BY <1>3, <4>3, <4>4, <5>1 DEF ProducerGate, Follows
        <5>3. ProducerGate' = <<dONext, "do">>
          BY <4>3, <5>1 DEF ProducerGate, NextProducerGate
        <5>4. QED
          BY <4>4, <5>2, <5>3, Gates DEF Follows
      <4>5. CASE label = "do"
        <5>1. ppc = "acquire"
          BY <1>1, <4>1, <4>5, BarrierOfs, Bars DEF BarInv, b
        <5>2. dONext = Place(g)
          BY <1>3, <4>3, <4>5, <5>1 DEF ProducerGate, Follows
        <5>3. ProducerGate' = <<dONext + 1, "full">>
          BY <4>3, <5>1 DEF ProducerGate, NextProducerGate
        <5>4. QED
          BY <1>1, <4>5, <5>2, <5>3, FollowsDo
      <4>6. QED
        BY <3>2, <4>4, <4>5
    <3>3. QED
      BY <3>1, <3>2
  <2>8. GateInv'
    BY <1>1, <2>5, <2>7, GroupSet DEF GateInv, Follows
  <2>9. QED
    BY <1>2, <2>3, <2>6, <2>8
<1>9. QED
  BY <1>7, <1>8

(* A step that reaches no barrier of the CTA. *)
LEMMA Passes ==
    ASSUME TypeInv, BarInv, GateInv, UNCHANGED launch,
           \A c \in CTABarriers : bar'[c] = bar[c],
           \A h \in Groups : Blocked(h) => pc'[h] = pc[h] /\ Place(h)' = Place(h),
           \A h \in Groups : ~Blocked(h) => NextGate(launch, decision', pc'[h], Place(h)')
                                              = NextGate(launch, decision, pc[h], Place(h)),
           Blocked(Producer) => UNCHANGED <<ppc, dONext>>,
           ~Blocked(Producer) => NextProducerGate(ppc', dONext') = NextProducerGate(ppc, dONext)
    PROVE  BarInv' /\ GateInv' /\ \A h : Blocked(h)' <=> Blocked(h)
<1>1. /\ Groups' = Groups /\ Producer' = Producer /\ 0 \in Groups
      /\ \A c \in CTABarriers : Parties(c)' = Parties(c)
  BY GroupSet DEF TypeInv, Parties, Groups, Producer, NumGroups
<1>2. \A h : Blocked(h)' <=> Blocked(h)
  BY DEF Blocked
<1>3. BarInv'
  <2>1. ASSUME NEW c \in CTABarriers
        PROVE  /\ \A h \in bar[c].blocked : h # Producer =>
                    pc'[h] \in ArrivesAt /\ c = BarrierOf(pc'[h])
               /\ Producer \in bar[c].blocked => \/ c = dOLoadFull /\ ppc' = "read"
                                                 \/ c = dOLoadEmpty /\ ppc' = "acquire"
    <3>1. ASSUME NEW h \in bar[c].blocked, h # Producer
          PROVE  pc'[h] \in ArrivesAt /\ c = BarrierOf(pc'[h])
      <4>1. h \in Groups /\ Blocked(h) /\ pc[h] \in ArrivesAt /\ c = BarrierOf(pc[h])
        BY <3>1, WhoIsBlocked
      <4>2. QED
        BY <4>1
    <3>2. Producer \in bar[c].blocked => Blocked(Producer)
      BY DEF Blocked
    <3>3. QED
      BY <3>1, <3>2 DEF BarInv
  <2>2. QED
    BY <1>1, <2>1 DEF BarInv, BarrierOf
<1>4. \A h \in Groups : Gate(h)' = Gate(h)
  BY <1>1, <1>2 DEF Gate
<1>5. ProducerGate' = ProducerGate
  BY <1>1, <1>2 DEF ProducerGate
<1>6. GateInv'
  BY <1>1, <1>4, <1>5 DEF GateInv, Follows
<1>7. QED
  BY <1>2, <1>3, <1>6

LEMMA GroupPasses ==
    ASSUME TypeInv, BarInv, GateInv, NEW g \in Groups, ~Blocked(g), NEW label, NEW p,
           NextGate(launch, decision, label, p) = NextGate(launch, decision, pc[g], Place(g)),
           Moved(g, label, p), UNCHANGED <<launch, ppc, dONext, decision>>,
           \A c \in CTABarriers : bar'[c] = bar[c]
    PROVE  BarInv' /\ GateInv' /\ \A h : Blocked(h)' <=> Blocked(h)
<1>1. \A h \in Groups : Blocked(h) => pc'[h] = pc[h] /\ Place(h)' = Place(h)
  BY DEF Moved
<1>2. \A h \in Groups : ~Blocked(h) => NextGate(launch, decision', pc'[h], Place(h)')
                                         = NextGate(launch, decision, pc[h], Place(h))
  BY DEF Moved
<1>3. QED
  BY <1>1, <1>2, Passes, Zenon

(* The producer at a barrier. *)
LEMMA ProducerArrives ==
    ASSUME TypeInv, BarInv, GateInv, ~Blocked(Producer), NEW b \in CTABarriers, Sync(b, Producer),
           \/ b = dOLoadFull /\ ppc = "vote" /\ ppc' = "read"
           \/ b = dOLoadEmpty /\ ppc = "read" /\ ppc' = "acquire",
           UNCHANGED <<launch, dONext, pc, tile, decision>>
    PROVE  /\ BarInv' /\ GateInv' /\ OthersStay
           /\ \A h \in Groups : Blocked(h)' => Blocked(h)
<1> DEFINE S == bar[b].blocked \union {Producer}
           label == IF b = dOLoadFull THEN "full" ELSE "do"
<1>1. /\ launch \in Launches /\ Producer \in Parties(b)
      /\ \A c \in CTABarriers : Producer \notin bar[c].blocked
      /\ Groups' = Groups /\ Producer \notin Groups /\ Producer' = Producer
      /\ \A c \in CTABarriers : Parties(c)' = Parties(c)
      /\ \A h \in Groups : Place(h)' = Place(h) /\ Place(h) \in Nat
      /\ dONext \in Nat
  BY GroupSet, PlaceNat
  DEF TypeInv, Blocked, Parties, Groups, Producer, NumGroups, NumTiles, Place
<1>2. /\ OthersStay /\ \A c \in CTABarriers \ {b} : bar'[c] = bar[c]
      /\ \/ /\ S # Parties(b) /\ S \subseteq Parties(b)
            /\ bar'[b] = [count |-> Cardinality(S), blocked |-> S]
            /\ Cardinality(S) < Cardinality(Parties(b))
         \/ S = Parties(b) /\ bar'[b] = [count |-> Cardinality({}), blocked |-> {}]
  <2>1. /\ bar' = [c \in Barriers' |-> bar'[c]]
        /\ \A c \in Barriers \ {b} : bar'[c] = bar[c]
        /\ \/ /\ S # Parties(b) /\ S \subseteq Parties(b)
              /\ bar'[b] = [count |-> Cardinality(S), blocked |-> S]
              /\ Cardinality(S) < Cardinality(Parties(b))
           \/ S = Parties(b) /\ bar'[b] = [count |-> Cardinality({}), blocked |-> {}]
    BY <1>1, Arrival
  <2>2. QED
    BY <2>1, Bars DEF OthersStay
<1>3. \A c \in CTABarriers \ {b} : \A h \in bar'[c].blocked :
          h # Producer /\ h \in Groups /\ pc[h] \in ArrivesAt /\ c = BarrierOf(pc[h])
  BY <1>1, <1>2, WhoIsBlocked
<1>4. \A h \in bar[b].blocked : h # Producer /\ h \in Groups /\ pc[h] = label /\ b = BarrierOf(pc[h])
  BY <1>1, WhoIsBlocked, LabelOf, Bars
<1>5. label \in ArrivesAt
  BY DEF ArrivesAt
<1>6. BarInv'
  <2>1. ASSUME NEW c \in CTABarriers \ {b}
        PROVE  /\ bar'[c] = [count |-> Cardinality(bar'[c].blocked),
                             blocked |-> bar'[c].blocked]
               /\ bar'[c].blocked \subseteq Parties(c)
               /\ bar'[c].count < Cardinality(Parties(c))
    BY <1>2 DEF BarInv
  <2>2. /\ bar'[b] = [count |-> Cardinality(bar'[b].blocked), blocked |-> bar'[b].blocked]
        /\ bar'[b].blocked \subseteq Parties(b)
        /\ bar'[b].count < Cardinality(Parties(b))
    <3>1. CASE S # Parties(b)
      BY <1>2, <3>1
    <3>2. CASE S = Parties(b)
      <4>1. bar'[b] = [count |-> Cardinality({}), blocked |-> {}]
        BY <1>2, <3>2
      <4>2. Cardinality({}) = 0 /\ Cardinality(Parties(b)) \in Nat \ {0}
        BY <1>1, Party, FS_EmptySet
      <4>3. bar'[b].count = Cardinality({}) /\ bar'[b].blocked = {}
        BY <4>1
      <4>4. QED
        BY <4>1, <4>2, <4>3
    <3>3. QED
      BY <3>1, <3>2
  <2>3. \A h \in bar'[b].blocked : h # Producer => pc[h] \in ArrivesAt /\ b = BarrierOf(pc[h])
    <3>1. bar'[b].blocked \subseteq S
      BY <1>2
    <3>2. QED
      BY <1>4, <1>5, <3>1
  <2>4. QED
    BY <1>1, <1>3, <2>1, <2>2, <2>3 DEF BarInv, BarrierOf
<1>7. CASE S # Parties(b)
  <2>1. bar'[b].blocked = S
    BY <1>2, <1>7
  <2>2. Blocked(Producer)'
    BY <1>1, <2>1 DEF Blocked
  <2>3. \A h \in Groups : Blocked(h)' <=> Blocked(h)
    <3>1. \A h \in Groups : \A c \in CTABarriers : h \in bar'[c].blocked <=> h \in bar[c].blocked
      BY <1>1, <1>2, <2>1
    <3>2. QED
      BY <3>1 DEF Blocked
  <2>4. \A h \in Groups : Gate(h)' = Gate(h)
    BY <1>1, <2>3 DEF Gate
  <2>5. ProducerGate' = ProducerGate
    BY <2>2, Bars DEF ProducerGate, NextProducerGate
  <2>6. QED
    BY <1>1, <1>2, <1>6, <2>3, <2>4, <2>5, GroupSet DEF GateInv, Follows
<1>8. CASE S = Parties(b)
  <2>1. \A h \in Groups : h \in bar[b].blocked
    BY <1>1, <1>8, Party
  <2>2. \A c \in CTABarriers : bar'[c].blocked = {}
    <3>1. bar'[b].blocked = {}
      BY <1>2, <1>8
    <3>2. \A c \in CTABarriers \ {b} : bar'[c].blocked = {}
      BY <1>3, <1>4, <2>1
    <3>3. QED
      BY <3>1, <3>2
  <2>3. \A h : ~Blocked(h)'
    BY <2>2 DEF Blocked
  <2>4. \A h \in Groups : pc[h] = label /\ Gate(h) = <<Place(h), label>>
    BY <1>4, <2>1 DEF Gate, Blocked
  <2>5. ASSUME NEW h \in Groups PROVE Place(h) = dONext
    <3>1. NextProducerGate(ppc, dONext) = Follows(<<Place(h), label>>)
      BY <2>4, GroupSet DEF GateInv, TypeInv, ProducerGate
    <3>2. NextProducerGate(ppc, dONext) = <<dONext, label>>
      BY Bars DEF NextProducerGate
    <3>3. QED
      BY <3>1, <3>2 DEF Follows
  <2>6. \A h \in Groups : Gate(h)' = NextGate(launch, decision, label, dONext)
    <3>1. ASSUME NEW h \in Groups PROVE Gate(h)' = NextGate(launch, decision, label, dONext)
      <4>1. pc'[h] = label /\ Place(h)' = dONext /\ ~Blocked(h)'
        BY <1>1, <2>3, <2>4, <2>5
      <4>2. QED
        BY <4>1 DEF Gate
    <3>2. QED
      BY <3>1
  <2>7. ProducerGate' = NextProducerGate(ppc', dONext)
    BY <1>1, <2>3 DEF ProducerGate
  <2>8. NextProducerGate(ppc', dONext) = Follows(NextGate(launch, decision, label, dONext))
    <3>1. CASE b = dOLoadFull
      BY <3>1, Bars, Gates DEF Follows, NextProducerGate
    <3>2. CASE b = dOLoadEmpty
      <4>1. Follows(NextGate(launch, decision, "do", dONext)) = <<dONext + 1, "full">>
        BY <1>1, FollowsDo
      <4>2. QED
        BY <3>2, <4>1, Bars DEF NextProducerGate
    <3>3. QED
      BY <3>1, <3>2
  <2>9. GateInv'
    BY <1>1, <2>6, <2>7, <2>8, GroupSet DEF GateInv, Follows
  <2>10. QED
    BY <1>2, <1>6, <2>3, <2>9
<1>9. QED
  BY <1>7, <1>8

-----------------------------------------------------------------------------
(* What the steps of a group have in common. *)

GroupFrame == /\ UNCHANGED <<launch, qNext, dONext, ppc, pskip, sTile, sGroup, spc, adding>>
              /\ UNCHANGED <<qLanded, dOfull, dOflight, sdO, dQ>>
              /\ ~misread

LEMMA Frames ==
    ASSUME NEW g \in Groups, GroupStep(g)
    PROVE  GroupFrame
<1>1. UNCHANGED launch /\ ~misread
  BY DEF GroupStep, Following
<1>2. UNCHANGED <<producerVars, storeVars, qLanded, dOfull, dOflight, sdO, dQ>>
  <2>1. CASE WaitQ(g) \/ FinishScores(g) \/ CastVote(g) \/ ReduceVotes(g) \/ ReadVote(g)
             \/ AwaitProducer(g)
    BY <2>1 DEF WaitQ, FinishScores, CastVote, ReduceVotes, ReadVote, AwaitProducer,
                qVars, dOVars, memVars
  <2>2. CASE SkipTile(g) \/ MarkSkipped(g) \/ KeepTile(g) \/ WriteP(g) \/ WriteDS(g)
    BY <2>2 DEF SkipTile, MarkSkipped, KeepTile, WriteP, WriteDS, qVars, dOVars, memVars
  <2>3. CASE FinishDV(g) \/ FinishDQ(g) \/ HandOverDQ(g) \/ FinishDK(g)
             \/ EnterEpilogue(g) \/ StoreDKV(g)
    BY <2>3 DEF FinishDV, FinishDQ, HandOverDQ, FinishDK, EnterEpilogue, StoreDKV,
                qVars, dOVars, memVars
  <2>4. QED
    BY <2>1, <2>2, <2>3 DEF GroupStep
<1>3. QED
  BY <1>1, <1>2 DEF GroupFrame, producerVars, storeVars

LEMMA Runs ==
    ASSUME NEW g, Running(g)
    PROVE  ~Blocked(g)
BY Bars DEF Running, Blocked

LEMMA GoesTo ==
    ASSUME TypeInv, NEW g \in Groups, NEW label, Goto(g, label), UNCHANGED <<launch, tile>>,
           pc[g] \in Closing <=> label \in Closing
    PROVE  Moved(g, label, Place(g))
BY DEF TypeInv, Goto, Moved, Place, NumTiles

(* A group is done with a tile. *)
Next1(g, label) ==
    /\ Moved(g, label, Place(g) + 1)
    /\ \/ label = "q" /\ Place(g) + 1 < NumTiles
       \/ label = "fill" /\ Place(g) + 1 = NumTiles

LEMMA Releases ==
    ASSUME TypeInv, PlaceInv, NEW g \in Groups, pc[g] \notin Closing, ReleaseQ(g),
           UNCHANGED launch
    PROVE  /\ \E label \in {"q", "fill"} : Next1(g, label)
           /\ qTaken' = [qTaken EXCEPT ![g] = @ + 1]
           /\ tile' \in [Groups -> Nat] /\ pc' \in [Groups -> Labels]
           /\ pc'[g] \in Closing => tile'[g] \in Tiles
           /\ \A h \in Groups \ {g} : tile'[h] = tile[h]
<1>1. /\ tile \in [Groups -> Nat] /\ pc \in [Groups -> Labels] /\ tile[g] < NumTiles
      /\ NumTiles \in Nat /\ NumTiles' = NumTiles /\ Place(g) = tile[g] /\ tile[g] \in Nat
  BY GroupSet DEF TypeInv, PlaceInv, PlaceOK, NumTiles, Place
<1>2. CASE tile[g] + 1 = NumTiles
  <2>1. pc' = [pc EXCEPT ![g] = "fill"] /\ tile' = tile
    BY <1>2 DEF ReleaseQ, Goto
  <2>2. /\ pc'[g] = "fill" /\ \A h \in Groups \ {g} : pc'[h] = pc[h]
        /\ pc' \in [Groups -> Labels]
    BY <1>1, <2>1 DEF Labels
  <2>3. Next1(g, "fill")
    BY <1>1, <1>2, <2>1, <2>2 DEF Next1, Moved, Place, Closing
  <2>4. tile[g] \in Tiles
    BY <1>1 DEF Tiles
  <2>5. QED
    BY <1>1, <2>1, <2>2, <2>3, <2>4 DEF ReleaseQ
<1>3. CASE tile[g] + 1 # NumTiles
  <2>1. pc' = [pc EXCEPT ![g] = "q"] /\ tile' = [tile EXCEPT ![g] = @ + 1]
    BY <1>3 DEF ReleaseQ, Goto
  <2>2. /\ pc'[g] = "q" /\ \A h \in Groups \ {g} : pc'[h] = pc[h]
        /\ tile'[g] = tile[g] + 1 /\ \A h \in Groups \ {g} : tile'[h] = tile[h]
        /\ pc' \in [Groups -> Labels] /\ tile' \in [Groups -> Nat]
    BY <1>1, <2>1 DEF Labels
  <2>3. tile[g] + 1 < NumTiles
    BY <1>1, <1>3
  <2>4. Next1(g, "q")
    BY <1>1, <2>2, <2>3 DEF Next1, Moved, Place, Closing
  <2>5. QED
    BY <1>1, <2>2, <2>4 DEF ReleaseQ, Closing
<1>4. QED
  BY <1>2, <1>3

(* The steps of a group. *)
Turn(g, label, p) ==
    /\ Moved(g, label, p)
    /\ \/ /\ p = Place(g)
          /\ \/ pc[g] = "q" /\ label = "s"
             \/ pc[g] = "s" /\ label = "cast"
             \/ pc[g] = "cast" /\ label = "reduce"
             \/ pc[g] = "reduce" /\ label = "read"
             \/ pc[g] = "read" /\ label = "full"
             \/ pc[g] = "full" /\ label = "do"
             \/ pc[g] = "do" /\ label = "mark" /\ g \in DQGroups
             \/ pc[g] = "do" /\ label = "p"
             \/ pc[g] = "p" /\ label = "ds"
             \/ pc[g] = "ds" /\ label = "dv"
             \/ pc[g] = "dv" /\ label = "dq" /\ g \in DQGroups
             \/ pc[g] = "dv" /\ label = "dk" /\ g \notin DQGroups
             \/ pc[g] = "dq" /\ label = "hand"
             \/ pc[g] = "hand" /\ label = "dk"
             \/ pc[g] = "fill" /\ label = "epilogue"
             \/ pc[g] = "epilogue" /\ label = "done"
       \/ /\ p = Place(g) + 1 /\ Next1(g, label)
          /\ pc[g] \in {"mark", "dk"} \/ (pc[g] = "do" /\ g \notin DQGroups)

LEMMA Turns ==
    ASSUME TypeInv, PlaceInv, NEW g \in Groups, GroupStep(g)
    PROVE  ~Blocked(g) /\ \E label, p : Turn(g, label, p)
<1>1. UNCHANGED launch
  BY DEF GroupStep, Following
<1>2. CASE WaitQ(g) \/ FinishScores(g) \/ CastVote(g) \/ ReduceVotes(g) \/ ReadVote(g)
           \/ AwaitProducer(g)
  <2>1. PICK label : /\ Running(g) /\ Goto(g, label) /\ UNCHANGED tile
                     /\ \/ pc[g] = "q" /\ label = "s"
                        \/ pc[g] = "s" /\ label = "cast"
                        \/ pc[g] = "cast" /\ label = "reduce"
                        \/ pc[g] = "reduce" /\ label = "read"
                        \/ pc[g] = "read" /\ label = "full"
                        \/ pc[g] = "full" /\ label = "do"
    BY <1>2 DEF WaitQ, FinishScores, CastVote, ReduceVotes, ReadVote, AwaitProducer, At
  <2>2. Turn(g, label, Place(g))
    BY <1>1, <2>1, GoesTo DEF Turn, Closing
  <2>3. QED
    BY <2>1, <2>2, Runs
<1>3. CASE \/ (SkipTile(g) /\ g \in DQGroups) \/ KeepTile(g) \/ WriteP(g) \/ WriteDS(g)
           \/ FinishDV(g) \/ FinishDQ(g) \/ HandOverDQ(g)
  <2>1. PICK label : /\ Running(g) /\ Goto(g, label) /\ UNCHANGED tile
                     /\ \/ pc[g] = "do" /\ label = "mark" /\ g \in DQGroups
                        \/ pc[g] = "do" /\ label = "p"
                        \/ pc[g] = "p" /\ label = "ds"
                        \/ pc[g] = "ds" /\ label = "dv"
                        \/ pc[g] = "dv" /\ label = "dq" /\ g \in DQGroups
                        \/ pc[g] = "dv" /\ label = "dk" /\ g \notin DQGroups
                        \/ pc[g] = "dq" /\ label = "hand"
                        \/ pc[g] = "hand" /\ label = "dk"
    BY <1>3 DEF SkipTile, KeepTile, WriteP, WriteDS, FinishDV, FinishDQ, HandOverDQ, At
  <2>2. Turn(g, label, Place(g))
    BY <1>1, <2>1, GoesTo DEF Turn, Closing
  <2>3. QED
    BY <2>1, <2>2, Runs
<1>4. CASE (SkipTile(g) /\ g \notin DQGroups) \/ MarkSkipped(g) \/ FinishDK(g)
  <2>1. /\ Running(g) /\ ReleaseQ(g)
        /\ pc[g] \in {"mark", "dk"} \/ (pc[g] = "do" /\ g \notin DQGroups)
    BY <1>4 DEF SkipTile, MarkSkipped, FinishDK, At
  <2>2. PICK label \in {"q", "fill"} : Next1(g, label)
    BY <1>1, <2>1, Releases DEF Closing
  <2>3. Turn(g, label, Place(g) + 1)
    BY <2>1, <2>2 DEF Turn, Next1
  <2>4. QED
    BY <2>1, <2>3, Runs
<1>5. CASE EnterEpilogue(g) \/ StoreDKV(g)
  <2>1. PICK label : /\ Running(g) /\ Goto(g, label) /\ UNCHANGED tile
                     /\ \/ pc[g] = "fill" /\ label = "epilogue"
                        \/ pc[g] = "epilogue" /\ label = "done"
    BY <1>5 DEF EnterEpilogue, StoreDKV, At
  <2>2. Turn(g, label, Place(g))
    BY <1>1, <2>1, GoesTo DEF Turn, Closing
  <2>3. QED
    BY <2>1, <2>2, Runs
<1>6. QED
  BY <1>2, <1>3, <1>4, <1>5 DEF GroupStep

LEMMA Same ==
    ASSUME UNCHANGED launch
    PROVE  /\ Groups' = Groups /\ NumGroups' = NumGroups /\ NumTiles' = NumTiles
           /\ Tiles' = Tiles /\ DQGroups' = DQGroups /\ NumWgDQ' = NumWgDQ
           /\ Stages' = Stages /\ Words' = Words /\ Words0' = Words0 /\ Barriers' = Barriers
           /\ Producer' = Producer /\ StoreWarp' = StoreWarp /\ Copy' = Copy
           /\ \A t : StagePdS(t)' = StagePdS(t) /\ TilesOr(t)' = TilesOr(t)
BY DEF Groups, NumGroups, NumTiles, Tiles, DQGroups, NumWgDQ, Stages, Words, Words0, Barriers,
       Producer, StoreWarp, Copy, StagePdS, TilesOr

LEMMA Words0s ==
    /\ \A f \in BOOLEAN : Vote(f) \in Words0 /\ Flag(f) \in Words0
    /\ \A t \in TilesOr(Garbage) : DS(t) \in Words0
    /\ \A t \in Tiles : DS(t) \in Words0 /\ \A x : t \in TilesOr(x)
BY DEF Words0, TilesOr

LEMMA Reads ==
    /\ \A f \in BOOLEAN : AsVote(Vote(f)) = {f} /\ AsVote(Flag(f)) = {FALSE} /\ AsFlag(Flag(f)) = {f}
    /\ \A f, h \in BOOLEAN : Vote(f) # Flag(h) /\ (Flag(f) = Flag(h) => f = h)
    /\ \A word \in Words0 : AsVote(word) \subseteq BOOLEAN /\ AsFlag(word) \subseteq BOOLEAN
<1>1. \A f : /\ Vote(f).vote = f /\ DOMAIN Vote(f) = {"vote"}
             /\ Flag(f).flag = f /\ DOMAIN Flag(f) = {"flag"}
             /\ DOMAIN DS(f) = {"tile"}
  BY DEF Vote, Flag, DS
<1>2. \A f : AsVote(Vote(f)) = {f} /\ AsVote(Flag(f)) = {FALSE} /\ AsFlag(Flag(f)) = {f}
            /\ AsVote(DS(f)) = BOOLEAN /\ AsFlag(DS(f)) = BOOLEAN /\ AsFlag(Vote(f)) = BOOLEAN
  BY <1>1 DEF AsVote, AsFlag
<1>3. \A f, h : Vote(f) # Flag(h)
  BY <1>1
<1>4. \A f, h \in BOOLEAN : Flag(f) = Flag(h) => f = h
  BY <1>1
<1>5. ASSUME NEW word \in Words0
      PROVE  AsVote(word) \subseteq BOOLEAN /\ AsFlag(word) \subseteq BOOLEAN
  <2>1. CASE \E f \in BOOLEAN : word = Vote(f)
    BY <1>2, <2>1
  <2>2. CASE \E f \in BOOLEAN : word = Flag(f)
    <3>1. PICK f \in BOOLEAN : word = Flag(f)
      BY <2>2
    <3>2. AsVote(word) = {FALSE} /\ AsFlag(word) = {f}
      BY <1>2, <3>1
    <3>3. QED
      BY <3>2
  <2>3. CASE \E t \in TilesOr(Garbage) : word = DS(t)
    BY <1>2, <2>3
  <2>4. QED
    BY <2>1, <2>2, <2>3 DEF Words0
<1>6. QED
  BY <1>2, <1>3, <1>4, <1>5

LEMMA Puts ==
    ASSUME NEW A, NEW B, NEW V, NEW f \in [A -> [B -> V]], NEW s \in A, NEW g \in B, NEW v \in V
    PROVE  /\ [f EXCEPT ![s][g] = v] \in [A -> [B -> V]]
           /\ [f EXCEPT ![s][g] = v][s][g] = v
           /\ \A h \in B \ {g} : \A r \in A : [f EXCEPT ![s][g] = v][r][h] = f[r][h]
           /\ \A r \in A \ {s} : [f EXCEPT ![s][g] = v][r] = f[r]
<1>1. [f EXCEPT ![s][g] = v] = [f EXCEPT ![s] = [f[s] EXCEPT ![g] = v]]
  OBVIOUS
<1>2. [f[s] EXCEPT ![g] = v] \in [B -> V]
  OBVIOUS
<1>3. [f EXCEPT ![s] = [f[s] EXCEPT ![g] = v]] \in [A -> [B -> V]]
  BY <1>2
<1>4. QED
  BY <1>1, <1>2, <1>3

LEMMA Stage ==
    ASSUME launch \in Launches, NEW t \in Nat
    PROVE  StagePdS(t) \in Stages
<1>1. launch.stagesPdS \in Nat \ {0}
  BY LaunchFacts
<1>2. t % launch.stagesPdS \in 0 .. launch.stagesPdS - 1
  BY <1>1
<1>3. QED
  BY <1>2 DEF StagePdS, Stages

(* Outcomes are only added. *)
Extends == /\ decision' \in Seq(BOOLEAN) /\ Len(decision) \in Nat
           /\ Len(decision) <= Len(decision')
           /\ \A i \in 1 .. Len(decision) : decision'[i] = decision[i]

LEMMA Appends ==
    ASSUME decision \in Seq(BOOLEAN), NEW f \in BOOLEAN, decision' = Append(decision, f)
    PROVE  Extends /\ Len(decision') = Len(decision) + 1 /\ decision'[Len(decision) + 1] = f
BY DEF Extends

LEMMA Decides ==
    ASSUME TypeInv, NEW g \in Groups, GroupStep(g)
    PROVE  /\ Extends
           /\ \/ decision' = decision
              \/ g = 0 /\ pc[g] = "reduce" /\ Len(decision') = Len(decision) + 1
<1>1. decision \in Seq(BOOLEAN) /\ (\A w \in Groups : vote[w]) \in BOOLEAN
  BY DEF TypeInv
<1>2. CASE ReduceVotes(g) /\ g = 0
  <2>1. pc[g] = "reduce" /\ decision' = Append(decision, \A w \in Groups : vote[w])
    BY <1>2 DEF ReduceVotes, At
  <2>2. QED
    BY <1>1, <1>2, <2>1, Appends
<1>3. CASE ~(ReduceVotes(g) /\ g = 0)
  <2>1. decision' = decision
    BY <1>3 DEF GroupStep, WaitQ, FinishScores, CastVote, ReduceVotes, ReadVote, AwaitProducer,
      SkipTile, MarkSkipped, KeepTile, WriteP, WriteDS, FinishDV, FinishDQ, HandOverDQ,
      FinishDK, EnterEpilogue, StoreDKV, histVars
  <2>2. QED
    BY <1>1, <2>1 DEF Extends
<1>4. QED
  BY <1>2, <1>3

LEMMA BarTyped ==
    ASSUME TypeInv, UNCHANGED launch,
           \/ UNCHANGED bar
           \/ \E b, a : Sync(b, a)
           \/ \E b : ArriveOn(b)
    PROVE  bar' = [b \in Barriers' |-> bar'[b]]
<1>1. bar = [b \in Barriers |-> bar[b]] /\ Barriers' = Barriers
  BY Same DEF TypeInv
<1>2. CASE UNCHANGED bar
  BY <1>1, <1>2
<1>3. CASE \E b, a : Sync(b, a)
  BY <1>1, <1>3 DEF Sync
<1>4. CASE \E b : ArriveOn(b)
  BY <1>1, <1>4 DEF ArriveOn
<1>5. QED
  BY <1>2, <1>3, <1>4

(* What a step of a group may change keeps its type. *)
GroupTypes ==
    /\ bar' = [b \in Barriers' |-> bar'[b]]
    /\ qTaken' \in [Groups -> Nat]
    /\ words' \in [Words -> Words0]
    /\ sdS' \in [Stages -> [Groups -> TilesOr(Garbage)]]
    /\ sP' \in [Stages -> [Groups -> TilesOr(Garbage)]] /\ sKV' \in BOOLEAN
    /\ sdQ' \in [DQGroups -> TilesOr(Garbage)] /\ sdQSkip' \in [DQGroups -> BOOLEAN]
    /\ pc' \in [Groups -> Labels] /\ tile' \in [Groups -> Nat]
    /\ vote' \in [Groups -> BOOLEAN] /\ rSkip' \in [Groups -> BOOLEAN]
    /\ accumulate' \in [Groups -> BOOLEAN] /\ misread' \in BOOLEAN
    /\ decision' \in Seq(BOOLEAN)
    /\ dKV' \in [Groups -> SUBSET TilesOr(Garbage)]

LEMMA TypedBy ==
    ASSUME TypeInv, GroupFrame, GroupTypes
    PROVE  TypeInv'
<1>1. UNCHANGED launch
  BY DEF GroupFrame
<1>2. /\ launch \in Launches
      /\ qNext \in Nat /\ dONext \in Nat /\ pskip \in BOOLEAN
      /\ ppc \in {"q", "vote", "read", "acquire", "load"}
      /\ sTile \in Nat /\ sGroup \in DQGroups /\ spc \in {"free", "take", "add"}
      /\ adding \in [DQGroups -> TilesOr(None)]
      /\ qLanded \subseteq Tiles /\ sdO \in TilesOr(Garbage)
      /\ dQ \in [DQGroups -> SUBSET Tiles]
  BY DEF TypeInv
<1>3. QED
  BY <1>1, <1>2, Same DEF TypeInv, GroupTypes, GroupFrame

LEMMA GroupTyped ==
    ASSUME TypeInv, PlaceInv, NEW g \in Groups, GroupStep(g)
    PROVE  TypeInv'
<1>1. /\ launch \in Launches
      /\ bar = [b \in Barriers |-> bar[b]]
      /\ qTaken \in [Groups -> Nat] /\ words \in [Words -> Words0]
      /\ sdS \in [Stages -> [Groups -> TilesOr(Garbage)]]
      /\ sP \in [Stages -> [Groups -> TilesOr(Garbage)]] /\ sKV \in BOOLEAN
      /\ sdQ \in [DQGroups -> TilesOr(Garbage)] /\ sdQSkip \in [DQGroups -> BOOLEAN]
      /\ pc \in [Groups -> Labels] /\ tile \in [Groups -> Nat]
      /\ vote \in [Groups -> BOOLEAN] /\ rSkip \in [Groups -> BOOLEAN]
      /\ accumulate \in [Groups -> BOOLEAN] /\ misread \in BOOLEAN
      /\ decision \in Seq(BOOLEAN)
      /\ dKV \in [Groups -> SUBSET TilesOr(Garbage)]
  BY DEF TypeInv
<1>2. GroupFrame /\ UNCHANGED launch
  BY Frames DEF GroupFrame
<1>3. decision' \in Seq(BOOLEAN)
  BY Decides DEF Extends
<1>4. bar' = [b \in Barriers' |-> bar'[b]]
  <2>1. \/ UNCHANGED bar
        \/ \E b, a : Sync(b, a)
        \/ \E b : ArriveOn(b)
    BY DEF GroupStep, WaitQ, FinishScores, CastVote, ReduceVotes, ReadVote, AwaitProducer,
      SkipTile, MarkSkipped, KeepTile, WriteP, WriteDS, FinishDV, FinishDQ, HandOverDQ,
      FinishDK, EnterEpilogue, StoreDKV
  <2>2. QED
    BY <1>2, <2>1, BarTyped
<1>5. /\ tile[g] \in Nat /\ Place(g) = (IF pc[g] \in Closing THEN NumTiles ELSE tile[g])
      /\ pc[g] \notin Closing => /\ tile[g] \in Tiles /\ DS(tile[g]) \in Words0
                                 /\ tile[g] \in TilesOr(Garbage)
                                 /\ StagePdS(tile[g]) \in Stages
  <2>1. tile[g] \in Nat /\ (pc[g] \notin Closing => tile[g] < NumTiles)
    BY <1>1 DEF PlaceInv, PlaceOK
  <2>2. pc[g] \notin Closing => tile[g] \in Tiles
    BY <1>1, <2>1, GroupSet DEF Tiles
  <2>3. QED
    BY <1>1, <2>1, <2>2, Words0s, Stage DEF Place
<1>6. \A label \in Labels : Goto(g, label) => pc' \in [Groups -> Labels]
  BY <1>1 DEF Goto
<1>7. CASE WaitQ(g) \/ FinishScores(g) \/ AwaitProducer(g) \/ KeepTile(g) \/ FinishDV(g)
           \/ FinishDQ(g)
  <2>1. \E label \in Labels : Goto(g, label)
    BY <1>7 DEF WaitQ, FinishScores, AwaitProducer, KeepTile, FinishDV, FinishDQ, Labels
  <2>2. UNCHANGED <<qTaken, words, sdS, sP, sKV, sdQ, sdQSkip, tile, vote, rSkip, accumulate,
                    misread, dKV>>
    BY <1>7 DEF WaitQ, FinishScores, AwaitProducer, KeepTile, FinishDV, FinishDQ, qVars, memVars,
                pdsVars, dQVars, voteVars, dKVVars, histVars
  <2>3. QED
    BY <1>1, <1>2, <1>3, <1>4, <1>6, <2>1, <2>2, TypedBy DEF GroupTypes
<1>8. CASE CastVote(g)
  <2>1. PICK flag \in BOOLEAN :
          /\ vote' = [vote EXCEPT ![g] = flag]
          /\ words' = [w \in Words |->
                         IF w = g \/ (g = 0 /\ w = Copy) THEN Vote(flag) ELSE words[w]]
    BY <1>8 DEF CastVote
  <2>2. vote' \in [Groups -> BOOLEAN] /\ words' \in [Words -> Words0]
    BY <1>1, <2>1, Words0s
  <2>3. UNCHANGED <<qTaken, sdS, sP, sKV, sdQ, sdQSkip, tile, rSkip, accumulate, misread, dKV>>
    BY <1>8 DEF CastVote, qVars, dQVars, dKVVars, histVars
  <2>4. pc' \in [Groups -> Labels]
    BY <1>6, <1>8 DEF CastVote, Labels
  <2>5. QED
    BY <1>1, <1>2, <1>3, <1>4, <2>2, <2>3, <2>4, TypedBy DEF GroupTypes
<1>9. CASE ReduceVotes(g)
  <2>1. words' \in [Words -> Words0]
    <3>1. words' = words \/ \E f \in BOOLEAN : words' = [words EXCEPT ![0] = Vote(f)]
      BY <1>9 DEF ReduceVotes
    <3>2. QED
      BY <1>1, <3>1, Words0s
  <2>2. UNCHANGED <<qTaken, sdS, sP, sKV, sdQ, sdQSkip, tile, vote, rSkip, accumulate, misread, dKV>>
    BY <1>9 DEF ReduceVotes, qVars, dQVars, dKVVars, voteVars
  <2>3. pc' \in [Groups -> Labels]
    BY <1>6, <1>9 DEF ReduceVotes, Labels
  <2>4. QED
    BY <1>1, <1>2, <1>3, <1>4, <2>1, <2>2, <2>3, TypedBy DEF GroupTypes
<1>10. CASE ReadVote(g)
  <2>1. PICK skip \in AsVote(words[0]) :
          /\ rSkip' = [rSkip EXCEPT ![g] = skip]
          /\ words' = IF g = 0 THEN [words EXCEPT ![0] = Flag(skip)] ELSE words
    BY <1>10 DEF ReadVote
  <2>2. skip \in BOOLEAN
    <3>1. words[0] \in Words0
      BY <1>1, GroupSet
    <3>2. QED
      BY <2>1, <3>1, Reads
  <2>3. rSkip' \in [Groups -> BOOLEAN] /\ words' \in [Words -> Words0]
    BY <1>1, <2>1, <2>2, Words0s
  <2>4. misread' \in BOOLEAN
    BY <1>1, <1>10 DEF ReadVote
  <2>5. UNCHANGED <<qTaken, sdS, sP, sKV, sdQ, sdQSkip, tile, vote, accumulate, dKV>>
    BY <1>10 DEF ReadVote, qVars, dQVars, dKVVars
  <2>6. pc' \in [Groups -> Labels]
    BY <1>6, <1>10 DEF ReadVote, Labels
  <2>7. QED
    BY <1>1, <1>2, <1>3, <1>4, <2>3, <2>4, <2>5, <2>6, TypedBy DEF GroupTypes
<1>11. CASE SkipTile(g) \/ MarkSkipped(g) \/ FinishDK(g)
  <2>1. UNCHANGED <<words, sdS, sP, sKV, sdQ, vote, rSkip, misread>>
    BY <1>11 DEF SkipTile, MarkSkipped, FinishDK, memVars, pdsVars, dQVars, voteVars, histVars
  <2>2. pc' \in [Groups -> Labels] /\ tile' \in [Groups -> Nat] /\ qTaken' \in [Groups -> Nat]
    <3>1. CASE ReleaseQ(g)
      <4>1. pc[g] \notin Closing
        BY <1>11 DEF SkipTile, MarkSkipped, FinishDK, At, Closing
      <4>2. QED
        <5>1. pc' \in [Groups -> Labels] /\ tile' \in [Groups -> Nat]
          BY <1>2, <3>1, <4>1, Releases
        <5>2. qTaken' \in [Groups -> Nat]
          BY <1>1, <3>1 DEF ReleaseQ
        <5>3. QED
          BY <5>1, <5>2
    <3>2. CASE ~ReleaseQ(g)
      <4>1. Goto(g, "mark") /\ UNCHANGED <<qTaken, tile>>
        BY <1>11, <3>2 DEF SkipTile, MarkSkipped, FinishDK
      <4>2. QED
        BY <1>1, <1>6, <4>1 DEF Labels
    <3>3. QED
      BY <3>1, <3>2
  <2>3. sdQSkip' \in [DQGroups -> BOOLEAN]
    <3>1. sdQSkip' = sdQSkip \/ sdQSkip' = [sdQSkip EXCEPT ![g] = TRUE]
      BY <1>11 DEF SkipTile, MarkSkipped, FinishDK, memVars, dQVars
    <3>2. QED
      BY <1>1, <3>1
  <2>4. accumulate' \in [Groups -> BOOLEAN] /\ dKV' \in [Groups -> SUBSET TilesOr(Garbage)]
    <3>1. CASE FinishDK(g)
      <4>1. tile[g] \in TilesOr(Garbage)
        BY <1>5, <3>1 DEF FinishDK, At, Closing
      <4>2. QED
        BY <1>1, <3>1, <4>1 DEF FinishDK
    <3>2. CASE ~FinishDK(g)
      BY <1>1, <1>11, <3>2 DEF SkipTile, MarkSkipped, dKVVars
    <3>3. QED
      BY <3>1, <3>2
  <2>5. QED
    BY <1>1, <1>2, <1>3, <1>4, <2>1, <2>2, <2>3, <2>4, TypedBy DEF GroupTypes
<1>12. CASE WriteP(g) \/ WriteDS(g)
  <2>1. /\ tile[g] \in TilesOr(Garbage) /\ StagePdS(tile[g]) \in Stages
        /\ DS(tile[g]) \in Words0
    BY <1>5, <1>12 DEF WriteP, WriteDS, At, Closing
  <2>2. UNCHANGED <<qTaken, sKV, sdQ, sdQSkip, tile, vote, rSkip, accumulate, misread, dKV>>
    BY <1>12 DEF WriteP, WriteDS, qVars, dQVars, voteVars, dKVVars, histVars
  <2>3. pc' \in [Groups -> Labels]
    BY <1>6, <1>12 DEF WriteP, WriteDS, Labels
  <2>4. sP' \in [Stages -> [Groups -> TilesOr(Garbage)]]
    <3>1. sP' = sP \/ sP' = [sP EXCEPT ![StagePdS(tile[g])][g] = tile[g]]
      BY <1>12 DEF WriteP, WriteDS
    <3>2. [sP EXCEPT ![StagePdS(tile[g])][g] = tile[g]] \in [Stages -> [Groups -> TilesOr(Garbage)]]
      BY <1>1, <2>1, Puts
    <3>3. QED
      BY <1>1, <3>1, <3>2
  <2>5. sdS' \in [Stages -> [Groups -> TilesOr(Garbage)]]
    <3>1. sdS' = sdS \/ sdS' = [sdS EXCEPT ![StagePdS(tile[g])][g] = tile[g]]
      BY <1>12 DEF WriteP, WriteDS
    <3>2. [sdS EXCEPT ![StagePdS(tile[g])][g] = tile[g]] \in [Stages -> [Groups -> TilesOr(Garbage)]]
      BY <1>1, <2>1, Puts
    <3>3. QED
      BY <1>1, <3>1, <3>2
  <2>6. words' \in [Words -> Words0]
    <3>1. words' = words \/ words' = [w \in Words |-> DS(tile[g])]
      BY <1>12 DEF WriteP, WriteDS
    <3>2. QED
      BY <1>1, <2>1, <3>1
  <2>7. QED
    BY <1>1, <1>2, <1>3, <1>4, <2>2, <2>3, <2>4, <2>5, <2>6, TypedBy DEF GroupTypes
<1>13. CASE HandOverDQ(g)
  <2>1. tile[g] \in TilesOr(Garbage)
    BY <1>5, <1>13 DEF HandOverDQ, At, Closing
  <2>2. sdQ' \in [DQGroups -> TilesOr(Garbage)] /\ sdQSkip' \in [DQGroups -> BOOLEAN]
    BY <1>1, <1>13, <2>1 DEF HandOverDQ
  <2>3. UNCHANGED <<qTaken, words, sdS, sP, sKV, tile, vote, rSkip, accumulate, misread, dKV>>
    BY <1>13 DEF HandOverDQ, qVars, pdsVars, voteVars, dKVVars, histVars
  <2>4. pc' \in [Groups -> Labels]
    BY <1>6, <1>13 DEF HandOverDQ, Labels
  <2>5. QED
    BY <1>1, <1>2, <1>3, <1>4, <2>2, <2>3, <2>4, TypedBy DEF GroupTypes
<1>14. CASE EnterEpilogue(g) \/ StoreDKV(g)
  <2>1. UNCHANGED <<qTaken, words, sdS, sP, sdQ, sdQSkip, tile, vote, rSkip, accumulate, misread>>
    BY <1>14 DEF EnterEpilogue, StoreDKV, qVars, memVars, pdsVars, dQVars, voteVars, dKVVars, histVars
  <2>2. pc' \in [Groups -> Labels]
    BY <1>6, <1>14 DEF EnterEpilogue, StoreDKV, Labels
  <2>3. sKV' \in BOOLEAN /\ dKV' \in [Groups -> SUBSET TilesOr(Garbage)]
    <3>1. sKV' = sKV \/ sKV' = FALSE
      BY <1>14 DEF EnterEpilogue, StoreDKV, memVars
    <3>2. dKV' = dKV \/ dKV' = [dKV EXCEPT ![g] = {}]
      BY <1>14 DEF EnterEpilogue, StoreDKV, dKVVars
    <3>3. QED
      BY <1>1, <3>1, <3>2
  <2>4. QED
    BY <1>1, <1>2, <1>3, <1>4, <2>1, <2>2, <2>3, TypedBy DEF GroupTypes
<1>15. QED
  BY <1>7, <1>8, <1>9, <1>10, <1>11, <1>12, <1>13, <1>14 DEF GroupStep

-----------------------------------------------------------------------------
(* A step of a group: the gates. *)

LEMMA GatesStay ==
    ASSUME TypeInv, PlaceInv, Extends, NEW h \in Groups
    PROVE  NextGate(launch, decision', pc[h], Place(h)) = NextGate(launch, decision, pc[h], Place(h))
<1>1. CASE pc[h] = "do"
  <2>1. Place(h) < Len(decision) /\ Place(h) \in Nat
    BY <1>1, PlaceNat DEF PlaceInv, PlaceOK, Decided
  <2>2. decision'[Place(h) + 1] = decision[Place(h) + 1]
    BY <2>1 DEF Extends
  <2>3. QED
    BY <1>1, <2>2, Gates
<1>2. CASE pc[h] # "do"
  BY <1>2 DEF NextGate
<1>3. QED
  BY <1>1, <1>2

(* Where the groups meet, and what happens to the others then. *)
Meets(g) == BarInv' /\ GateInv' /\ \A h \in Groups \ {g} : Blocked(h)' => Blocked(h)

LEMMA MeetsAt ==
    ASSUME TypeInv, BarInv, GateInv, PlaceInv, NEW g \in Groups, GroupStep(g),
           NEW label \in ArrivesAt, Goto(g, label), UNCHANGED tile,
           NextGate(launch, decision, pc[g], Place(g)) = <<Place(g), label>>,
           pc[g] \in Closing <=> label \in Closing,
           Sync(BarrierOf(label), g)
    PROVE  Meets(g) /\ OthersStay
<1>1. GroupFrame /\ ~Blocked(g)
  BY Frames, Turns
<1>2. UNCHANGED <<launch, ppc, dONext>> /\ Extends
  BY <1>1, Decides DEF GroupFrame
<1>3. Moved(g, label, Place(g))
  BY <1>2, GoesTo
<1>4. \A h \in Groups : ~Blocked(h) => NextGate(launch, decision', pc[h], Place(h))
                                              = NextGate(launch, decision, pc[h], Place(h))
  BY <1>2, GatesStay
<1>5. QED
  BY <1>1, <1>2, <1>3, <1>4, GroupArrives DEF Meets

LEMMA MeetsNobody ==
    ASSUME TypeInv, BarInv, GateInv, PlaceInv, NEW g \in Groups, GroupStep(g), pc[g] # "reduce",
           NEW label, NEW p, Moved(g, label, p),
           NextGate(launch, decision, label, p) = NextGate(launch, decision, pc[g], Place(g)),
           \A c \in CTABarriers : bar'[c] = bar[c]
    PROVE  Meets(g) /\ \A h : Blocked(h)' <=> Blocked(h)
<1>1. GroupFrame /\ ~Blocked(g)
  BY Frames, Turns
<1>2. UNCHANGED <<launch, ppc, dONext, decision>>
  BY <1>1, Decides DEF GroupFrame
<1>3. BarInv' /\ GateInv' /\ \A h : Blocked(h)' <=> Blocked(h)
  BY <1>1, <1>2, GroupPasses
<1>4. QED
  BY <1>3 DEF Meets

(* A step at a barrier of a dQ buffer reaches none of the CTA. *)
LEMMA Elsewhere ==
    ASSUME TypeInv, UNCHANGED launch, NEW g \in DQGroups,
           NEW b \in {dQFull(g), dQEmpty(g)}, ArriveOn(b) \/ \E a : Sync(b, a)
    PROVE  \A c \in CTABarriers : bar'[c] = bar[c]
<1>1. b \notin CTABarriers /\ CTABarriers \subseteq Barriers /\ bar = [c \in Barriers |-> bar[c]]
  BY Bars DEF TypeInv
<1>2. QED
  BY <1>1 DEF ArriveOn, Sync

LEMMA GroupMeets ==
    ASSUME TypeInv, BarInv, GateInv, PlaceInv, SkipInv, NEW g \in Groups, GroupStep(g)
    PROVE  Meets(g)
<1>1. /\ UNCHANGED launch /\ launch \in Launches
      /\ \E label, p : Turn(g, label, p)
      /\ Place(g) \in Nat
  BY Turns, PlaceNat DEF GroupStep, Following, TypeInv
<1>2. CASE FinishScores(g) \/ CastVote(g) \/ ReduceVotes(g) \/ ReadVote(g) \/ AwaitProducer(g)
           \/ WriteDS(g) \/ EnterEpilogue(g)
  <2>1. PICK label \in ArrivesAt :
          /\ Goto(g, label) /\ UNCHANGED tile /\ Sync(BarrierOf(label), g)
          /\ \/ pc[g] = "s" /\ label = "cast"
             \/ pc[g] = "cast" /\ label = "reduce"
             \/ pc[g] = "reduce" /\ label = "read"
             \/ pc[g] = "read" /\ label = "full"
             \/ pc[g] = "full" /\ label = "do"
             \/ pc[g] = "ds" /\ label = "dv"
             \/ pc[g] = "fill" /\ label = "epilogue"
    BY <1>2, BarrierOfs DEF FinishScores, CastVote, ReduceVotes, ReadVote, AwaitProducer, WriteDS,
       EnterEpilogue, At, ArrivesAt
  <2>2. NextGate(launch, decision, pc[g], Place(g)) = <<Place(g), label>>
    BY <2>1, Gates
  <2>3. pc[g] \in Closing <=> label \in Closing
    BY <2>1 DEF Closing
  <2>4. QED
    BY <2>1, <2>2, <2>3, MeetsAt
<1>3. CASE WaitQ(g) \/ FinishDV(g) \/ FinishDQ(g) \/ HandOverDQ(g) \/ StoreDKV(g)
  <2>1. PICK label : /\ Goto(g, label) /\ UNCHANGED tile
                     /\ \/ pc[g] = "q" /\ label = "s"
                        \/ pc[g] = "dv" /\ label = "dq"
                        \/ pc[g] = "dv" /\ label = "dk"
                        \/ pc[g] = "dq" /\ label = "hand"
                        \/ pc[g] = "hand" /\ label = "dk"
                        \/ pc[g] = "epilogue" /\ label = "done"
    BY <1>3 DEF WaitQ, FinishDV, FinishDQ, HandOverDQ, StoreDKV, At
  <2>2. NextGate(launch, decision, label, Place(g)) = NextGate(launch, decision, pc[g], Place(g))
    BY <2>1, Gates
  <2>3. Moved(g, label, Place(g))
    BY <1>1, <2>1, GoesTo DEF Closing
  <2>4. \A c \in CTABarriers : bar'[c] = bar[c]
    <3>1. CASE FinishDQ(g) \/ HandOverDQ(g)
      <4>1. g \in DQGroups
        BY <3>1 DEF FinishDQ, HandOverDQ, At, PlaceInv, PlaceOK
      <4>2. QED
        BY <1>1, <3>1, <4>1, Elsewhere DEF FinishDQ, HandOverDQ
    <3>2. CASE ~(FinishDQ(g) \/ HandOverDQ(g))
      BY <1>3, <3>2 DEF WaitQ, FinishDV, StoreDKV
    <3>3. QED
      BY <3>1, <3>2
  <2>5. pc[g] # "reduce"
    BY <2>1
  <2>6. QED
    BY <2>2, <2>3, <2>4, <2>5, MeetsNobody
<1>4. ASSUME NEW label, Next1(g, label)
      PROVE  NextGate(launch, decision, label, Place(g) + 1) = BeginGate(launch, Place(g) + 1)
  <2>1. CASE label = "q" /\ Place(g) + 1 < NumTiles
    <3>1. Place(g) + 1 # launch.tiles
      BY <1>1, <2>1, GroupSet DEF NumTiles
    <3>2. QED
      BY <2>1, <3>1, Gates DEF BeginGate
  <2>2. CASE label = "fill" /\ Place(g) + 1 = NumTiles
    BY <2>2, Gates DEF BeginGate, NumTiles
  <2>3. QED
    BY <1>4, <2>1, <2>2 DEF Next1
<1>5. CASE SkipTile(g)
  <2>1. pc[g] = "do" /\ rSkip[g]
    BY <1>5 DEF SkipTile, At
  <2>2. NextGate(launch, decision, pc[g], Place(g)) = BeginGate(launch, Place(g) + 1)
    <3>1. decision[Place(g) + 1]
      BY <2>1 DEF SkipInv, Decided
    <3>2. QED
      BY <2>1, <3>1, Gates
  <2>3. CASE g \in DQGroups
    <3>1. Moved(g, "mark", Place(g))
      BY <1>1, <1>5, <2>1, <2>3, GoesTo DEF SkipTile, Closing
    <3>2. \A c \in CTABarriers : bar'[c] = bar[c]
      BY <1>1, <1>5, <2>3, Elsewhere DEF SkipTile
    <3>3. NextGate(launch, decision, "mark", Place(g)) = BeginGate(launch, Place(g) + 1)
      BY Gates
    <3>4. QED
      BY <2>1, <2>2, <3>1, <3>2, <3>3, MeetsNobody
  <2>4. CASE g \notin DQGroups
    <3>1. PICK label : Next1(g, label)
      BY <1>1, <1>5, <2>1, <2>4, Releases DEF SkipTile, Closing
    <3>2. Moved(g, label, Place(g) + 1)
      BY <3>1 DEF Next1
    <3>3. \A c \in CTABarriers : bar'[c] = bar[c]
      BY <1>5, <2>4 DEF SkipTile
    <3>4. QED
      BY <1>4, <2>1, <2>2, <3>1, <3>2, <3>3, MeetsNobody
  <2>5. QED
    BY <2>3, <2>4
<1>6. CASE MarkSkipped(g) \/ FinishDK(g)
  <2>1. pc[g] \in {"mark", "dk"} /\ ReleaseQ(g)
    BY <1>6 DEF MarkSkipped, FinishDK, At
  <2>2. NextGate(launch, decision, pc[g], Place(g)) = BeginGate(launch, Place(g) + 1)
    BY <2>1, Gates
  <2>3. PICK label : Next1(g, label)
    BY <1>1, <2>1, Releases DEF Closing
  <2>4. Moved(g, label, Place(g) + 1)
    BY <2>3 DEF Next1
  <2>5. \A c \in CTABarriers : bar'[c] = bar[c]
    <3>1. CASE MarkSkipped(g)
      <4>1. g \in DQGroups
        BY <3>1 DEF MarkSkipped, At, PlaceInv, PlaceOK
      <4>2. QED
        BY <1>1, <3>1, <4>1, Elsewhere DEF MarkSkipped
    <3>2. CASE ~MarkSkipped(g)
      BY <1>6, <3>2 DEF FinishDK
    <3>3. QED
      BY <3>1, <3>2
  <2>6. QED
    BY <1>4, <2>1, <2>2, <2>3, <2>4, <2>5, MeetsNobody
<1>7. CASE KeepTile(g)
  <2>1. pc[g] = "do" /\ ~rSkip[g] /\ Goto(g, "p") /\ UNCHANGED tile
    BY <1>7 DEF KeepTile, At
  <2>2. ~decision[Place(g) + 1]
    BY <2>1 DEF SkipInv, Decided
  <2>3. CASE ~launch.rs /\ launch.stagesPdS = 1
    <3>1. NextGate(launch, decision, pc[g], Place(g)) = <<Place(g), "p">>
      BY <2>1, <2>2, <2>3, Gates
    <3>2. Sync(BarrierOf("p"), g)
      BY <1>7, <2>3, BarrierOfs DEF KeepTile
    <3>3. QED
      BY <2>1, <3>1, <3>2, MeetsAt DEF ArrivesAt, Closing
  <2>4. CASE ~(~launch.rs /\ launch.stagesPdS = 1)
    <3>1. NextGate(launch, decision, "p", Place(g)) = NextGate(launch, decision, pc[g], Place(g))
      BY <2>1, <2>2, <2>4, Gates
    <3>2. Moved(g, "p", Place(g))
      BY <1>1, <2>1, GoesTo DEF Closing
    <3>3. \A c \in CTABarriers : bar'[c] = bar[c]
      BY <1>7, <2>4 DEF KeepTile
    <3>4. QED
      BY <2>1, <3>1, <3>2, <3>3, MeetsNobody
  <2>5. QED
    BY <2>3, <2>4
<1>8. CASE WriteP(g)
  <2>1. pc[g] = "p" /\ Goto(g, "ds") /\ UNCHANGED tile
    BY <1>8 DEF WriteP, At
  <2>2. CASE ~launch.rs \/ launch.stagesPdS = 1
    <3>1. NextGate(launch, decision, pc[g], Place(g)) = <<Place(g), "ds">>
      BY <2>1, <2>2, Gates
    <3>2. Sync(BarrierOf("ds"), g)
      BY <1>8, <2>2, BarrierOfs DEF WriteP
    <3>3. QED
      BY <2>1, <3>1, <3>2, MeetsAt DEF ArrivesAt, Closing
  <2>3. CASE ~(~launch.rs \/ launch.stagesPdS = 1)
    <3>1. NextGate(launch, decision, "ds", Place(g)) = NextGate(launch, decision, pc[g], Place(g))
      BY <2>1, <2>3, Gates
    <3>2. Moved(g, "ds", Place(g))
      BY <1>1, <2>1, GoesTo DEF Closing
    <3>3. \A c \in CTABarriers : bar'[c] = bar[c]
      BY <1>8, <2>3 DEF WriteP
    <3>4. QED
      BY <2>1, <3>1, <3>2, <3>3, MeetsNobody
  <2>4. QED
    BY <2>2, <2>3
<1>9. QED
  BY <1>2, <1>3, <1>5, <1>6, <1>7, <1>8 DEF GroupStep

-----------------------------------------------------------------------------
(* Where the others are when a group is somewhere. *)

AfterDO == {"mark", "dv", "dq", "hand", "dk"}

LEMMA Back ==
    ASSUME NEW label \in Labels, NEW d, NEW t \in Nat, NEW u \in Nat, NEW L,
           NextGate(launch, d, label, t) = <<u, L>>
    PROVE  /\ L = "cast" =>
                \/ label \in {"q", "s"} /\ t = u
                \/ (label \in AfterDO \/ (label = "do" /\ d[t + 1])) /\ t + 1 = u
           /\ L = "reduce" => label = "cast" /\ t = u
           /\ L = "read" => label = "reduce" /\ t = u
           /\ L = "full" => label = "read" /\ t = u
           /\ L = "do" => label = "full" /\ t = u
           /\ L = "p" => /\ label = "do" /\ ~d[t + 1] /\ t = u
                         /\ launch.stagesPdS = 1 /\ ~launch.rs
           /\ L = "ds" => /\ t = u
                          /\ \/ label = "do" /\ ~d[t + 1] /\ (launch.stagesPdS = 1 <=> launch.rs)
                             \/ label = "p" /\ (launch.stagesPdS = 1 \/ ~launch.rs)
           /\ L = "dv" => /\ t = u
                          /\ \/ /\ label = "p" \/ (label = "do" /\ ~d[t + 1])
                                /\ launch.stagesPdS # 1 /\ launch.rs
                             \/ label = "ds"
           /\ L = "epilogue" =>
                \/ label = "fill" /\ t = u
                \/ (label \in AfterDO \/ (label = "do" /\ d[t + 1])) /\ t + 1 = u
           /\ L = "done" => label \in {"epilogue", "done"} /\ t = u
<1>1. CASE label \in {"q", "s", "cast", "reduce", "read", "full", "fill", "epilogue", "done"}
  BY <1>1, Gates
<1>2. CASE label \in AfterDO
  BY <1>2, Gates DEF BeginGate, AfterDO
<1>3. CASE label = "do" /\ d[t + 1]
  BY <1>3, Gates DEF BeginGate
<1>4. CASE label = "do" /\ ~d[t + 1]
  BY <1>4, Gates
<1>5. CASE label = "p"
  BY <1>5, Gates
<1>6. CASE label = "ds"
  BY <1>6, Gates
<1>7. QED
  BY <1>1, <1>2, <1>3, <1>4, <1>5, <1>6 DEF Labels, AfterDO

LEMMA Company ==
    ASSUME TypeInv, GateInv, NEW g \in Groups, NEW h \in Groups, ~Blocked(g),
           NEW u, NEW L, NextGate(launch, decision, pc[g], Place(g)) = <<u, L>>
    PROVE  /\ Blocked(h) => pc[h] = L /\ Place(h) = u
           /\ ~Blocked(h) => NextGate(launch, decision, pc[h], Place(h)) = <<u, L>>
           /\ ProducerGate = Follows(<<u, L>>)
<1>1. Gate(g) = <<u, L>> /\ Gate(h) = Gate(g) /\ Gate(0) = Gate(g) /\ ProducerGate = Follows(Gate(0))
  BY GroupSet DEF Gate, GateInv, TypeInv
<1>2. QED
  BY <1>1 DEF Gate

(* The step a group takes from where it is. *)
LEMMA StepAt ==
    ASSUME NEW g, GroupStep(g)
    PROVE  /\ Running(g) /\ UNCHANGED launch
           /\ pc[g] = "q" => WaitQ(g)
           /\ pc[g] = "s" => FinishScores(g)
           /\ pc[g] = "cast" => CastVote(g)
           /\ pc[g] = "reduce" => ReduceVotes(g)
           /\ pc[g] = "read" => ReadVote(g)
           /\ pc[g] = "full" => AwaitProducer(g)
           /\ pc[g] = "do" => SkipTile(g) \/ KeepTile(g)
           /\ pc[g] = "mark" => MarkSkipped(g)
           /\ pc[g] = "p" => WriteP(g)
           /\ pc[g] = "ds" => WriteDS(g)
           /\ pc[g] = "dv" => FinishDV(g)
           /\ pc[g] = "dq" => FinishDQ(g)
           /\ pc[g] = "hand" => HandOverDQ(g)
           /\ pc[g] = "dk" => FinishDK(g)
           /\ pc[g] = "fill" => EnterEpilogue(g)
           /\ pc[g] = "epilogue" => StoreDKV(g)
           /\ pc[g] # "done"
BY DEF GroupStep, WaitQ, FinishScores, CastVote, ReduceVotes, ReadVote, AwaitProducer,
      SkipTile, MarkSkipped, KeepTile, WriteP, WriteDS, FinishDV, FinishDQ, HandOverDQ,
      FinishDK, EnterEpilogue, StoreDKV, At, Following

(* What a group leaves alone, by where it is. *)
LEMMA Leaves ==
    ASSUME NEW g, GroupStep(g)
    PROVE  /\ pc[g] \notin {"cast", "reduce", "read", "ds"} => words' = words
           /\ pc[g] # "p" => sP' = sP
           /\ pc[g] # "ds" => sdS' = sdS
           /\ pc[g] # "cast" => vote' = vote
           /\ pc[g] # "read" => rSkip' = rSkip /\ misread' = misread
           /\ pc[g] # "hand" => sdQ' = sdQ
           /\ pc[g] \notin {"hand", "mark"} => sdQSkip' = sdQSkip
           /\ pc[g] # "epilogue" => sKV' = sKV
           /\ pc[g] \notin {"do", "dv"} => dOempty' = dOempty
           /\ pc[g] \notin {"do", "mark", "dk"} => qTaken' = qTaken /\ tile' = tile
BY DEF GroupStep, WaitQ, FinishScores, CastVote, ReduceVotes, ReadVote, AwaitProducer,
      SkipTile, MarkSkipped, KeepTile, WriteP, WriteDS, FinishDV, FinishDQ, HandOverDQ,
      FinishDK, EnterEpilogue, StoreDKV, At,
      qVars, dOVars, memVars, pdsVars, dQVars, voteVars, dKVVars, histVars

-----------------------------------------------------------------------------
(* A step of a group: where it is, and the ring of Q. *)

LEMMA TileSteps ==
    ASSUME TypeInv, PlaceInv, NEW g \in Groups, GroupStep(g)
    PROVE  /\ \A h \in Groups \ {g} : tile'[h] = tile[h]
           /\ tile'[g] = tile[g] \/ (pc'[g] \in Closing => tile'[g] \in Tiles)
<1>1. CASE ReleaseQ(g) /\ pc[g] \in {"do", "mark", "dk"}
  BY <1>1, StepAt, Releases DEF Closing
<1>2. CASE UNCHANGED tile
  BY <1>2
<1>3. (ReleaseQ(g) /\ pc[g] \in {"do", "mark", "dk"}) \/ UNCHANGED tile
  BY StepAt, Leaves DEF SkipTile, KeepTile, MarkSkipped, FinishDK
<1>4. QED
  BY <1>1, <1>2, <1>3

LEMMA Outcomes ==
    ASSUME Extends, NEW i \in Nat
    PROVE  /\ i < Len(decision) => decision'[i + 1] = decision[i + 1]
           /\ i <= Len(decision) /\ i > 0 => decision'[i] = decision[i]
BY DEF Extends

LEMMA GroupPlaces ==
    ASSUME TypeInv, GateInv, PlaceInv, SkipInv, NEW g \in Groups, GroupStep(g)
    PROVE  PlaceInv'
<1>1. PICK label, p : Turn(g, label, p)
  BY Turns
<1>2. /\ UNCHANGED launch /\ launch \in Launches /\ ~Blocked(g) /\ Extends
      /\ Groups' = Groups /\ 0 \in Groups /\ DQGroups' = DQGroups /\ NumTiles' = NumTiles
      /\ \A x : TilesOr(x)' = TilesOr(x)
      /\ \A h \in Groups : Place(h) \in Nat
      /\ NumTiles \in Nat
  BY Turns, StepAt, Decides, GroupSet, PlaceNat, Same DEF TypeInv
<1>3. /\ pc'[g] = label /\ Place(g)' = p
      /\ \A h \in Groups \ {g} : pc'[h] = pc[h] /\ Place(h)' = Place(h)
      /\ \A h \in Groups \ {g} : tile'[h] = tile[h]
  BY <1>1, TileSteps DEF Turn, Moved
<1>4. ASSUME NEW h \in Groups \ {g} PROVE PlaceOK(h)'
  <2>1. /\ PlaceOK(h) /\ pc'[h] = pc[h] /\ Place(h)' = Place(h) /\ tile'[h] = tile[h]
        /\ Len(decision) <= Len(decision') /\ Len(decision) \in Nat /\ Len(decision') \in Nat
        /\ Place(h) < Len(decision) => decision'[Place(h) + 1] = decision[Place(h) + 1]
    BY <1>2, <1>3, Outcomes DEF PlaceInv, Extends
  <2>2. QED
    BY <1>2, <2>1 DEF PlaceOK, KeptAt, Decided
<1>5. PlaceOK(g)'
  <2>1. /\ PlaceOK(g) /\ Place(g) \in Nat
        /\ Len(decision) <= Len(decision') /\ Len(decision) \in Nat /\ Len(decision') \in Nat
        /\ Place(g) < Len(decision) => decision'[Place(g) + 1] = decision[Place(g) + 1]
    BY <1>2, Outcomes DEF PlaceInv, Extends
  <2>2. label \notin Closing => tile'[g] < NumTiles
    <3>1. label \notin Closing => p < NumTiles
      BY <1>1, <2>1 DEF Turn, Next1, PlaceOK, Place, Closing
    <3>2. label \notin Closing => tile'[g] = p
      BY <1>3 DEF Place
    <3>3. QED
      BY <3>1, <3>2
  <2>3. label \in Closing => tile'[g] \in TilesOr(0)
    <3>1. CASE tile'[g] = tile[g]
      <4>1. tile[g] \in Nat /\ (pc[g] \notin Closing => tile[g] \in Tiles)
        <5>1. tile[g] \in Nat
          BY DEF TypeInv
        <5>2. pc[g] \notin Closing => tile[g] < NumTiles
          BY <2>1 DEF PlaceOK
        <5>3. QED
          BY <1>2, <5>1, <5>2 DEF Tiles
      <4>2. QED
        BY <2>1, <3>1, <4>1 DEF PlaceOK, TilesOr
    <3>2. CASE tile'[g] # tile[g]
      BY <1>3, <3>2, TileSteps DEF TilesOr
    <3>3. QED
      BY <3>1, <3>2
  <2>4. label \in {"mark", "dq", "hand"} => g \in DQGroups
    BY <1>1, <2>1 DEF Turn, Next1, PlaceOK
  <2>5. pc[g] \in Decided \union {"read"} => Place(g) < Len(decision)
    <3>1. CASE pc[g] = "read"
      <4>1. NextGate(launch, decision, pc[g], Place(g)) = <<Place(g), "full">>
        BY <3>1, Gates
      <4>2. Place(0) = Place(g) /\ pc[0] \in {"read", "full"}
        <5>1. /\ Blocked(0) => pc[0] = "full" /\ Place(0) = Place(g)
              /\ ~Blocked(0) => NextGate(launch, decision, pc[0], Place(0)) = <<Place(g), "full">>
          BY <1>2, <4>1, Company
        <5>2. pc[0] \in Labels
          BY <1>2 DEF TypeInv
        <5>3. QED
          BY <1>2, <5>1, <5>2, Back
      <4>3. QED
        BY <1>2, <2>1, <4>2 DEF PlaceInv, Decided
    <3>2. CASE pc[g] \in Decided
      BY <2>1, <3>2 DEF PlaceOK
    <3>3. QED
      BY <3>1, <3>2
  <2>6. p <= Len(decision')
    BY <1>1, <2>1, <2>5 DEF Turn, PlaceOK, Decided
  <2>7. label \in Decided => p < Len(decision')
    BY <1>1, <2>1, <2>5 DEF Turn, Next1, Decided
  <2>8. label \in KeptAt => ~decision'[p + 1]
    <3>1. CASE pc[g] = "do"
      <4>1. KeepTile(g) \/ SkipTile(g)
        BY <3>1, StepAt
      <4>2. rSkip[g] = decision[Place(g) + 1] /\ Place(g) < Len(decision)
        BY <2>5, <3>1 DEF SkipInv, Decided
      <4>3. CASE KeepTile(g)
        <5>1. p = Place(g)
          BY <1>2, <1>3, <4>3, <3>1, GoesTo DEF KeepTile, Moved, Closing
        <5>2. QED
          BY <2>1, <4>2, <4>3, <5>1 DEF KeepTile
      <4>4. CASE SkipTile(g)
        <5>1. pc'[g] \in {"mark", "q", "fill"}
          <6>1. pc' = [pc EXCEPT ![g] = "mark"] \/ pc' = [pc EXCEPT ![g] = "q"]
                \/ pc' = [pc EXCEPT ![g] = "fill"]
            BY <4>4 DEF SkipTile, ReleaseQ, Goto
          <6>2. QED
            BY <6>1 DEF TypeInv
        <5>2. QED
          BY <1>3, <5>1 DEF KeptAt
      <4>5. QED
        BY <4>1, <4>3, <4>4
    <3>2. CASE pc[g] # "do"
      <4>1. label \in KeptAt => pc[g] \in KeptAt /\ p = Place(g)
        BY <1>1, <3>2 DEF Turn, Next1, KeptAt
      <4>2. QED
        BY <2>1, <4>1 DEF PlaceOK, KeptAt, Decided
    <3>3. QED
      BY <3>1, <3>2
  <2>9. label = "mark" => decision'[p + 1]
    <3>1. label = "mark" => pc[g] = "do" /\ p = Place(g)
      BY <1>1 DEF Turn, Next1
    <3>2. ASSUME label = "mark" PROVE rSkip[g]
      <4>1. SkipTile(g) \/ KeepTile(g)
        BY <3>1, <3>2, StepAt
      <4>2. CASE KeepTile(g)
        <5>1. pc' = [pc EXCEPT ![g] = "p"]
          BY <4>2 DEF KeepTile, Goto
        <5>2. QED
          BY <1>3, <3>2, <5>1 DEF TypeInv
      <4>3. QED
        BY <4>1, <4>2 DEF SkipTile
    <3>3. QED
      BY <2>1, <2>5, <3>1, <3>2 DEF SkipInv, Decided
  <2>10. QED
    BY <1>2, <1>3, <2>2, <2>3, <2>4, <2>6, <2>7, <2>8, <2>9 DEF PlaceOK
<1>6. Len(decision') = Place(0)' + (IF pc'[0] \in Decided \union {"read"} THEN 1 ELSE 0)
  <2>1. /\ Len(decision) = Place(0) + (IF pc[0] \in Decided \union {"read"} THEN 1 ELSE 0)
        /\ Place(0) \in Nat
    BY <1>2 DEF PlaceInv
  <2>2. CASE g # 0
    <3>1. decision' = decision /\ pc'[0] = pc[0] /\ Place(0)' = Place(0)
      BY <1>2, <1>3, <2>2, Decides
    <3>2. QED
      BY <2>1, <3>1
  <2>3. CASE g = 0 /\ pc[0] = "reduce"
    <3>1. label = "read" /\ p = Place(0)
      BY <1>1, <2>3 DEF Turn, Next1
    <3>2. ReduceVotes(0)
      BY <2>3, StepAt
    <3>3. decision' = Append(decision, \A w \in Groups : vote[w])
      BY <3>2 DEF ReduceVotes
    <3>4. Len(decision') = Len(decision) + 1
      BY <3>3, Appends DEF TypeInv
    <3>5. QED
      BY <1>3, <2>1, <2>3, <3>1, <3>4 DEF Decided
  <2>4. CASE g = 0 /\ pc[0] # "reduce"
    <3>1. decision' = decision
      BY <2>4, Decides
    <3>2. \/ /\ p = Place(0) /\ label \in Decided \union {"read"}
             /\ pc[0] \in Decided \union {"read"}
          \/ /\ p = Place(0) /\ label \notin Decided \union {"read"}
             /\ pc[0] \notin Decided \union {"read"}
          \/ p = Place(0) + 1 /\ label \notin Decided \union {"read"} /\ pc[0] \in Decided
      BY <1>1, <2>4 DEF Turn, Next1, Decided
    <3>3. QED
      BY <1>3, <2>1, <2>4, <3>1, <3>2
  <2>5. QED
    BY <2>2, <2>3, <2>4
<1>7. QED
  BY <1>2, <1>4, <1>5, <1>6 DEF PlaceInv

LEMMA GroupTakesQ ==
    ASSUME TypeInv, PlaceInv, QInv, NEW g \in Groups, GroupStep(g)
    PROVE  QInv'
<1>1. PICK label, p : Turn(g, label, p)
  BY Turns
<1>2. /\ UNCHANGED <<launch, qNext, dONext, ppc, qLanded>>
      /\ Groups' = Groups /\ NumTiles' = NumTiles /\ Place(g) \in Nat
      /\ qTaken \in [Groups -> Nat] /\ qNext \in Nat
  BY Frames, Same, PlaceNat DEF TypeInv, GroupFrame
<1>3. /\ pc'[g] = label /\ Place(g)' = p
      /\ \A h \in Groups \ {g} : pc'[h] = pc[h] /\ Place(h)' = Place(h)
  BY <1>1 DEF Turn, Moved
<1>4. /\ qTaken'[g] = p /\ \A h \in Groups \ {g} : qTaken'[h] = qTaken[h]
  <2>1. CASE ReleaseQ(g) /\ pc[g] \in {"do", "mark", "dk"}
    <3>1. /\ \E other \in {"q", "fill"} : Next1(g, other)
          /\ qTaken' = [qTaken EXCEPT ![g] = @ + 1]
      BY <1>2, <2>1, Releases DEF Closing
    <3>2. p = Place(g) + 1
      BY <1>3, <3>1 DEF Next1, Moved
    <3>3. QED
      BY <1>2, <3>1, <3>2 DEF QInv
  <2>2. CASE UNCHANGED <<tile, qTaken>> /\ pc[g] \notin {"q", "fill"}
             /\ \E other \in {"mark", "p"} : pc[g] = "do" /\ Goto(g, other)
    <3>1. p = Place(g)
      BY <1>2, <1>3, <2>2, GoesTo DEF Moved, Closing
    <3>2. QED
      BY <2>2, <3>1 DEF QInv
  <2>3. CASE pc[g] \notin {"do", "mark", "dk"}
    <3>1. p = Place(g) /\ qTaken' = qTaken
      BY <1>1, <2>3, Leaves DEF Turn
    <3>2. QED
      BY <3>1 DEF QInv
  <2>4. \/ ReleaseQ(g) /\ pc[g] \in {"do", "mark", "dk"}
        \/ /\ UNCHANGED <<tile, qTaken>> /\ pc[g] \notin {"q", "fill"}
           /\ \E other \in {"mark", "p"} : pc[g] = "do" /\ Goto(g, other)
        \/ pc[g] \notin {"do", "mark", "dk"}
    BY StepAt DEF SkipTile, KeepTile, MarkSkipped, FinishDK, qVars
  <2>5. QED
    BY <2>1, <2>2, <2>3, <2>4
<1>5. label \in Voting \union Decided => p < qNext
  <2>1. CASE label = "s"
    <3>1. pc[g] = "q" /\ p = Place(g)
      BY <1>1, <2>1 DEF Turn, Next1
    <3>2. tile[g] \in qLanded
      BY <3>1, StepAt DEF WaitQ
    <3>3. Place(g) = tile[g]
      BY <3>1 DEF Place, Closing
    <3>4. QED
      BY <1>2, <3>1, <3>2, <3>3 DEF QInv
  <2>2. CASE label # "s"
    <3>1. label \in Voting \union Decided => pc[g] \in Voting \union Decided /\ p = Place(g)
      BY <1>1, <2>2 DEF Turn, Next1, Voting, Decided
    <3>2. QED
      BY <3>1 DEF QInv
  <2>3. QED
    BY <2>1, <2>2
<1>6. QED
  BY <1>2, <1>3, <1>4, <1>5 DEF QInv

-----------------------------------------------------------------------------
(* A step of a group: the pipeline of dO. *)

LEMMA ProducerAt ==
    ASSUME TypeInv, BarInv, NEW v, NEW X, ProducerGate = <<v, X>>
    PROVE  /\ X = "full" => \/ ppc \in {"q", "vote"} /\ ~Blocked(Producer) /\ dONext = v
                            \/ ppc = "read" /\ Blocked(Producer) /\ dONext = v
                            \/ ppc \in {"acquire", "load"} /\ ~Blocked(Producer) /\ dONext + 1 = v
           /\ X = "do" => /\ dONext = v
                          /\ \/ ppc = "read" /\ ~Blocked(Producer)
                             \/ ppc = "acquire" /\ Blocked(Producer)
<1>1. CASE Blocked(Producer)
  <2>1. ppc \in {"read", "acquire"}
    BY <1>1 DEF Blocked, BarInv
  <2>2. QED
    BY <1>1, <2>1 DEF ProducerGate
<1>2. CASE ~Blocked(Producer)
  BY <1>2 DEF ProducerGate, NextProducerGate, TypeInv
<1>3. QED
  BY <1>1, <1>2

LEMMA DOPhase ==
    ASSUME TypeInv, DOFullInv
    PROVE  /\ dOfull.phase \in {dONext - 1, dONext, dONext + 1} /\ dOfull.phase \in Nat
           /\ ppc = "load" => \/ dOfull.phase = dONext /\ ~pskip
                              \/ dOfull.phase = dONext + 1 /\ pskip
           /\ ppc # "load" => \/ dOfull.phase = dONext
                              \/ dOfull.phase = dONext - 1 /\ dONext > 0
<1>1. dONext \in Nat
  BY DEF TypeInv
<1>2. CASE /\ dOfull = [phase |-> dONext + (IF ppc = "load" THEN 1 ELSE 0), pending |-> 1, tx |-> 0]
           /\ ppc = "load" => pskip
  BY <1>1, <1>2
<1>3. CASE ppc = "load" /\ ~pskip /\ dOfull = [phase |-> dONext, pending |-> 0, tx |-> 1]
  BY <1>1, <1>3
<1>4. CASE /\ ppc # "load" /\ dONext > 0
           /\ dOfull = [phase |-> dONext - 1, pending |-> 0, tx |-> 1]
  BY <1>1, <1>4
<1>5. QED
  BY <1>2, <1>3, <1>4 DEF DOFullInv

(* The buffer of dO is never more than one tile ahead of the groups. *)
LEMMA Ahead ==
    ASSUME TypeInv, DOFullInv, DOEmptyInv
    PROVE  dOfull.phase <= dOempty.phase + 1
<1>1. /\ dONext \in Nat /\ dOempty.phase \in Nat
      /\ dONext <= dOempty.phase + (IF ppc = "load" THEN 0 ELSE 1)
  BY DEF TypeInv, DOEmptyInv
<1>2. QED
  BY <1>1, DOPhase

LEMMA Parity ==
    ASSUME NEW t \in Nat
    PROVE  (t % 2) % 2 = t % 2 /\ (t + 1) % 2 # t % 2
OBVIOUS

(* Once a group has waited for dO of a tile it is there, unless skipped. *)
LEMMA WaitsDO ==
    ASSUME TypeInv, BarInv, GateInv, PlaceInv, DOFullInv, DOEmptyInv, OutcomeInv,
           NEW g \in Groups, ~Blocked(g), pc[g] = "do", Passed(dOfull, PhaseDO(tile[g]))
    PROVE  /\ dOfull.phase = Place(g) + 1
           /\ ~decision[Place(g) + 1] => sdO = Place(g)
<1> DEFINE t == Place(g)
<1>1. /\ t \in Nat /\ t = tile[g] /\ dONext \in Nat /\ Waited(g) = t /\ launch \in Launches
  BY PlaceNat DEF TypeInv, Place, Closing, Waited, KeptAt
<1>2. ProducerGate = <<t + 1, "full">>
  <2>1. ProducerGate = Follows(NextGate(launch, decision, "do", t))
    <3>1. CASE decision[t + 1]
      <4>1. NextGate(launch, decision, "do", t) = BeginGate(launch, t + 1)
        BY <3>1, Gates
      <4>2. QED
        BY <4>1, Company DEF BeginGate
    <3>2. CASE ~decision[t + 1]
      <4>1. \E label \in {"p", "ds", "dv"} : NextGate(launch, decision, "do", t) = <<t, label>>
        BY <3>2, Gates
      <4>2. QED
        BY <4>1, Company
    <3>3. QED
      BY <3>1, <3>2
  <2>2. QED
    BY <1>1, <2>1, FollowsDo
<1>3. \/ ppc \in {"q", "vote", "read"} /\ dONext = t + 1
      \/ ppc \in {"acquire", "load"} /\ dONext = t
  <2>1. \/ ppc \in {"q", "vote"} /\ dONext = t + 1
        \/ ppc = "read" /\ dONext = t + 1
        \/ ppc \in {"acquire", "load"} /\ dONext + 1 = t + 1
    BY <1>2, ProducerAt
  <2>2. QED
    BY <1>1, <2>1
<1>4. t <= dOfull.phase
  BY <1>1 DEF DOEmptyInv
<1>5. dOfull.phase # t
  <2>1. dOfull.phase % 2 # (t % 2) % 2
    BY <1>1 DEF Passed, PhaseDO
  <2>2. QED
    BY <1>1, <2>1, Parity
<1>6. dOfull.phase = t + 1
  BY <1>1, <1>3, <1>4, <1>5, DOPhase
<1>7. ASSUME ~decision[t + 1] PROVE sdO = t
  <2>1. CASE ppc = "load"
    <3>1. pskip /\ dONext = t
      BY <1>1, <1>3, <1>6, <2>1, DOPhase
    <3>2. QED
      BY <1>7, <2>1, <3>1 DEF OutcomeInv
  <2>2. CASE ppc # "load"
    <3>1. dONext = t + 1 /\ dOfull.phase = dONext
      BY <1>1, <1>3, <1>6, <2>2, DOPhase
    <3>2. /\ dOfull = [phase |-> dONext, pending |-> 1, tx |-> 0]
          /\ dONext > 0 => decision[dONext] \/ sdO = dONext - 1
      <4>1. dOfull # [phase |-> dONext - 1, pending |-> 0, tx |-> 1]
        BY <1>1, <3>1
      <4>2. QED
        BY <1>1, <2>2, <4>1 DEF DOFullInv
    <3>3. QED
      BY <1>1, <1>7, <3>1, <3>2
  <2>3. QED
    BY <2>1, <2>2
<1>8. QED
  BY <1>6, <1>7

LEMMA GroupDOFull ==
    ASSUME TypeInv, OutcomeInv, DOFullInv, NEW g \in Groups, GroupStep(g)
    PROVE  DOFullInv'
<1>1. /\ UNCHANGED <<launch, dONext, ppc, pskip, dOfull, dOflight, sdO>> /\ Extends
      /\ dONext \in Nat /\ dONext <= Len(decision)
  BY Frames, Decides DEF GroupFrame, TypeInv, OutcomeInv
<1>2. dONext > 0 => decision'[dONext] = decision[dONext]
  BY <1>1, Outcomes
<1>3. QED
  BY <1>1, <1>2 DEF DOFullInv

LEMMA GroupDOEmpty ==
    ASSUME TypeInv, BarInv, GateInv, PlaceInv, DOFullInv, DOEmptyInv, OutcomeInv,
           NEW g \in Groups, GroupStep(g)
    PROVE  DOEmptyInv'
<1>1. PICK label, p : Turn(g, label, p)
  BY Turns
<1>2. /\ UNCHANGED <<launch, dONext, ppc, dOfull>> /\ ~Blocked(g)
      /\ Groups' = Groups /\ NumGroups' = NumGroups
      /\ \A h \in Groups : Place(h) \in Nat
      /\ NumGroups \in Nat \ {0} /\ IsFiniteSet(Groups) /\ Cardinality(Groups) = NumGroups
      /\ dOfull.phase \in Nat
  BY Turns, Frames, Same, GroupSet, PlaceNat, DOPhase DEF GroupFrame, TypeInv
<1>3. /\ pc'[g] = label /\ Place(g)' = p
      /\ \A h \in Groups \ {g} : pc'[h] = pc[h] /\ Place(h)' = Place(h)
  BY <1>1 DEF Turn, Moved
<1>4. \A h \in Groups \ {g} : Released(h)' = Released(h) /\ Waited(h)' = Waited(h)
  BY <1>3 DEF Released, Waited
<1>5. pc[g] = "do" => Waited(g)' = Place(g) + 1
  BY <1>1, <1>2, <1>3 DEF Turn, Next1, Waited, KeptAt
<1>6. pc[g] # "do" => Waited(g)' = Waited(g)
  BY <1>1, <1>2, <1>3 DEF Turn, Next1, Waited, KeptAt
<1>7. pc[g] = "do" => dOfull.phase = Place(g) + 1
  <2>1. ASSUME pc[g] = "do" PROVE Passed(dOfull, PhaseDO(tile[g]))
    BY <2>1, StepAt DEF SkipTile, KeepTile
  <2>2. QED
    BY <1>2, <2>1, WaitsDO
<1>8. \A h \in Groups : Waited(h)' <= dOfull.phase
  BY <1>2, <1>4, <1>5, <1>6, <1>7 DEF DOEmptyInv
<1>9. /\ \A h \in Groups : Released(h) \in {dOempty.phase, dOempty.phase + 1}
      /\ dOempty = [phase |-> dOempty.phase, pending |-> dOempty.pending, tx |-> 0]
      /\ dOempty.phase \in Nat /\ dOempty.pending \in 1 .. NumGroups
      /\ dOempty.pending =
            NumGroups - Cardinality({h \in Groups : Released(h) = dOempty.phase + 1})
      /\ dONext <= dOempty.phase + (IF ppc = "load" THEN 0 ELSE 1)
  BY DEF DOEmptyInv
<1>10. CASE SkipTile(g) \/ FinishDV(g)
  <2>1. Released(g) = Place(g) /\ Released(g)' = Place(g) + 1
    <3>1. CASE SkipTile(g)
      <4>1. pc[g] = "do"
        BY <3>1 DEF SkipTile, At
      <4>2. pc'[g] \in {"mark", "q", "fill"}
        <5>1. pc' = [pc EXCEPT ![g] = "mark"] \/ pc' = [pc EXCEPT ![g] = "q"]
              \/ pc' = [pc EXCEPT ![g] = "fill"]
          BY <3>1 DEF SkipTile, ReleaseQ, Goto
        <5>2. QED
          BY <5>1 DEF TypeInv
      <4>3. QED
        BY <1>1, <1>3, <1>2, <4>1, <4>2 DEF Turn, Next1, Released
    <3>2. CASE FinishDV(g)
      <4>1. pc[g] = "dv"
        BY <3>2 DEF FinishDV, At
      <4>2. QED
        BY <1>1, <1>3, <1>2, <4>1 DEF Turn, Next1, Released
    <3>3. QED
      BY <1>10, <3>1, <3>2
  <2>2. dOempty' = Arrive(dOempty, NumGroups)
    BY <1>10 DEF SkipTile, FinishDV
  <2>3. Place(g) = dOempty.phase
    <3>1. Place(g) + 1 <= dOfull.phase
      <4>1. CASE pc[g] = "do"
        BY <1>2, <1>7, <4>1
      <4>2. CASE pc[g] = "dv"
        BY <4>2 DEF DOEmptyInv, Waited, KeptAt
      <4>3. QED
        BY <1>10, <4>1, <4>2 DEF SkipTile, FinishDV, At
    <3>2. dOfull.phase <= dOempty.phase + 1
      BY Ahead
    <3>3. Place(g) \in {dOempty.phase, dOempty.phase + 1}
      BY <1>9, <2>1
    <3>4. QED
      BY <1>2, <1>9, <3>1, <3>2, <3>3
  <2> DEFINE n == dOempty.phase
             R == {h \in Groups : Released(h) = n + 1}
  <2>4. n \in Nat /\ g \notin R /\ R \subseteq Groups
    BY <1>9, <2>1, <2>3
  <2>5. /\ Cardinality(R) \in Nat /\ Cardinality(R \union {g}) = Cardinality(R) + 1
        /\ Cardinality(R) + 1 <= NumGroups
        /\ Cardinality(R) + 1 = NumGroups => R \union {g} = Groups
    BY <1>2, <2>4, Crowd
  <2>6. dOempty.pending = NumGroups - Cardinality(R) /\ dOempty.tx = 0
    BY <1>9
  <2>7. \A h \in Groups : Released(h)' = n + 1 <=> h \in R \union {g}
    BY <1>4, <2>1, <2>3
  <2>8. \A h \in Groups : Released(h)' \in {n, n + 1}
    BY <1>4, <1>9, <2>1, <2>3
  <2> HIDE DEF R
  <2>9. CASE Cardinality(R) + 1 = NumGroups
    <3>1. dOempty' = [phase |-> n + 1, pending |-> NumGroups, tx |-> 0]
      <4>1. dOempty.pending - 1 = 0
        BY <1>2, <2>5, <2>6, <2>9
      <4>2. QED
        BY <2>2, <2>6, <4>1 DEF Arrive, Settle
    <3>2. \A h \in Groups : Released(h)' = n + 1
      BY <2>5, <2>7, <2>9
    <3>3. {h \in Groups : Released(h)' = n + 1 + 1} = {}
      BY <2>4, <3>2
    <3>4. Cardinality({}) = 0
      BY FS_EmptySet
    <3>5. dOempty'.phase = n + 1 /\ dOempty'.pending = NumGroups
      BY <3>1
    <3>6. dOempty'.pending =
             NumGroups' - Cardinality({h \in Groups' : Released(h)' = dOempty'.phase + 1})
      BY <1>2, <3>3, <3>4, <3>5
    <3>7. \A h \in Groups : Released(h)' \in {dOempty'.phase, dOempty'.phase + 1}
      BY <3>2, <3>5
    <3>8. dONext <= dOempty'.phase + (IF ppc = "load" THEN 0 ELSE 1)
      <4>1. dONext \in Nat
        BY DEF TypeInv
      <4>2. QED
        BY <1>9, <2>4, <3>5, <4>1
    <3>9. dOempty' = [phase |-> dOempty'.phase, pending |-> dOempty'.pending, tx |-> 0]
      BY <3>1
    <3>10. dOempty'.phase \in Nat /\ dOempty'.pending \in 1 .. NumGroups
      BY <1>2, <2>4, <3>5
    <3>11. QED
      BY <1>2, <1>8, <3>6, <3>7, <3>8, <3>9, <3>10 DEF DOEmptyInv
  <2>10. CASE Cardinality(R) + 1 # NumGroups
    <3>1. dOempty' = [phase |-> n, pending |-> dOempty.pending - 1, tx |-> 0]
      <4>1. dOempty.pending - 1 # 0
        BY <1>2, <2>5, <2>6, <2>10
      <4>2. QED
        BY <2>2, <2>6, <4>1 DEF Arrive, Settle
    <3>2. dOempty'.phase = n /\ dOempty'.pending = dOempty.pending - 1
      BY <3>1
    <3>3. {h \in Groups : Released(h)' = n + 1} = R \union {g}
      BY <2>4, <2>7
    <3>4. dOempty'.pending =
             NumGroups' - Cardinality({h \in Groups' : Released(h)' = dOempty'.phase + 1})
      <4>1. {h \in Groups' : Released(h)' = dOempty'.phase + 1} = R \union {g}
        BY <1>2, <3>2, <3>3
      <4>2. dOempty.pending - 1 = NumGroups - Cardinality(R \union {g})
        BY <1>2, <2>5, <2>6
      <4>3. QED
        BY <1>2, <3>2, <4>1, <4>2
    <3>5. dOempty' = [phase |-> dOempty'.phase, pending |-> dOempty'.pending, tx |-> 0]
      BY <3>1
    <3>6. dOempty'.phase \in Nat /\ dOempty'.pending \in 1 .. NumGroups
      BY <1>2, <2>4, <2>5, <2>6, <2>10, <3>2
    <3>7. QED
      BY <1>2, <1>8, <1>9, <2>8, <3>2, <3>4, <3>5, <3>6 DEF DOEmptyInv
  <2>11. QED
    BY <2>9, <2>10
<1>11. CASE ~(SkipTile(g) \/ FinishDV(g))
  <2>1. dOempty' = dOempty
    BY <1>11, StepAt, Leaves DEF KeepTile, dOVars
  <2>2. Released(g)' = Released(g)
    <3>1. CASE pc[g] = "do"
      <4>1. KeepTile(g)
        BY <1>11, <3>1, StepAt
      <4>2. pc'[g] = "p"
        BY <4>1 DEF KeepTile, Goto, TypeInv
      <4>3. QED
        BY <1>1, <1>2, <1>3, <3>1, <4>2 DEF Turn, Next1, Released
    <3>2. CASE pc[g] # "do"
      <4>1. pc[g] # "dv"
        BY <1>11, StepAt
      <4>2. QED
        BY <1>1, <1>2, <1>3, <3>2, <4>1 DEF Turn, Next1, Released
    <3>3. QED
      BY <3>1, <3>2
  <2>3. \A h \in Groups : Released(h)' = Released(h)
    BY <1>4, <2>2
  <2>4. {h \in Groups : Released(h)' = dOempty.phase + 1} = {h \in Groups : Released(h) = dOempty.phase + 1}
    BY <2>3
  <2>5. QED
    BY <1>2, <1>8, <1>9, <2>1, <2>3, <2>4 DEF DOEmptyInv
<1>12. QED
  BY <1>10, <1>11

-----------------------------------------------------------------------------
(* A step of a group: the words over sdS. *)

LEMMA WordsKept ==
    ASSUME TypeInv, NEW g \in Groups, GroupStep(g), NEW w \in Words, words'[w] # words[w]
    PROVE  \/ pc[g] = "cast" /\ (w = g \/ (g = 0 /\ w = Copy))
           \/ pc[g] \in {"reduce", "read"} /\ g = 0 /\ w = 0
           \/ pc[g] = "ds" /\ g = 0 /\ StagePdS(tile[g]) = 0
<1>1. pc[g] \in {"cast", "reduce", "read", "ds"}
  BY Leaves
<1>2. words \in [Words -> Words0]
  BY DEF TypeInv
<1>3. CASE pc[g] = "cast"
  BY <1>2, <1>3, StepAt DEF CastVote
<1>4. CASE pc[g] = "reduce"
  BY <1>2, <1>4, StepAt DEF ReduceVotes
<1>5. CASE pc[g] = "read"
  BY <1>2, <1>5, StepAt DEF ReadVote
<1>6. CASE pc[g] = "ds"
  BY <1>2, <1>6, StepAt DEF WriteDS
<1>7. QED
  BY <1>1, <1>3, <1>4, <1>5, <1>6

(* dO of a tile that is kept is announced before it is waited for. *)
LEMMA KeptLoaded ==
    ASSUME TypeInv, PlaceInv, DOFullInv, DOEmptyInv, OutcomeInv,
           NEW g \in Groups, pc[g] \in KeptAt
    PROVE  Place(g) < dONext
<1>1. /\ Place(g) \in Nat /\ dONext \in Nat /\ Waited(g) = Place(g) + 1
      /\ Waited(g) <= dOfull.phase /\ ~decision[Place(g) + 1]
  BY PlaceNat DEF TypeInv, Waited, DOEmptyInv, PlaceInv, PlaceOK
<1>2. CASE ppc = "load" /\ dONext = Place(g)
  BY <1>1, <1>2, DOPhase DEF OutcomeInv
<1>3. CASE ~(ppc = "load" /\ dONext = Place(g))
  BY <1>1, <1>3, DOPhase
<1>4. QED
  BY <1>2, <1>3

LEMMA GroupOutcome ==
    ASSUME TypeInv, BarInv, GateInv, PlaceInv, QInv, DOFullInv, DOEmptyInv, OutcomeInv,
           NEW g \in Groups, GroupStep(g)
    PROVE  OutcomeInv'
<1>1. /\ UNCHANGED <<launch, dONext, ppc, pskip>> /\ Extends /\ ~Blocked(g)
      /\ dONext \in Nat /\ dONext <= Len(decision) /\ Copy' = Copy /\ launch \in Launches
      /\ Place(g) \in Nat
  BY Frames, Turns, Decides, Same, PlaceNat DEF GroupFrame, TypeInv, OutcomeInv
<1>2. dONext < Len(decision) => decision'[dONext + 1] = decision[dONext + 1]
  BY <1>1, Outcomes
<1>3. Len(decision) <= Len(decision') /\ Len(decision) \in Nat /\ Len(decision') \in Nat
  BY <1>1 DEF Extends
<1>4. ASSUME ppc \in {"acquire", "load"} PROVE words'[Copy] = words[Copy]
  <2>1. Copy \in Words /\ Copy \notin Groups /\ 0 \in Groups
    BY <1>1, GroupSet
  <2>2. SUFFICES ASSUME words'[Copy] # words[Copy] PROVE FALSE
    OBVIOUS
  <2>3. \/ pc[g] = "cast" /\ g = 0
        \/ pc[g] = "ds" /\ g = 0
    BY <2>1, <2>2, WordsKept
  <2>4. CASE pc[g] = "cast"
    <3>1. NextGate(launch, decision, pc[g], Place(g)) = <<Place(g), "reduce">>
      BY <2>4, Gates
    <3>2. ProducerGate = <<Place(g), "full">>
      BY <1>1, <3>1, Company DEF Follows
    <3>3. dONext + 1 = Place(g)
      BY <1>4, <3>2, ProducerAt
    <3>4. Place(g) < qNext /\ qNext = dONext + 1
      BY <1>4, <2>4 DEF QInv, Voting
    <3>5. QED
      BY <1>1, <3>3, <3>4
  <2>5. CASE pc[g] = "ds"
    <3>1. NextGate(launch, decision, pc[g], Place(g)) = <<Place(g), "dv">>
      BY <2>5, Gates
    <3>2. ProducerGate = <<Place(g) + 1, "full">>
      BY <1>1, <3>1, Company DEF Follows
    <3>3. dONext + 1 = Place(g) + 1
      BY <1>4, <3>2, ProducerAt
    <3>4. Place(g) < dONext
      BY <2>5, KeptLoaded DEF KeptAt
    <3>5. QED
      BY <1>1, <3>3, <3>4
  <2>6. QED
    BY <2>3, <2>4, <2>5
<1>5. QED
  BY <1>1, <1>2, <1>3, <1>4 DEF OutcomeInv

(* Where the votes are counted, everybody has cast his. *)
LEMMA VotesCast ==
    ASSUME TypeInv, GateInv, VoteInv, 0 \in Groups, ~Blocked(0), pc[0] = "reduce"
    PROVE  \A w \in Groups : words[w] = Vote(vote[w])
<1>1. NextGate(launch, decision, pc[0], Place(0)) = <<Place(0), "read">> /\ Place(0) \in Nat
  BY Gates, PlaceNat
<1>2. ASSUME NEW w \in Groups PROVE words[w] = Vote(vote[w])
  <2>1. pc[w] \in Labels /\ Place(w) \in Nat
    BY PlaceNat DEF TypeInv
  <2>2. Blocked(w) => pc[w] = "read"
    BY <1>1, Company
  <2>3. ~Blocked(w) => pc[w] = "reduce"
    <3>1. ~Blocked(w) => NextGate(launch, decision, pc[w], Place(w)) = <<Place(0), "read">>
      BY <1>1, Company
    <3>2. QED
      BY <1>1, <2>1, <3>1, Back
  <2>4. Blocked(w) => w # 0
    OBVIOUS
  <2>5. QED
    BY <2>2, <2>3, <2>4 DEF VoteInv, CastOK
<1>3. QED
  BY <1>2

LEMMA GroupVotes ==
    ASSUME TypeInv, BarInv, GateInv, PlaceInv, VoteInv, NEW g \in Groups, GroupStep(g), Meets(g)
    PROVE  VoteInv'
<1>1. PICK label, p : Turn(g, label, p)
  BY Turns
<1>2. /\ UNCHANGED launch /\ launch \in Launches /\ ~Blocked(g) /\ Extends
      /\ Groups' = Groups /\ 0 \in Groups /\ Groups \subseteq Words
      /\ \A h \in Groups : Place(h) \in Nat
      /\ words \in [Words -> Words0] /\ vote \in [Groups -> BOOLEAN]
  BY Turns, StepAt, Decides, GroupSet, PlaceNat, Same DEF TypeInv
<1>3. /\ pc'[g] = label /\ Place(g)' = p
      /\ \A h \in Groups \ {g} : pc'[h] = pc[h] /\ Place(h)' = Place(h)
      /\ \A h \in Groups \ {g} : Blocked(h)' => Blocked(h)
  BY <1>1 DEF Turn, Moved, Meets
<1>4. \A h \in Groups \ {g} : vote'[h] = vote[h]
  <2>1. vote' = vote \/ \E flag : vote' = [vote EXCEPT ![g] = flag]
    BY StepAt, Leaves DEF CastVote
  <2>2. QED
    BY <1>2, <2>1
(* dS covers the votes only once nobody needs them. *)
<1>5. ASSUME pc[g] = "ds", NEW h \in Groups
      PROVE  pc[h] \in {"do", "p", "ds", "dv"} /\ (pc[h] = "do" => ~Blocked(h))
  <2>1. NextGate(launch, decision, pc[g], Place(g)) = <<Place(g), "dv">>
    BY <1>5, Gates
  <2>2. /\ Blocked(h) => pc[h] = "dv"
        /\ ~Blocked(h) => NextGate(launch, decision, pc[h], Place(h)) = <<Place(g), "dv">>
    BY <1>2, <2>1, Company
  <2>3. pc[h] \in Labels
    BY DEF TypeInv
  <2>4. ~Blocked(h) => pc[h] \in {"do", "p", "ds"}
    BY <1>2, <2>2, <2>3, Back
  <2>5. QED
    BY <2>2, <2>4
<1>6. ASSUME NEW h \in Groups PROVE CastOK(h)'
  <2>1. CASE h = g
    <3>1. CASE pc[g] = "cast"
      <4>1. PICK flag \in BOOLEAN :
              /\ vote' = [vote EXCEPT ![g] = flag]
              /\ words' = [w \in Words |->
                             IF w = g \/ (g = 0 /\ w = Copy) THEN Vote(flag) ELSE words[w]]
        BY <3>1, StepAt DEF CastVote
      <4>2. words'[g] = Vote(flag) /\ vote'[g] = flag
        BY <1>2, <4>1
      <4>3. QED
        BY <2>1, <4>2 DEF CastOK
    <3>2. CASE pc[g] = "reduce"
      <4>1. label = "read"
        BY <1>1, <3>2 DEF Turn, Next1
      <4>2. CASE g = 0
        BY <1>3, <2>1, <4>1, <4>2 DEF CastOK
      <4>3. CASE g # 0
        <5>1. words' = words /\ vote' = vote
          BY <3>2, <4>3, StepAt, Leaves DEF ReduceVotes
        <5>2. words[g] = Vote(vote[g])
          BY <3>2 DEF VoteInv, CastOK
        <5>3. QED
          BY <2>1, <5>1, <5>2 DEF CastOK
      <4>4. QED
        BY <4>2, <4>3
    <3>3. CASE pc[g] \notin {"cast", "reduce"}
      <4>1. label \notin {"reduce", "read"}
        BY <1>1, <3>3 DEF Turn, Next1
      <4>2. QED
        BY <1>3, <2>1, <4>1 DEF CastOK
    <3>4. QED
      BY <3>1, <3>2, <3>3
  <2>2. CASE h # g
    <3>1. pc'[h] = pc[h] /\ vote'[h] = vote[h] /\ (Blocked(h)' => Blocked(h))
      BY <1>3, <1>4, <2>2
    <3>2. CASE words'[h] = words[h]
      BY <3>1, <3>2 DEF VoteInv, CastOK
    <3>3. CASE words'[h] # words[h]
      <4>1. Copy \notin Groups
        BY <1>2, GroupSet
      <4>2. \/ pc[g] \in {"reduce", "read"} /\ g = 0 /\ h = 0
            \/ pc[g] = "ds"
        BY <1>2, <2>2, <3>3, <4>1, WordsKept
      <4>3. pc[g] = "ds"
        BY <2>2, <4>2
      <4>4. pc[h] \notin {"reduce", "read"}
        BY <1>5, <4>3
      <4>5. QED
        BY <3>1, <4>4 DEF CastOK
    <3>4. QED
      BY <3>2, <3>3
  <2>3. QED
    BY <2>1, <2>2
<1>7. CASE g = 0 /\ pc[0] = "reduce"
  <2>1. label = "read" /\ p = Place(0)
    BY <1>1, <1>7 DEF Turn, Next1
  <2>2. PICK votes \in [Groups -> BOOLEAN] :
          /\ \A w \in Groups : votes[w] \in AsVote(words[w])
          /\ words' = [words EXCEPT ![0] = Vote(\A w \in Groups : votes[w])]
          /\ decision' = Append(decision, \A w \in Groups : vote[w])
    BY <1>7, StepAt DEF ReduceVotes
  <2>3. \A w \in Groups : votes[w] = vote[w]
    <3>1. ASSUME NEW w \in Groups PROVE votes[w] = vote[w]
      <4>1. words[w] = Vote(vote[w]) /\ vote[w] \in BOOLEAN
        BY <1>2, <1>7, VotesCast
      <4>2. AsVote(words[w]) = {vote[w]}
        BY <4>1, Reads
      <4>3. QED
        BY <2>2, <4>2
    <3>2. QED
      BY <3>1
  <2> DEFINE all == \A w \in Groups : vote[w]
  <2>4. words'[0] = Vote(all)
    <3>1. (\A w \in Groups : votes[w]) = all
      BY <2>3
    <3>2. QED
      BY <1>2, <2>2, <3>1
  <2>5. decision'[Len(decision) + 1] = all /\ Len(decision) = Place(0)
    <3>1. decision' = Append(decision, all) /\ decision \in Seq(BOOLEAN) /\ all \in BOOLEAN
      BY <2>2 DEF TypeInv
    <3>2. Len(decision) = Place(0)
      BY <1>2, <1>7 DEF PlaceInv, Decided
    <3>3. QED
      BY <3>1, <3>2, Appends
  <2>6. QED
    BY <1>2, <1>3, <1>6, <1>7, <2>1, <2>4, <2>5 DEF VoteInv
<1>8. CASE g = 0 /\ pc[0] = "read"
  <2>1. label = "full" /\ p = Place(0)
    BY <1>1, <1>8 DEF Turn, Next1
  <2>2. PICK skip \in AsVote(words[0]) : words' = [words EXCEPT ![0] = Flag(skip)]
    BY <1>8, StepAt DEF ReadVote
  <2>3. words[0] = Vote(decision[Place(0) + 1])
    BY <1>8 DEF VoteInv
  <2>4. Place(0) < Len(decision) /\ decision[Place(0) + 1] \in BOOLEAN
    <3>1. Len(decision) = Place(0) + 1 /\ decision \in Seq(BOOLEAN)
      BY <1>8 DEF PlaceInv, TypeInv
    <3>2. QED
      BY <1>2, <3>1
  <2>5. skip = decision[Place(0) + 1]
    <3>1. AsVote(words[0]) = {decision[Place(0) + 1]}
      BY <2>3, <2>4, Reads
    <3>2. QED
      BY <2>2, <3>1
  <2>6. words'[0] = Flag(decision'[p + 1])
    BY <1>2, <2>1, <2>2, <2>4, <2>5, Outcomes
  <2>7. QED
    BY <1>2, <1>3, <1>6, <1>8, <2>1, <2>6 DEF VoteInv
<1>9. CASE ~(g = 0 /\ pc[0] \in {"reduce", "read"})
  <2>1. ASSUME pc'[0] = "read" \/ pc'[0] = "full" \/ (pc'[0] = "do" /\ Blocked(0)')
        PROVE  /\ words'[0] = words[0] /\ Place(0)' = Place(0)
               /\ decision'[Place(0) + 1] = decision[Place(0) + 1]
               /\ \/ pc'[0] = "read" /\ pc[0] = "read"
                  \/ pc'[0] = "full" /\ pc[0] = "full"
                  \/ pc'[0] = "do" /\ pc[0] = "full"
                  \/ pc'[0] = "do" /\ pc[0] = "do" /\ Blocked(0)
    <3>1. /\ Place(0)' = Place(0)
          /\ \/ pc'[0] = "read" /\ pc[0] = "read"
             \/ pc'[0] = "full" /\ pc[0] = "full"
             \/ pc'[0] = "do" /\ pc[0] = "full"
             \/ pc'[0] = "do" /\ pc[0] = "do" /\ Blocked(0)
      <4>1. CASE g = 0
        BY <1>1, <1>3, <1>9, <2>1, <4>1 DEF Turn, Next1
      <4>2. CASE g # 0
        BY <1>2, <1>3, <2>1, <4>2
      <4>3. QED
        BY <4>1, <4>2
    <3>2. words'[0] = words[0]
      <4>1. SUFFICES ASSUME words'[0] # words[0] PROVE FALSE
        OBVIOUS
      <4>2. (pc[g] = "cast" /\ g = 0) \/ pc[g] = "ds"
        <5>1. Copy # 0
          BY <1>2, GroupSet
        <5>2. QED
          BY <1>2, <1>9, <4>1, <5>1, WordsKept
      <4>3. QED
        BY <1>2, <1>5, <3>1, <4>2
    <3>3. Place(0) < Len(decision)
      BY <1>2, <3>1 DEF PlaceInv, Decided
    <3>4. QED
      BY <1>2, <3>1, <3>2, <3>3, Outcomes
  <2>2. QED
    BY <1>2, <1>6, <2>1 DEF VoteInv
<1>10. QED
  BY <1>7, <1>8, <1>9

-----------------------------------------------------------------------------
(* A step of a group: the operands. *)

LEMMA GroupParts ==
    ASSUME TypeInv, BarInv, GateInv, PlaceInv, DOFullInv, DOEmptyInv, OutcomeInv, PartsInv,
           SkipInv, NEW g \in Groups, GroupStep(g), Meets(g)
    PROVE  PartsInv'
<1>1. PICK label, p : Turn(g, label, p)
  BY Turns
<1>2. /\ UNCHANGED <<launch, sdO>> /\ launch \in Launches /\ ~Blocked(g) /\ Extends
      /\ Groups' = Groups /\ 0 \in Groups /\ Groups \subseteq Words /\ Words' = Words
      /\ \A h \in Groups : Place(h) \in Nat /\ Place(h) <= Len(decision)
      /\ words \in [Words -> Words0]
      /\ sP \in [Stages -> [Groups -> TilesOr(Garbage)]]
      /\ sdS \in [Stages -> [Groups -> TilesOr(Garbage)]]
  BY Turns, Frames, Decides, GroupSet, PlaceNat, Same DEF TypeInv, GroupFrame, PlaceInv, PlaceOK
<1>3. /\ pc'[g] = label /\ Place(g)' = p
      /\ \A h \in Groups \ {g} : pc'[h] = pc[h] /\ Place(h)' = Place(h)
      /\ \A h \in Groups \ {g} : Blocked(h)' => Blocked(h)
  BY <1>1 DEF Turn, Moved, Meets
<1>4. /\ \A t : StagePdS(t)' = StagePdS(t)
      /\ \A t \in Nat : StagePdS(t) \in Stages
      /\ pc[g] \notin Closing => /\ Place(g) = tile[g] /\ tile[g] \in TilesOr(Garbage)
                                 /\ tile[g] \in Nat
  <2>1. pc[g] \notin Closing => Place(g) = tile[g] /\ tile[g] < NumTiles /\ tile[g] \in Nat
    BY DEF Place, PlaceInv, PlaceOK, TypeInv
  <2>2. pc[g] \notin Closing => tile[g] \in Tiles
    BY <1>2, <2>1, GroupSet DEF Tiles
  <2>3. QED
    BY <1>2, <2>1, <2>2, Same, Stage, Words0s
(* P and dS of the other groups. *)
<1>5. ASSUME NEW h \in Groups, h # g \/ pc[g] # "p", NEW t \in Nat
      PROVE  sP'[StagePdS(t)][h] = sP[StagePdS(t)][h]
  <2>1. CASE sP' = sP
    BY <2>1
  <2>2. CASE sP' # sP
    <3>1. pc[g] = "p" /\ sP' = [sP EXCEPT ![StagePdS(tile[g])][g] = tile[g]]
      BY <2>2, StepAt, Leaves DEF WriteP
    <3>2. StagePdS(tile[g]) \in Stages /\ StagePdS(t) \in Stages /\ tile[g] \in TilesOr(Garbage)
      BY <1>4, <3>1 DEF Closing
    <3>3. QED
      BY <1>2, <1>5, <3>1, <3>2, Puts
  <2>3. QED
    BY <2>1, <2>2
<1>6. ASSUME NEW h \in Groups, h # g \/ pc[g] # "ds", NEW t \in Nat
      PROVE  sdS'[StagePdS(t)][h] = sdS[StagePdS(t)][h]
  <2>1. CASE sdS' = sdS
    BY <2>1
  <2>2. CASE sdS' # sdS
    <3>1. pc[g] = "ds" /\ sdS' = [sdS EXCEPT ![StagePdS(tile[g])][g] = tile[g]]
      BY <2>2, StepAt, Leaves DEF WriteDS
    <3>2. StagePdS(tile[g]) \in Stages /\ StagePdS(t) \in Stages /\ tile[g] \in TilesOr(Garbage)
      BY <1>4, <3>1 DEF Closing
    <3>3. QED
      BY <1>2, <1>6, <3>1, <3>2, Puts
  <2>3. QED
    BY <2>1, <2>2
(* The first group keeps the words as long as its dS is needed. *)
<1>7. ASSUME pc'[0] \in KeptAt \ {"p", "ds"} \/ Late(0)', g # 0 \/ pc[g] # "ds"
      PROVE  words' = words
  <2>1. ASSUME NEW w \in Words, words'[w] # words[w] PROVE FALSE
    <3>1. \/ pc[g] = "cast"
          \/ pc[g] \in {"reduce", "read"} /\ g = 0
      BY <1>7, <2>1, WordsKept
    <3>2. CASE g = 0
      <4>1. label \in {"reduce", "read", "full"}
        BY <1>1, <3>1, <3>2 DEF Turn, Next1
      <4>2. QED
        BY <1>3, <1>7, <3>2, <4>1 DEF KeptAt, Late
    <3>3. CASE g # 0
      <4>1. NextGate(launch, decision, pc[g], Place(g)) = <<Place(g), "reduce">>
        BY <3>1, <3>3, Gates
      <4>2. pc[0] \in Labels
        BY <1>2 DEF TypeInv
      <4>3. /\ Blocked(0) => pc[0] = "reduce"
            /\ ~Blocked(0) => NextGate(launch, decision, pc[0], Place(0)) = <<Place(g), "reduce">>
        BY <1>2, <4>1, Company
      <4>4. ~Blocked(0) => pc[0] = "cast"
        BY <1>2, <4>2, <4>3, Back
      <4>5. pc'[0] = pc[0] /\ (Blocked(0)' => Blocked(0))
        BY <1>2, <1>3, <3>3
      <4>6. QED
        BY <1>7, <4>3, <4>4, <4>5 DEF KeptAt, Late
    <3>4. QED
      BY <3>2, <3>3
  <2>2. words' = [w \in Words |-> words'[w]]
    BY <1>2, GroupTyped DEF TypeInv
  <2>3. QED
    BY <1>2, <2>1, <2>2
(* A tile that is kept has its dO. *)
<1>8. ASSUME pc[g] = "do", label = "p" PROVE sdO = Place(g)
  <2>1. KeepTile(g)
    <3>1. SkipTile(g) \/ KeepTile(g)
      BY <1>8, StepAt
    <3>2. ASSUME SkipTile(g) PROVE pc'[g] # "p"
      <4>1. pc' = [pc EXCEPT ![g] = "mark"] \/ pc' = [pc EXCEPT ![g] = "q"]
            \/ pc' = [pc EXCEPT ![g] = "fill"]
        BY <3>2 DEF SkipTile, ReleaseQ, Goto
      <4>2. QED
        BY <4>1 DEF TypeInv
    <3>3. QED
      BY <1>3, <1>8, <3>1, <3>2
  <2>2. ~decision[Place(g) + 1] /\ Passed(dOfull, PhaseDO(tile[g]))
    BY <1>8, <2>1 DEF KeepTile, SkipInv, Decided
  <2>3. QED
    BY <1>2, <1>8, <2>2, WaitsDO
(* The four parts, for the others and for the group. *)
<1> DEFINE Part(h) == /\ pc'[h] \in KeptAt \ {"p"} => HasP(h, Place(h))'
                      /\ pc'[h] \in KeptAt \ {"p", "ds"} => HasDS(h, Place(h))'
                      /\ LastKept(h)' => HasP(h, Place(h) - 1)' /\ HasDS(h, Place(h) - 1)'
                      /\ pc'[h] \in {"p", "ds", "dv"} => sdO' = Place(h)'
<1>9. ASSUME NEW h \in Groups \ {g} PROVE Part(h)
  <2>1. /\ pc'[h] = pc[h] /\ Place(h)' = Place(h) /\ (Late(h)' => Late(h))
        /\ Place(h) \in Nat /\ Place(h) <= Len(decision)
    BY <1>2, <1>3 DEF Late
  <2>2. LastKept(h)' => LastKept(h) /\ Late(h)'
    BY <1>2, <2>1, Outcomes DEF LastKept
  <2>3. pc'[h] \in KeptAt \ {"p"} => HasP(h, Place(h))'
    <3>1. ASSUME pc'[h] \in KeptAt \ {"p"} PROVE HasP(h, Place(h))'
      <4>1. HasP(h, Place(h))
        BY <2>1, <3>1 DEF PartsInv
      <4>2. QED
        BY <1>5, <2>1, <1>2, <1>4, <4>1 DEF HasP
    <3>2. QED
      BY <3>1
  <2>4. pc'[h] \in KeptAt \ {"p", "ds"} => HasDS(h, Place(h))'
    <3>1. ASSUME pc'[h] \in KeptAt \ {"p", "ds"} PROVE HasDS(h, Place(h))'
      <4>1. HasDS(h, Place(h))
        BY <2>1, <3>1 DEF PartsInv
      <4>2. h = 0 => words' = words
        BY <1>7, <3>1, <1>9
      <4>3. QED
        BY <1>6, <2>1, <1>2, <1>4, <4>1, <4>2 DEF HasDS, DS
    <3>2. QED
      BY <3>1
  <2>5. LastKept(h)' => HasP(h, Place(h) - 1)' /\ HasDS(h, Place(h) - 1)'
    <3>1. ASSUME LastKept(h)' PROVE HasP(h, Place(h) - 1)' /\ HasDS(h, Place(h) - 1)'
      <4>1. HasP(h, Place(h) - 1) /\ HasDS(h, Place(h) - 1) /\ Place(h) - 1 \in Nat
        BY <2>1, <2>2, <3>1 DEF PartsInv, LastKept
      <4>2. h = 0 => words' = words
        BY <1>7, <2>2, <3>1, <1>9
      <4>3. HasP(h, Place(h) - 1)'
        BY <1>5, <2>1, <1>2, <1>4, <4>1 DEF HasP
      <4>4. HasDS(h, Place(h) - 1)'
        BY <1>6, <2>1, <1>2, <1>4, <4>1, <4>2 DEF HasDS, DS
      <4>5. QED
        BY <4>3, <4>4
    <3>2. QED
      BY <3>1
  <2>6. pc'[h] \in {"p", "ds", "dv"} => sdO' = Place(h)'
    BY <1>2, <2>1 DEF PartsInv
  <2>7. QED
    BY <2>3, <2>4, <2>5, <2>6
<1>10. Part(g)
  <2>1. PartsInv /\ Place(g) \in Nat /\ Place(g) <= Len(decision)
    BY <1>2
  <2>2. ASSUME label \in KeptAt \ {"p"} PROVE HasP(g, Place(g))'
    <3>1. CASE pc[g] = "p"
      <4>1. p = Place(g) /\ Place(g) = tile[g] /\ tile[g] \in TilesOr(Garbage)
            /\ StagePdS(tile[g]) \in Stages
        BY <1>1, <1>4, <3>1 DEF Turn, Next1, Closing
      <4>2. ~launch.rs => sP' = [sP EXCEPT ![StagePdS(tile[g])][g] = tile[g]]
        BY <3>1, StepAt DEF WriteP
      <4>3. ~launch.rs => sP'[StagePdS(tile[g])][g] = tile[g]
        BY <1>2, <4>1, <4>2, Puts
      <4>4. QED
        BY <1>2, <1>3, <1>4, <4>1, <4>3 DEF HasP
    <3>2. CASE pc[g] # "p"
      <4>1. pc[g] \in KeptAt \ {"p"} /\ p = Place(g)
        BY <1>1, <2>2, <3>2 DEF Turn, Next1, KeptAt
      <4>2. HasP(g, Place(g))
        BY <4>1 DEF PartsInv
      <4>3. QED
        BY <1>2, <1>3, <1>4, <1>5, <3>2, <4>1, <4>2 DEF HasP
    <3>3. QED
      BY <3>1, <3>2
  <2>3. ASSUME label \in KeptAt \ {"p", "ds"} PROVE HasDS(g, Place(g))'
    <3>1. CASE pc[g] = "ds"
      <4>1. p = Place(g) /\ Place(g) = tile[g] /\ tile[g] \in TilesOr(Garbage)
            /\ StagePdS(tile[g]) \in Stages
        BY <1>1, <1>4, <3>1 DEF Turn, Next1, Closing
      <4>2. /\ sdS' = [sdS EXCEPT ![StagePdS(tile[g])][g] = tile[g]]
            /\ g = 0 /\ StagePdS(tile[g]) = 0 => words' = [w \in Words |-> DS(tile[g])]
        BY <3>1, StepAt DEF WriteDS
      <4>3. sdS'[StagePdS(tile[g])][g] = tile[g]
        BY <1>2, <4>1, <4>2, Puts
      <4>4. QED
        BY <1>2, <1>3, <1>4, <4>1, <4>2, <4>3 DEF HasDS, DS
    <3>2. CASE pc[g] # "ds"
      <4>1. pc[g] \in KeptAt \ {"p", "ds"} /\ p = Place(g)
        BY <1>1, <2>3, <3>2 DEF Turn, Next1, KeptAt
      <4>2. HasDS(g, Place(g))
        BY <4>1 DEF PartsInv
      <4>3. g = 0 => words' = words
        BY <1>3, <1>7, <2>3, <3>2
      <4>4. QED
        BY <1>2, <1>3, <1>4, <1>6, <3>2, <4>1, <4>2, <4>3 DEF HasDS, DS
    <3>3. QED
      BY <3>1, <3>2
  <2>4. ASSUME LastKept(g)' PROVE HasP(g, Place(g) - 1)' /\ HasDS(g, Place(g) - 1)'
    <3>1. Late(g)' /\ p > 0 /\ ~decision'[p] /\ label \in {"q", "s", "fill", "cast", "epilogue"}
      BY <1>3, <2>4 DEF LastKept, Late
    <3>2. /\ p - 1 \in Nat /\ HasP(g, p - 1) /\ HasDS(g, p - 1)
          /\ pc[g] \notin {"p", "ds"}
      <4>1. CASE pc[g] \in {"q", "s", "fill"} /\ p = Place(g)
        <5>1. ~decision[Place(g)]
          BY <1>2, <2>1, <3>1, <4>1, Outcomes
        <5>2. LastKept(g)
          BY <3>1, <4>1, <5>1 DEF LastKept, Late
        <5>3. QED
          BY <2>1, <3>1, <4>1, <5>2 DEF PartsInv
      <4>2. CASE p = Place(g) + 1 /\ pc[g] \in {"mark", "dk", "do"} /\ Next1(g, label)
        <5>1. Place(g) < Len(decision)
          BY <4>2 DEF PlaceInv, PlaceOK, Decided
        <5>2. ~decision[Place(g) + 1]
          BY <1>2, <2>1, <3>1, <4>2, <5>1, Outcomes
        <5>3. pc[g] # "mark"
          BY <5>2 DEF PlaceInv, PlaceOK
        <5>4. pc[g] # "do"
          <6>1. SUFFICES ASSUME pc[g] = "do" PROVE FALSE
            OBVIOUS
          <6>2. ~rSkip[g]
            BY <5>2, <6>1 DEF SkipInv, Decided
          <6>3. KeepTile(g)
            BY <6>1, <6>2, StepAt DEF SkipTile
          <6>4. pc'[g] = "p"
            BY <6>3 DEF KeepTile, Goto, TypeInv
          <6>5. QED
            BY <1>3, <3>1, <6>4
        <5>5. HasP(g, Place(g)) /\ HasDS(g, Place(g)) /\ pc[g] = "dk"
          BY <4>2, <5>3, <5>4 DEF PartsInv, KeptAt
        <5>6. QED
          BY <2>1, <4>2, <5>5
      <4>3. QED
        BY <1>1, <3>1, <4>1, <4>2 DEF Turn
    <3>3. g = 0 => words' = words
      BY <1>7, <3>1, <3>2
    <3>4. Place(g)' - 1 = p - 1
      BY <1>3
    <3>5. HasP(g, Place(g) - 1)'
      BY <1>2, <1>4, <1>5, <3>2, <3>4 DEF HasP
    <3>6. HasDS(g, Place(g) - 1)'
      BY <1>2, <1>4, <1>6, <3>2, <3>3, <3>4 DEF HasDS, DS
    <3>7. QED
      BY <3>5, <3>6
  <2>5. ASSUME label \in {"p", "ds", "dv"} PROVE sdO' = Place(g)'
    <3>1. p = Place(g) /\ pc[g] \in {"do", "p", "ds"} /\ (pc[g] = "do" => label = "p")
      BY <1>1, <2>5 DEF Turn, Next1
    <3>2. QED
      BY <1>2, <1>3, <1>8, <3>1 DEF PartsInv
  <2>6. QED
    BY <1>3, <2>2, <2>3, <2>4, <2>5
(* K and V are there until the end. *)
<1>11. ASSUME ~sKV', NEW h \in Groups PROVE pc'[h] \in {"epilogue", "done"}
  <2>1. pc[h] \in {"epilogue", "done"}
    <3>1. CASE ~sKV
      BY <3>1 DEF PartsInv
    <3>2. CASE sKV
      <4>1. pc[g] = "epilogue"
        BY <1>11, <3>2, Leaves
      <4>2. NextGate(launch, decision, pc[g], Place(g)) = <<Place(g), "done">>
        BY <4>1, Gates
      <4>3. pc[h] \in Labels
        BY DEF TypeInv
      <4>4. /\ Blocked(h) => pc[h] = "done"
            /\ ~Blocked(h) => NextGate(launch, decision, pc[h], Place(h)) = <<Place(g), "done">>
        BY <1>2, <4>2, Company
      <4>5. QED
        BY <1>2, <4>3, <4>4, Back
    <3>3. QED
      BY <3>1, <3>2
  <2>2. CASE h = g
    BY <1>1, <1>3, <2>1, <2>2 DEF Turn, Next1
  <2>3. CASE h # g
    BY <1>3, <2>1, <2>3
  <2>4. QED
    BY <2>2, <2>3
<1>12. QED
  <2>1. \A h \in Groups : Part(h)
    BY <1>9, <1>10
  <2> HIDE DEF Part
  <2>2. ASSUME NEW h \in Groups
        PROVE  /\ pc'[h] \in KeptAt \ {"p"} => HasP(h, Place(h))'
               /\ pc'[h] \in KeptAt \ {"p", "ds"} => HasDS(h, Place(h))'
               /\ LastKept(h)' => HasP(h, Place(h) - 1)' /\ HasDS(h, Place(h) - 1)'
               /\ pc'[h] \in {"p", "ds", "dv"} => sdO' = Place(h)'
               /\ ~sKV' => pc'[h] \in {"epilogue", "done"}
    BY <1>11, <2>1 DEF Part
  <2>3. QED
    BY <1>2, <2>2 DEF PartsInv, KeptAt

-----------------------------------------------------------------------------
(* The barriers of the dQ buffers. *)

LEMMA Two ==
    ASSUME NEW g
    PROVE  NumberOfThreads(dQFull(g)) = 2 /\ NumberOfThreads(dQEmpty(g)) = 2
BY DEF NumberOfThreads, dQFull, dQEmpty, dOLoadFull, dOLoadEmpty, Softmax, PdS, Epilogue

LEMMA TwoSync ==
    ASSUME NEW b \in Barriers, bar = [c \in Barriers |-> bar[c]], NumberOfThreads(b) = 2,
           NEW x \in Nat, NEW y \in Nat, NEW actor, Between(b, x, y, actor),
           actor \notin bar[b].blocked, Sync(b, actor)
    PROVE  /\ \A c \in Barriers \ {b} : bar'[c] = bar[c]
           /\ \/ x = y /\ bar'[b] = [count |-> 1, blocked |-> {actor}]
              \/ x = y + 1 /\ bar'[b] = NoOne
<1>1. /\ \A c \in Barriers \ {b} : bar'[c] = bar[c]
      /\ bar'[b] = BarrierSync(bar[b], actor, 2)
  BY DEF Sync
<1>2. CASE x = y /\ bar[b] = NoOne
  <2>1. bar[b].count = 0 /\ bar[b].blocked = {} /\ {} \union {actor} = {actor}
    BY <1>2 DEF NoOne
  <2>2. bar'[b] = [count |-> 1, blocked |-> {actor}]
    BY <1>1, <2>1 DEF BarrierSync
  <2>3. QED
    BY <1>1, <1>2, <2>2
<1>3. CASE x = y + 1 /\ bar[b] = [count |-> 1, blocked |-> {}]
  BY <1>1, <1>3 DEF BarrierSync
<1>4. QED
  BY <1>1, <1>2, <1>3 DEF Between

LEMMA TwoArrive ==
    ASSUME NEW b \in Barriers, bar = [c \in Barriers |-> bar[c]], NumberOfThreads(b) = 2,
           NEW x \in Nat, NEW y \in Nat, NEW actor, Between(b, x, y, actor), x <= y, ArriveOn(b)
    PROVE  /\ \A c \in Barriers \ {b} : bar'[c] = bar[c]
           /\ \/ x = y /\ bar'[b] = [count |-> 1, blocked |-> {}]
              \/ y = x + 1 /\ bar'[b] = NoOne
<1>1. /\ \A c \in Barriers \ {b} : bar'[c] = bar[c]
      /\ bar'[b] = BarrierArrive(bar[b], 2)
  BY DEF ArriveOn
<1>2. CASE x = y /\ bar[b] = NoOne
  BY <1>1, <1>2 DEF BarrierArrive, NoOne
<1>3. CASE y = x + 1 /\ bar[b] = [count |-> 1, blocked |-> {actor}]
  BY <1>1, <1>3 DEF BarrierArrive
<1>4. QED
  BY <1>1, <1>2, <1>3 DEF Between

LEMMA Counts ==
    ASSUME TypeInv, NEW g \in DQGroups
    PROVE  /\ Freed(g) \in Nat /\ Asked(g) \in Nat /\ Handed(g) \in Nat /\ Taken(g) \in Nat
           /\ Added(g) \in Nat /\ Place(g) \in Nat
           /\ Freed(g) <= Added(g) + 1 /\ Added(g) <= Taken(g)
           /\ Handed(g) <= Asked(g) /\ Asked(g) <= Handed(g) + 1
<1>1. /\ sTile \in Nat /\ sGroup \in Nat /\ g \in Nat /\ Place(g) \in Nat
      /\ spc \in {"free", "take", "add"}
  BY GroupSet, PlaceNat DEF TypeInv
<1>2. Freed(g) \in {sTile, sTile + 1} /\ Taken(g) \in {sTile, sTile + 1}
      /\ Added(g) \in {sTile, sTile + 1} /\ (Added(g) = sTile + 1 => Taken(g) = sTile + 1)
  BY <1>1 DEF Freed, Taken, Added
<1>3. Handed(g) \in {Place(g), Place(g) + 1} /\ Asked(g) \in {Place(g), Place(g) + 1}
      /\ (Handed(g) = Place(g) + 1 => Asked(g) = Place(g) + 1)
  BY <1>1 DEF Handed, Asked
<1>4. QED
  BY <1>1, <1>2, <1>3

(* A group that has the buffer of dQ is the last one to have asked for it. *)
LEMMA HasBuffer ==
    ASSUME TypeInv, DQInv, NEW g \in DQGroups, Running(g)
    PROVE  Asked(g) <= Freed(g)
<1>1. Between(dQEmpty(g), Freed(g), Asked(g), g) /\ dQEmpty(g) \in Barriers
  BY Bars DEF DQInv
<1>2. g \notin bar[dQEmpty(g)].blocked
  BY <1>1 DEF Running
<1>3. ~(bar[dQEmpty(g)] = [count |-> 1, blocked |-> {g}])
  BY <1>2
<1>4. QED
  BY <1>1, <1>3, Counts DEF Between

(* The barriers of dQ a step of a group leaves alone. *)
LEMMA DQBars ==
    ASSUME TypeInv, PlaceInv, NEW g \in Groups, GroupStep(g), NEW h \in DQGroups
    PROVE  /\ h # g \/ pc[g] \notin {"do", "dq"} => bar'[dQEmpty(h)] = bar[dQEmpty(h)]
           /\ h # g \/ pc[g] \notin {"mark", "hand"} => bar'[dQFull(h)] = bar[dQFull(h)]
<1>1. /\ bar = [c \in Barriers |-> bar[c]] /\ dQEmpty(h) \in Barriers /\ dQFull(h) \in Barriers
      /\ dQEmpty(h) \notin CTABarriers /\ dQFull(h) \notin CTABarriers
      /\ \A i : dQFull(h) # dQEmpty(i) /\ dQEmpty(h) # dQFull(i)
      /\ \A i : h # i => dQFull(h) # dQFull(i) /\ dQEmpty(h) # dQEmpty(i)
  BY Bars DEF TypeInv
<1>2. \/ UNCHANGED bar
      \/ \E b \in CTABarriers : Sync(b, g)
      \/ pc[g] \in {"do", "dq"} /\ Sync(dQEmpty(g), g)
      \/ pc[g] \in {"mark", "hand"} /\ ArriveOn(dQFull(g))
  <2>1. CASE WaitQ(g) \/ FinishDV(g) \/ FinishDK(g) \/ StoreDKV(g)
    BY <2>1 DEF WaitQ, FinishDV, FinishDK, StoreDKV
  <2>2. CASE FinishScores(g) \/ CastVote(g) \/ ReduceVotes(g) \/ ReadVote(g) \/ AwaitProducer(g)
             \/ WriteDS(g) \/ EnterEpilogue(g)
    BY <2>2 DEF FinishScores, CastVote, ReduceVotes, ReadVote, AwaitProducer, WriteDS,
       EnterEpilogue, CTABarriers
  <2>3. CASE KeepTile(g) \/ WriteP(g)
    BY <2>3 DEF KeepTile, WriteP, CTABarriers
  <2>4. CASE SkipTile(g) \/ MarkSkipped(g) \/ FinishDQ(g) \/ HandOverDQ(g)
    BY <2>4 DEF SkipTile, MarkSkipped, FinishDQ, HandOverDQ, At
  <2>5. QED
    BY <2>1, <2>2, <2>3, <2>4 DEF GroupStep
<1>3. CASE UNCHANGED bar
  BY <1>3
<1>4. CASE \E b \in CTABarriers : Sync(b, g)
  BY <1>1, <1>4 DEF Sync
<1>5. CASE pc[g] \in {"do", "dq"} /\ Sync(dQEmpty(g), g)
  BY <1>1, <1>5 DEF Sync
<1>6. CASE pc[g] \in {"mark", "hand"} /\ ArriveOn(dQFull(g))
  BY <1>1, <1>6 DEF ArriveOn
<1>7. QED
  BY <1>2, <1>3, <1>4, <1>5, <1>6

LEMMA GroupDQ ==
    ASSUME TypeInv, PlaceInv, DQInv, SkipInv, NEW g \in Groups, GroupStep(g)
    PROVE  DQInv'
<1>1. PICK label, p : Turn(g, label, p)
  BY Turns
<1>2. /\ UNCHANGED <<launch, sTile, sGroup, spc, adding>> /\ Extends /\ Running(g)
      /\ DQGroups' = DQGroups /\ NumTiles' = NumTiles /\ StoreWarp' = StoreWarp
      /\ DQGroups \subseteq Groups
      /\ sdQ \in [DQGroups -> TilesOr(Garbage)] /\ sdQSkip \in [DQGroups -> BOOLEAN]
      /\ bar = [c \in Barriers |-> bar[c]]
  BY Frames, StepAt, Decides, GroupSet, Same DEF TypeInv, GroupFrame
<1>3. /\ pc'[g] = label /\ Place(g)' = p
      /\ \A h \in Groups \ {g} : pc'[h] = pc[h] /\ Place(h)' = Place(h)
  BY <1>1 DEF Turn, Moved
<1>4. ASSUME NEW h \in DQGroups
      PROVE  Freed(h)' = Freed(h) /\ Taken(h)' = Taken(h) /\ Added(h)' = Added(h)
  BY <1>2 DEF Freed, Taken, Added
(* A handed over tile has its outcome. *)
<1>5. ASSUME NEW h \in DQGroups, Handed(h) > 0
      PROVE  decision'[Handed(h)] = decision[Handed(h)]
  <2>1. Handed(h) <= Len(decision)
    <3>1. Place(h) \in Nat /\ PlaceOK(h) /\ Len(decision) \in Nat
      BY <1>2, Counts DEF PlaceInv, Extends
    <3>2. QED
      BY <3>1 DEF PlaceOK, Handed, Decided
  <2>2. QED
    BY <1>2, <1>5, <2>1, Counts, Outcomes
<1> DEFINE OneDQ(h) == /\ Between(dQEmpty(h), Freed(h), Asked(h), h)
                       /\ Between(dQFull(h), Handed(h), Taken(h), StoreWarp)
                       /\ Handed(h) <= Freed(h) /\ Added(h) <= Handed(h)
                       /\ Handed(h) > 0 => /\ sdQSkip[h] = decision[Handed(h)]
                                           /\ ~decision[Handed(h)] => sdQ[h] = Handed(h) - 1
                       /\ adding[h] # None => /\ Freed(h) = Handed(h)
                                              /\ adding[h] = Handed(h) - 1
                                              /\ sdQ[h] = adding[h]
<1>6. \A h \in DQGroups : OneDQ(h)
  BY DEF DQInv
<1>7. ASSUME NEW h \in DQGroups,
             h # g \/ pc[g] \notin {"do", "dq", "mark", "hand"},
             Asked(h)' = Asked(h), Handed(h)' = Handed(h)
      PROVE  OneDQ(h)'
  <2>1. bar'[dQEmpty(h)] = bar[dQEmpty(h)] /\ bar'[dQFull(h)] = bar[dQFull(h)]
    BY <1>7, DQBars
  <2>2. sdQ'[h] = sdQ[h] /\ sdQSkip'[h] = sdQSkip[h]
    <3>1. /\ \/ sdQ' = sdQ
             \/ pc[g] = "hand" /\ sdQ' = [sdQ EXCEPT ![g] = tile[g]]
          /\ \/ sdQSkip' = sdQSkip
             \/ pc[g] \in {"hand", "mark"} /\ \E f : sdQSkip' = [sdQSkip EXCEPT ![g] = f]
      BY StepAt, Leaves DEF HandOverDQ, MarkSkipped
    <3>2. QED
      BY <1>2, <1>7, <3>1
  <2>3. OneDQ(h)
    BY <1>6
  <2>4. Between(dQEmpty(h), Freed(h), Asked(h), h)'
    BY <1>2, <1>4, <1>7, <2>1, <2>3 DEF Between, dQEmpty
  <2>5. Between(dQFull(h), Handed(h), Taken(h), StoreWarp)'
    BY <1>2, <1>4, <1>7, <2>1, <2>3 DEF Between, dQFull
  <2>6. QED
    BY <1>2, <1>4, <1>5, <1>7, <2>2, <2>3, <2>4, <2>5
<1>8. ASSUME NEW h \in DQGroups, h # g PROVE OneDQ(h)'
  <2>1. Asked(h)' = Asked(h) /\ Handed(h)' = Handed(h)
    BY <1>2, <1>3, <1>8 DEF Asked, Handed
  <2>2. QED
    BY <1>7, <1>8, <2>1
<1>9. ASSUME g \in DQGroups PROVE OneDQ(g)'
  <2>1. /\ OneDQ(g) /\ Asked(g) <= Freed(g)
        /\ Freed(g) \in Nat /\ Asked(g) \in Nat /\ Handed(g) \in Nat /\ Taken(g) \in Nat
        /\ Added(g) \in Nat /\ Place(g) \in Nat
        /\ Freed(g) <= Added(g) + 1 /\ Added(g) <= Taken(g)
    BY <1>2, <1>6, <1>9, HasBuffer, Counts
  <2>2. dQEmpty(g) \in Barriers /\ dQFull(g) \in Barriers
    BY <1>9, Bars
  (* Ask for the buffer. *)
  <2>3. CASE pc[g] \in {"do", "dq"} /\ label \in {"mark", "hand"} /\ Sync(dQEmpty(g), g)
    <3>1. p = Place(g)
      BY <1>1, <2>3 DEF Turn, Next1
    <3>2. Asked(g) = Place(g) /\ Asked(g)' = Place(g) + 1 /\ Handed(g)' = Handed(g)
      BY <1>3, <2>1, <2>3, <3>1 DEF Asked, Handed
    <3>3. g \notin bar[dQEmpty(g)].blocked
      BY <1>2, <2>2 DEF Running
    <3>4. \/ Freed(g) = Asked(g) /\ bar'[dQEmpty(g)] = [count |-> 1, blocked |-> {g}]
          \/ Freed(g) = Asked(g) + 1 /\ bar'[dQEmpty(g)] = NoOne
      BY <1>2, <2>1, <2>2, <2>3, <3>3, Two, TwoSync
    <3>5. Between(dQEmpty(g), Freed(g), Asked(g), g)'
      <4>1. Freed(g)' = Freed(g) /\ Asked(g)' = Asked(g) + 1
        BY <1>4, <1>9, <3>2
      <4>2. QED
        BY <2>1, <3>4, <4>1 DEF Between, dQEmpty
    <3>6. bar'[dQFull(g)] = bar[dQFull(g)]
      BY <1>9, <2>3, DQBars
    <3>7. Between(dQFull(g), Handed(g), Taken(g), StoreWarp)'
      BY <1>2, <1>4, <1>9, <2>1, <3>2, <3>6 DEF Between, dQFull
    <3>8. sdQ' = sdQ /\ sdQSkip' = sdQSkip
      BY <2>3, Leaves
    <3>9. QED
      BY <1>2, <1>4, <1>5, <1>9, <2>1, <3>2, <3>5, <3>7, <3>8
  (* Hand it over. *)
  <2>4. CASE pc[g] \in {"mark", "hand"}
    <3>1. /\ Handed(g) = Place(g) /\ Handed(g)' = Place(g) + 1
          /\ Asked(g) = Place(g) + 1 /\ Asked(g)' = Asked(g)
      <4>1. Handed(g) = Place(g) /\ Asked(g) = Place(g) + 1
        BY <2>1, <2>4 DEF Handed, Asked
      <4>2. CASE pc[g] = "mark"
        <5>1. p = Place(g) + 1 /\ label \in {"q", "fill"}
          BY <1>1, <4>2 DEF Turn, Next1
        <5>2. QED
          BY <1>3, <2>1, <4>1, <5>1 DEF Handed, Asked
      <4>3. CASE pc[g] = "hand"
        <5>1. p = Place(g) /\ label = "dk"
          BY <1>1, <4>3 DEF Turn, Next1
        <5>2. QED
          BY <1>3, <2>1, <4>1, <5>1 DEF Handed, Asked
      <4>4. QED
        BY <2>4, <4>2, <4>3
    <3>2. Handed(g) + 1 <= Freed(g) /\ Handed(g) <= Taken(g)
      BY <2>1, <3>1
    <3>3. ArriveOn(dQFull(g))
      BY <2>4, StepAt DEF MarkSkipped, HandOverDQ
    <3>4. \/ Handed(g) = Taken(g) /\ bar'[dQFull(g)] = [count |-> 1, blocked |-> {}]
          \/ Taken(g) = Handed(g) + 1 /\ bar'[dQFull(g)] = NoOne
      BY <1>2, <2>1, <2>2, <3>2, <3>3, Two, TwoArrive
    <3>5. Between(dQFull(g), Handed(g), Taken(g), StoreWarp)'
      <4>1. Taken(g)' = Taken(g) /\ Handed(g)' = Handed(g) + 1
        BY <1>4, <1>9, <3>1
      <4>2. QED
        BY <2>1, <3>4, <4>1 DEF Between, dQFull
    <3>6. Between(dQEmpty(g), Freed(g), Asked(g), g)'
      <4>1. bar'[dQEmpty(g)] = bar[dQEmpty(g)]
        BY <1>9, <2>4, DQBars
      <4>2. QED
        BY <1>4, <1>9, <2>1, <3>1, <4>1 DEF Between, dQEmpty
    <3>7. adding[g] = None
      BY <2>1, <3>2
    <3>8. /\ sdQSkip'[g] = decision'[Place(g) + 1]
          /\ ~decision'[Place(g) + 1] => sdQ'[g] = Place(g)
      <4>1. /\ decision'[Place(g) + 1] = decision[Place(g) + 1]
            /\ pc[g] = "mark" => decision[Place(g) + 1]
            /\ pc[g] = "hand" => ~decision[Place(g) + 1]
            /\ decision[Place(g) + 1] \in BOOLEAN
        <5>1. PlaceOK(g) /\ Place(g) < Len(decision)
          BY <2>4 DEF PlaceInv, PlaceOK, Decided
        <5>2. decision[Place(g) + 1] \in BOOLEAN
          BY <2>1, <5>1 DEF TypeInv
        <5>3. QED
          BY <1>2, <2>1, <5>1, <5>2, Outcomes DEF PlaceOK, KeptAt
      <4>2. CASE pc[g] = "mark"
        <5>1. sdQSkip' = [sdQSkip EXCEPT ![g] = TRUE]
          BY <4>2, StepAt DEF MarkSkipped
        <5>2. QED
          BY <1>2, <1>9, <4>1, <4>2, <5>1
      <4>3. CASE pc[g] = "hand"
        <5>1. sdQSkip' = [sdQSkip EXCEPT ![g] = FALSE] /\ sdQ' = [sdQ EXCEPT ![g] = tile[g]]
          BY <4>3, StepAt DEF HandOverDQ
        <5>2. Place(g) = tile[g]
          BY <4>3 DEF Place, Closing
        <5>3. QED
          BY <1>2, <1>9, <4>1, <4>3, <5>1, <5>2
      <4>4. QED
        BY <2>4, <4>2, <4>3
    <3>9. Handed(g)' - 1 = Place(g)
      BY <2>1, <3>1
    <3>10. QED
      BY <1>2, <1>4, <1>9, <2>1, <3>1, <3>2, <3>5, <3>6, <3>7, <3>8, <3>9
  <2>5. CASE ~(pc[g] \in {"do", "dq"} /\ label \in {"mark", "hand"}) /\ pc[g] \notin {"mark", "hand"}
    <3>1. Asked(g)' = Asked(g) /\ Handed(g)' = Handed(g)
      BY <1>1, <1>3, <1>9, <2>1, <2>5 DEF Turn, Next1, Asked, Handed
    <3>2. bar'[dQEmpty(g)] = bar[dQEmpty(g)]
      <4>1. CASE pc[g] \in {"do", "dq"}
        <5>1. pc[g] = "do" /\ label = "p"
          BY <1>1, <1>9, <2>5, <4>1 DEF Turn, Next1
        <5>2. KeepTile(g)
          <6>1. SkipTile(g) \/ KeepTile(g)
            BY <5>1, StepAt
          <6>2. ASSUME SkipTile(g) PROVE pc'[g] = "mark"
            BY <1>9, <6>2 DEF SkipTile, Goto, TypeInv
          <6>3. QED
            BY <1>3, <5>1, <6>1, <6>2
        <5>3. UNCHANGED bar \/ Sync(PdS, g)
          BY <5>2 DEF KeepTile
        <5>4. PdS # dQEmpty(g)
          BY Bars DEF CTABarriers
        <5>5. QED
          BY <1>2, <2>2, <5>3, <5>4 DEF Sync
      <4>2. CASE pc[g] \notin {"do", "dq"}
        BY <1>9, <4>2, DQBars
      <4>3. QED
        BY <4>1, <4>2
    <3>3. bar'[dQFull(g)] = bar[dQFull(g)] /\ sdQ' = sdQ /\ sdQSkip' = sdQSkip
      BY <1>9, <2>5, DQBars, Leaves
    <3>4. Between(dQEmpty(g), Freed(g), Asked(g), g)'
      BY <1>4, <1>9, <2>1, <3>1, <3>2 DEF Between, dQEmpty
    <3>5. Between(dQFull(g), Handed(g), Taken(g), StoreWarp)'
      BY <1>2, <1>4, <1>9, <2>1, <3>1, <3>3 DEF Between, dQFull
    <3>6. QED
      BY <1>2, <1>4, <1>5, <1>9, <2>1, <3>1, <3>3, <3>4, <3>5
  <2>6. pc[g] \in {"do", "dq"} /\ label \in {"mark", "hand"} => Sync(dQEmpty(g), g)
    <3>1. ASSUME pc[g] = "do", label \in {"mark", "hand"} PROVE Sync(dQEmpty(g), g)
      <4>1. SkipTile(g) \/ KeepTile(g)
        BY <3>1, StepAt
      <4>2. ASSUME KeepTile(g) PROVE pc'[g] = "p"
        BY <4>2 DEF KeepTile, Goto, TypeInv
      <4>3. QED
        BY <1>3, <1>9, <3>1, <4>1, <4>2 DEF SkipTile
    <3>2. ASSUME pc[g] = "dq" PROVE Sync(dQEmpty(g), g)
      BY <3>2, StepAt DEF FinishDQ
    <3>3. QED
      BY <3>1, <3>2
  <2>7. QED
    BY <2>3, <2>4, <2>5, <2>6
<1>10. \A h \in DQGroups : OneDQ(h)'
  BY <1>8, <1>9
<1>11. QED
  BY <1>2, <1>10 DEF DQInv

-----------------------------------------------------------------------------
(* A step of a group: the outcomes. *)

LEMMA GroupSkips ==
    ASSUME TypeInv, GateInv, PlaceInv, VoteInv, SkipInv, NEW g \in Groups, GroupStep(g)
    PROVE  misread' \/ SkipInv'
<1>1. PICK label, p : Turn(g, label, p)
  BY Turns
<1>2. /\ UNCHANGED launch /\ launch \in Launches /\ ~Blocked(g) /\ Extends
      /\ Groups' = Groups /\ 0 \in Groups
      /\ \A h \in Groups : Place(h) \in Nat
      /\ rSkip \in [Groups -> BOOLEAN]
  BY Turns, StepAt, Decides, GroupSet, PlaceNat, Same DEF TypeInv
<1>3. /\ pc'[g] = label /\ Place(g)' = p
      /\ \A h \in Groups \ {g} : pc'[h] = pc[h] /\ Place(h)' = Place(h)
  BY <1>1 DEF Turn, Moved
<1>4. ASSUME NEW h \in Groups, pc[h] \in Decided, h # g \/ p = Place(g)
      PROVE  rSkip'[h] = decision'[Place(h)'+ 1]
  <2>1. rSkip'[h] = rSkip[h]
    <3>1. \/ rSkip' = rSkip
          \/ pc[g] = "read" /\ \E skip : rSkip' = [rSkip EXCEPT ![g] = skip]
      BY StepAt, Leaves DEF ReadVote
    <3>2. pc[g] = "read" => h # g
      BY <1>4 DEF Decided
    <3>3. QED
      BY <1>2, <3>1, <3>2
  <2>2. Place(h)' = Place(h) /\ Place(h) < Len(decision)
    BY <1>3, <1>4 DEF PlaceInv, PlaceOK
  <2>3. QED
    BY <1>2, <1>4, <2>1, <2>2, Outcomes DEF SkipInv
<1>5. CASE pc[g] = "read"
  <2>1. label = "full" /\ p = Place(g)
    BY <1>1, <1>5 DEF Turn, Next1
  <2>2. PICK skip \in AsVote(words[0]) : rSkip' = [rSkip EXCEPT ![g] = skip]
    BY <1>5, StepAt DEF ReadVote
  <2>3. misread' = (misread \/ words[0] = Flag(TRUE))
    BY <1>5, StepAt DEF ReadVote
  <2>4. decision' = decision
    BY <1>5, Decides
  <2>5. /\ Place(0) = Place(g)
        /\ \/ words[0] = Vote(decision[Place(g) + 1])
           \/ words[0] = Flag(decision[Place(g) + 1])
        /\ Place(g) < Len(decision)
    <3>1. NextGate(launch, decision, pc[g], Place(g)) = <<Place(g), "full">>
      BY <1>5, Gates
    <3>2. /\ Blocked(0) => pc[0] = "full" /\ Place(0) = Place(g)
          /\ ~Blocked(0) => NextGate(launch, decision, pc[0], Place(0)) = <<Place(g), "full">>
      BY <1>2, <3>1, Company
    <3>3. pc[0] \in Labels
      BY <1>2 DEF TypeInv
    <3>4. pc[0] \in {"read", "full"} /\ Place(0) = Place(g)
      BY <1>2, <3>2, <3>3, Back
    <3>5. Len(decision) = Place(0) + 1
      BY <3>4 DEF PlaceInv, Decided
    <3>6. QED
      BY <1>2, <3>4, <3>5 DEF VoteInv
  <2>6. decision[Place(g) + 1] \in BOOLEAN
    BY <1>2, <2>5 DEF TypeInv
  <2>7. CASE words[0] = Flag(TRUE)
    BY <2>3, <2>7
  <2>8. CASE words[0] # Flag(TRUE)
    <3>1. AsVote(words[0]) = {decision[Place(g) + 1]}
      <4>1. CASE words[0] = Vote(decision[Place(g) + 1])
        BY <2>6, <4>1, Reads
      <4>2. CASE words[0] = Flag(decision[Place(g) + 1])
        <5>1. decision[Place(g) + 1] = FALSE
          BY <2>6, <2>8, <4>2
        <5>2. AsVote(words[0]) = {FALSE}
          BY <4>2, <5>1, Reads
        <5>3. QED
          BY <5>1, <5>2
      <4>3. QED
        BY <2>5, <4>1, <4>2
    <3>2. skip = decision[Place(g) + 1]
      BY <2>2, <3>1
    <3>3. rSkip'[g] = decision'[Place(g)' + 1]
      BY <1>2, <1>3, <2>1, <2>2, <2>4, <3>2
    <3>4. QED
      BY <1>2, <1>3, <1>4, <3>3 DEF SkipInv
  <2>9. QED
    BY <2>7, <2>8
<1>6. CASE pc[g] # "read"
  <2>1. label \in Decided => pc[g] \in Decided /\ p = Place(g)
    BY <1>1, <1>6 DEF Turn, Next1, Decided
  <2>2. QED
    BY <1>2, <1>3, <1>4, <2>1 DEF SkipInv
<1>7. QED
  BY <1>5, <1>6

LEMMA GroupKeeps ==
    ASSUME IInv, NEW g \in Groups, GroupStep(g)
    PROVE  IInv'
<1>1. /\ TypeInv /\ BarInv /\ GateInv /\ PlaceInv /\ QInv /\ DOFullInv /\ DOEmptyInv
      /\ OutcomeInv /\ VoteInv /\ PartsInv /\ DQInv /\ SkipInv
  BY DEF IInv, GroupStep, Following
<1>2. Meets(g)
  BY <1>1, GroupMeets
<1>3. TypeInv' /\ BarInv' /\ GateInv' /\ PlaceInv' /\ QInv'
  BY <1>1, <1>2, GroupTyped, GroupPlaces, GroupTakesQ DEF Meets
<1>4. DOFullInv' /\ DOEmptyInv' /\ OutcomeInv'
  BY <1>1, GroupDOFull, GroupDOEmpty, GroupOutcome
<1>5. VoteInv' /\ PartsInv' /\ DQInv'
  BY <1>1, <1>2, GroupVotes, GroupParts, GroupDQ
<1>6. misread' \/ SkipInv'
  BY <1>1, GroupSkips
<1>7. QED
  BY <1>3, <1>4, <1>5, <1>6 DEF IInv

-----------------------------------------------------------------------------
(* The steps of the other actors. *)

(* No group takes a step. *)
Still == UNCHANGED <<launch, pc, tile, decision, vote, rSkip, misread, sdS, sP, sKV,
                     accumulate, dKV, qTaken, sdQ, sdQSkip, dOempty>>

(* What the steps that are not of a group leave alone. *)
LEMMA GroupsKeep ==
    ASSUME TypeInv, Still, \A h \in Groups : Blocked(h)' => Blocked(h),
           \A w \in Groups : words'[w] = words[w],
           words' = words \/ pc[0] = "full" \/ (pc[0] = "do" /\ Blocked(0)),
           sdO' = sdO \/ \A h \in Groups : pc[h] \notin {"p", "ds", "dv"},
           PlaceInv, VoteInv, PartsInv
    PROVE  /\ PlaceInv' /\ VoteInv' /\ PartsInv'
           /\ \A h \in Groups : Place(h)' = Place(h)
           /\ Groups' = Groups /\ DQGroups' = DQGroups /\ NumTiles' = NumTiles
           /\ StoreWarp' = StoreWarp
<1>1. /\ Groups' = Groups /\ NumTiles' = NumTiles /\ DQGroups' = DQGroups /\ Words' = Words
      /\ StoreWarp' = StoreWarp
      /\ \A t : StagePdS(t)' = StagePdS(t) /\ TilesOr(t)' = TilesOr(t)
      /\ 0 \in Groups
  BY Same, GroupSet DEF Still, TypeInv
<1>2. /\ UNCHANGED <<launch, pc, tile, decision, vote, sdS, sP, sKV>>
      /\ \A h : Place(h)' = Place(h)
  BY <1>1 DEF Place, Still
<1>3. PlaceInv'
  BY <1>1, <1>2 DEF PlaceInv, PlaceOK
<1>4. VoteInv'
  BY <1>1, <1>2 DEF VoteInv, CastOK
<1>5. PartsInv'
  <2>1. ASSUME NEW h \in Groups
        PROVE  /\ pc'[h] \in KeptAt \ {"p"} => HasP(h, Place(h))'
               /\ pc'[h] \in KeptAt \ {"p", "ds"} => HasDS(h, Place(h))'
               /\ LastKept(h)' => HasP(h, Place(h) - 1)' /\ HasDS(h, Place(h) - 1)'
               /\ pc'[h] \in {"p", "ds", "dv"} => sdO' = Place(h)'
               /\ ~sKV' => pc'[h] \in {"epilogue", "done"}
    <3>1. pc'[h] = pc[h] /\ Place(h)' = Place(h) /\ sKV' = sKV /\ launch' = launch
      BY <1>2
    <3>2. Late(h)' => Late(h)
      BY <3>1 DEF Late
    <3>3. LastKept(h)' => LastKept(h) /\ Late(h)
      BY <1>2, <3>1, <3>2 DEF LastKept
    <3>4. h = 0 /\ (pc[h] \in KeptAt \ {"p", "ds"} \/ Late(h)) => words' = words
      BY DEF KeptAt, Late
    <3>5. pc'[h] \in KeptAt \ {"p"} => HasP(h, Place(h))'
      BY <1>1, <1>2, <3>1 DEF PartsInv, HasP
    <3>6. pc'[h] \in KeptAt \ {"p", "ds"} => HasDS(h, Place(h))'
      BY <1>1, <1>2, <3>1, <3>4 DEF PartsInv, HasDS, DS
    <3>7. LastKept(h)' => HasP(h, Place(h) - 1)'
      BY <1>1, <1>2, <3>1, <3>3 DEF PartsInv, HasP
    <3>8. LastKept(h)' => HasDS(h, Place(h) - 1)'
      BY <1>1, <1>2, <3>1, <3>3, <3>4 DEF PartsInv, HasDS, DS
    <3>9. pc'[h] \in {"p", "ds", "dv"} => sdO' = Place(h)'
      BY <3>1 DEF PartsInv
    <3>10. ~sKV' => pc'[h] \in {"epilogue", "done"}
      BY <3>1 DEF PartsInv
    <3>11. QED
      BY <3>5, <3>6, <3>7, <3>8, <3>9, <3>10
  <2>2. QED
    BY <1>1, <2>1 DEF PartsInv, KeptAt
<1>6. QED
  BY <1>1, <1>2, <1>3, <1>4, <1>5

LEMMA SkipsKeep ==
    ASSUME TypeInv, Still, misread \/ SkipInv
    PROVE  misread' \/ SkipInv'
<1>1. UNCHANGED <<misread, rSkip, pc, tile, decision>> /\ Groups' = Groups /\ NumTiles' = NumTiles
  BY Same DEF Still
<1>2. \A h : Place(h)' = Place(h)
  BY <1>1 DEF Place
<1>3. QED
  BY <1>1, <1>2 DEF SkipInv

LEMMA DQKeeps ==
    ASSUME TypeInv, Still, UNCHANGED <<sTile, sGroup, spc, adding>>, DQInv,
           \A h \in DQGroups : /\ bar'[dQEmpty(h)] = bar[dQEmpty(h)]
                               /\ bar'[dQFull(h)] = bar[dQFull(h)]
    PROVE  DQInv'
<1>1. /\ DQGroups' = DQGroups /\ NumTiles' = NumTiles /\ StoreWarp' = StoreWarp
      /\ UNCHANGED <<pc, tile, decision, sdQ, sdQSkip>>
  BY Same DEF Still
<1>2. ASSUME NEW h \in DQGroups
      PROVE  /\ Freed(h)' = Freed(h) /\ Taken(h)' = Taken(h) /\ Added(h)' = Added(h)
             /\ Asked(h)' = Asked(h) /\ Handed(h)' = Handed(h)
  BY <1>1 DEF Freed, Taken, Added, Asked, Handed, Place
<1>3. ASSUME NEW h \in DQGroups
      PROVE  /\ Between(dQEmpty(h), Freed(h), Asked(h), h)'
             /\ Between(dQFull(h), Handed(h), Taken(h), StoreWarp)'
  <2>1. Between(dQEmpty(h), Freed(h), Asked(h), h) /\ Between(dQFull(h), Handed(h), Taken(h), StoreWarp)
    BY DEF DQInv
  <2>2. QED
    BY <1>1, <1>2, <2>1 DEF Between, dQEmpty, dQFull
<1>4. QED
  BY <1>1, <1>2, <1>3 DEF DQInv

LEMMA QKeeps ==
    ASSUME TypeInv, Still, QInv, UNCHANGED <<qNext, dONext, qLanded>>, ppc = "q" <=> ppc' = "q"
    PROVE  QInv'
<1>1. UNCHANGED <<pc, tile, qTaken>> /\ Groups' = Groups /\ NumTiles' = NumTiles
  BY Same DEF Still
<1>2. \A h : Place(h)' = Place(h)
  BY <1>1 DEF Place
<1>3. QED
  BY <1>1, <1>2 DEF QInv

(* The pipeline of dO may get ahead. *)
LEMMA DOEmptyKeeps ==
    ASSUME TypeInv, Still, DOEmptyInv, dOfull.phase \in Nat, dOfull'.phase \in Nat,
           dOfull.phase <= dOfull'.phase,
           dONext' <= dOempty.phase + (IF ppc' = "load" THEN 0 ELSE 1)
    PROVE  DOEmptyInv'
<1>1. /\ UNCHANGED <<pc, tile, dOempty>> /\ Groups' = Groups /\ NumTiles' = NumTiles
      /\ NumGroups' = NumGroups
  BY Same DEF Still
<1>2. \A h : Place(h)' = Place(h)
  BY <1>1 DEF Place
<1>3. /\ \A h : Waited(h)' = Waited(h) /\ Released(h)' = Released(h)
      /\ {h \in Groups : Released(h)' = dOempty.phase + 1} = {h \in Groups : Released(h) = dOempty.phase + 1}
  BY <1>1, <1>2 DEF Waited, Released
<1>4. \A h \in Groups : Waited(h) \in Nat
  BY PlaceNat DEF Waited
<1>5. \A h \in Groups : Waited(h) <= dOfull'.phase
  BY <1>4 DEF DOEmptyInv
<1>6. QED
  BY <1>1, <1>3, <1>5 DEF DOEmptyInv

LEMMA OthersKeepBars ==
    ASSUME OthersStay, launch \in Launches, NEW h \in DQGroups
    PROVE  bar'[dQEmpty(h)] = bar[dQEmpty(h)] /\ bar'[dQFull(h)] = bar[dQFull(h)]
BY Bars DEF OthersStay

(* A step that is not of a group and changes nothing but what it says. *)
LEMMA StillTyped ==
    ASSUME TypeInv, Still,
           qNext' \in Nat, dONext' \in Nat, pskip' \in BOOLEAN,
           ppc' \in {"q", "vote", "read", "acquire", "load"},
           sTile' \in Nat, sGroup' \in DQGroups, spc' \in {"free", "take", "add"},
           adding' \in [DQGroups -> TilesOr(None)], qLanded' \subseteq Tiles,
           bar' = [b \in Barriers' |-> bar'[b]], words' \in [Words -> Words0],
           sdO' \in TilesOr(Garbage), dQ' \in [DQGroups -> SUBSET Tiles]
    PROVE  TypeInv'
<1>1. UNCHANGED <<launch, pc, tile, decision, vote, rSkip, misread, sdS, sP, sKV,
                  accumulate, dKV, qTaken, sdQ, sdQSkip>>
  BY DEF Still
<1>2. /\ launch \in Launches /\ qTaken \in [Groups -> Nat]
      /\ sdS \in [Stages -> [Groups -> TilesOr(Garbage)]]
      /\ sP \in [Stages -> [Groups -> TilesOr(Garbage)]] /\ sKV \in BOOLEAN
      /\ sdQ \in [DQGroups -> TilesOr(Garbage)] /\ sdQSkip \in [DQGroups -> BOOLEAN]
      /\ pc \in [Groups -> Labels] /\ tile \in [Groups -> Nat]
      /\ vote \in [Groups -> BOOLEAN] /\ rSkip \in [Groups -> BOOLEAN]
      /\ accumulate \in [Groups -> BOOLEAN] /\ misread \in BOOLEAN
      /\ decision \in Seq(BOOLEAN)
      /\ dKV \in [Groups -> SUBSET TilesOr(Garbage)]
  BY DEF TypeInv
<1>3. QED
  BY <1>1, <1>2, Same DEF TypeInv

LEMMA Parts ==
    ASSUME IInv
    PROVE  /\ TypeInv /\ BarInv /\ GateInv /\ PlaceInv /\ QInv /\ DOFullInv /\ DOEmptyInv
           /\ OutcomeInv /\ VoteInv /\ PartsInv /\ DQInv /\ (misread \/ SkipInv)
           /\ launch \in Launches /\ qNext \in Nat /\ dONext \in Nat /\ pskip \in BOOLEAN
           /\ sTile \in Nat /\ sGroup \in DQGroups /\ qLanded \subseteq Tiles
           /\ adding \in [DQGroups -> TilesOr(None)] /\ words \in [Words -> Words0]
           /\ bar = [b \in Barriers |-> bar[b]] /\ sdO \in TilesOr(Garbage)
           /\ dQ \in [DQGroups -> SUBSET Tiles]
           /\ ppc \in {"q", "vote", "read", "acquire", "load"}
           /\ spc \in {"free", "take", "add"}
           /\ NumTiles \in Nat
<1>1. TypeInv /\ launch \in Launches
  BY DEF IInv, TypeInv
<1>2. NumTiles \in Nat
  BY <1>1, GroupSet
<1>3. QED
  BY <1>1, <1>2 DEF IInv, TypeInv

(* A step that reaches no barrier of the CTA and is not of a group. *)
LEMMA StillPasses ==
    ASSUME IInv, Still, \A c \in CTABarriers : bar'[c] = bar[c],
           Blocked(Producer) => UNCHANGED <<ppc, dONext>>,
           ~Blocked(Producer) => NextProducerGate(ppc', dONext') = NextProducerGate(ppc, dONext)
    PROVE  BarInv' /\ GateInv' /\ \A h : Blocked(h)' <=> Blocked(h)
<1>1. UNCHANGED <<launch, pc, tile, decision>> /\ NumTiles' = NumTiles
  BY Same DEF Still
<1>2. \A h : Place(h)' = Place(h)
  BY <1>1 DEF Place
<1>3. QED
  BY <1>1, <1>2, Parts, Passes

LEMMA LoadsQ ==
    ASSUME IInv, LoadQ, UNCHANGED launch
    PROVE  IInv'
<1>1. /\ ppc = "q" /\ qNext < NumTiles /\ qNext' = qNext + 1 /\ ppc' = "vote" /\ Still
      /\ UNCHANGED <<dONext, pskip, sTile, sGroup, spc, adding, qLanded, dOfull, dOflight,
                     bar, words, sdO, dQ>>
  BY DEF LoadQ, Still, storeVars, qVars, dOVars, memVars, pdsVars, dQVars, voteVars,
         dKVVars, histVars
<1>2. ~Blocked(Producer)
  BY <1>1, Parts DEF Blocked, BarInv
<1>3. BarInv' /\ GateInv' /\ \A h : Blocked(h)' <=> Blocked(h)
  BY <1>1, <1>2, StillPasses DEF NextProducerGate
<1>4. PlaceInv' /\ VoteInv' /\ PartsInv' /\ Groups' = Groups /\ NumTiles' = NumTiles
      /\ \A h \in Groups : Place(h)' = Place(h)
  BY <1>1, <1>3, Parts, GroupsKeep
<1>5. DQInv' /\ (misread' \/ SkipInv')
  BY <1>1, Parts, DQKeeps, SkipsKeep
<1>6. TypeInv'
  BY <1>1, Parts, StillTyped, Same DEF Still
<1>7. QInv'
  <2>1. qNext = dONext /\ qNext \in Nat /\ NumTiles \in Nat
    BY <1>1, Parts DEF QInv
  <2>2. qLanded \subseteq 0 .. qNext'- 1
    BY <1>1, <2>1, Parts DEF QInv
  <2>3. ASSUME NEW h \in Groups
        PROVE  qTaken'[h] = Place(h) /\ (pc'[h] \in Voting \union Decided => Place(h) < qNext')
    <3>1. Place(h) \in Nat /\ qTaken' = qTaken /\ pc' = pc
      BY <1>1, Parts, PlaceNat DEF Still
    <3>2. QED
      BY <1>1, <2>1, <3>1, Parts DEF QInv
  <2>4. qNext' = dONext + 1 /\ qNext' <= NumTiles
    BY <1>1, <2>1
  <2>5. QED
    BY <1>1, <1>4, <2>2, <2>3, <2>4 DEF QInv
<1>8. DOFullInv'
  BY <1>1, Parts DEF DOFullInv, Still
<1>9. DOEmptyInv'
  <2>1. dOfull'.phase = dOfull.phase /\ dOfull.phase \in Nat
    BY <1>1, Parts, DOPhase
  <2>2. dONext' <= dOempty.phase + (IF ppc' = "load" THEN 0 ELSE 1)
    BY <1>1, Parts DEF DOEmptyInv
  <2>3. QED
    BY <1>1, <2>1, <2>2, Parts, DOEmptyKeeps
<1>10. OutcomeInv'
  BY <1>1, Parts DEF OutcomeInv, Still
<1>11. QED
  BY <1>3, <1>4, <1>5, <1>6, <1>7, <1>8, <1>9, <1>10 DEF IInv

LEMMA AwaitsVote ==
    ASSUME IInv, AwaitVote, UNCHANGED launch
    PROVE  IInv'
<1>1. /\ ppc = "vote" /\ ppc' = "read" /\ Still /\ Sync(dOLoadFull, Producer)
      /\ UNCHANGED <<qNext, dONext, pskip, sTile, sGroup, spc, adding, qLanded, dOfull,
                     dOflight, words, sdO, dQ>>
  BY DEF AwaitVote, Still, storeVars, qVars, dOVars, memVars, pdsVars, dQVars, voteVars,
         dKVVars, histVars
<1>2. ~Blocked(Producer) /\ dOLoadFull \in CTABarriers
  BY <1>1, Parts DEF Blocked, BarInv, CTABarriers
<1>3. BarInv' /\ GateInv' /\ OthersStay /\ \A h \in Groups : Blocked(h)' => Blocked(h)
  <2>1. UNCHANGED <<launch, dONext, pc, tile, decision>>
    BY <1>1 DEF Still
  <2>2. QED
    BY <1>1, <1>2, <2>1, Parts, ProducerArrives
<1>4. PlaceInv' /\ VoteInv' /\ PartsInv'
  BY <1>1, <1>3, Parts, GroupsKeep
<1>5. DQInv' /\ (misread' \/ SkipInv')
  BY <1>1, <1>3, Parts, DQKeeps, SkipsKeep, OthersKeepBars
<1>6. TypeInv'
  BY <1>1, <1>3, Parts, StillTyped, Same DEF Still, OthersStay
<1>7. QInv'
  BY <1>1, Parts, QKeeps
<1>8. DOFullInv'
  BY <1>1, Parts DEF DOFullInv, Still
<1>9. DOEmptyInv'
  <2>1. dOfull'.phase = dOfull.phase /\ dOfull.phase \in Nat
    BY <1>1, Parts, DOPhase
  <2>2. dONext' <= dOempty.phase + (IF ppc' = "load" THEN 0 ELSE 1)
    BY <1>1, Parts DEF DOEmptyInv
  <2>3. QED
    BY <1>1, <2>1, <2>2, Parts, DOEmptyKeeps
<1>10. OutcomeInv'
  BY <1>1, Parts DEF OutcomeInv, Still
<1>11. QED
  BY <1>3, <1>4, <1>5, <1>6, <1>7, <1>8, <1>9, <1>10 DEF IInv

(* The producer reads what the first group has stored for it. *)
LEMMA ReadsOutcome ==
    ASSUME IInv, ReadOutcome, UNCHANGED launch
    PROVE  IInv'
<1>1. /\ ppc = "read" /\ ppc' = "acquire" /\ Still /\ Sync(dOLoadEmpty, Producer)
      /\ Running(Producer) /\ pskip' \in AsFlag(words[0])
      /\ words' = [words EXCEPT ![Copy] = Flag(pskip')]
      /\ UNCHANGED <<qNext, dONext, sTile, sGroup, spc, adding, qLanded, dOfull,
                     dOflight, sdO, dQ>>
  BY DEF ReadOutcome, Still, storeVars, qVars, dOVars, memVars, pdsVars, dQVars, voteVars,
         dKVVars, histVars
<1>2. ~Blocked(Producer) /\ dOLoadEmpty \in CTABarriers
  BY <1>1, Runs DEF CTABarriers
<1>3. BarInv' /\ GateInv' /\ OthersStay /\ \A h \in Groups : Blocked(h)' => Blocked(h)
  <2>1. UNCHANGED <<launch, dONext, pc, tile, decision>>
    BY <1>1 DEF Still
  <2>2. QED
    BY <1>1, <1>2, <2>1, Parts, ProducerArrives
<1>4. /\ Copy \in Words /\ Copy \notin Groups /\ 0 \in Groups /\ Groups \subseteq Words
      /\ Copy' = Copy /\ launch \in Launches
  BY Parts, GroupSet, Same DEF Still
<1>5. /\ pc[0] = "full" \/ (pc[0] = "do" /\ Blocked(0))
      /\ Place(0) = dONext
  <2>1. ProducerGate = <<dONext, "do">>
    BY <1>1, <1>2 DEF ProducerGate, NextProducerGate
  <2>2. Follows(Gate(0)) = <<dONext, "do">>
    BY <2>1, Parts DEF GateInv
  <2>3. CASE Blocked(0)
    <3>1. Follows(<<Place(0), pc[0]>>) = <<dONext, "do">>
      BY <2>2, <2>3 DEF Gate
    <3>2. QED
      BY <2>3, <3>1 DEF Follows
  <2>4. CASE ~Blocked(0)
    <3>1. pc[0] \in Labels /\ Place(0) \in Nat
      BY <1>4, Parts, PlaceNat DEF TypeInv
    <3>2. Follows(NextGate(launch, decision, pc[0], Place(0))) = <<dONext, "do">>
      BY <2>2, <2>4 DEF Gate
    <3>3. NextGate(launch, decision, pc[0], Place(0))[2] = "do"
      BY <3>2 DEF Follows
    <3>4. pc[0] = "full"
      <4>1. CASE pc[0] \in {"q", "s", "cast", "reduce", "read", "fill", "epilogue", "done", "ds"}
        BY <3>3, <4>1, Gates
      <4>2. CASE pc[0] \in AfterDO
        BY <3>3, <4>2, Gates DEF BeginGate, AfterDO
      <4>3. CASE pc[0] = "do"
        BY <1>4, <3>1, <3>2, <4>3, FollowsDo
      <4>4. CASE pc[0] = "p"
        BY <3>3, <4>4, Gates
      <4>5. QED
        BY <3>1, <4>1, <4>2, <4>3, <4>4 DEF Labels, AfterDO
    <3>5. QED
      BY <3>2, <3>4, Gates DEF Follows
  <2>5. QED
    BY <2>3, <2>4
<1>6. dONext < Len(decision) /\ decision[dONext + 1] \in BOOLEAN
  <2>1. dONext < Len(decision)
    BY <1>4, <1>5, Parts DEF PlaceInv, PlaceOK, Decided
  <2>2. decision \in Seq(BOOLEAN) /\ dONext \in Nat
    BY Parts DEF TypeInv
  <2>3. QED
    BY <2>1, <2>2
<1>7. pskip' = decision[dONext + 1] /\ pskip' \in BOOLEAN
  <2>1. words[0] = Flag(decision[dONext + 1])
    BY <1>5, Parts DEF VoteInv
  <2>2. AsFlag(words[0]) = {decision[dONext + 1]}
    BY <1>6, <2>1, Reads
  <2>3. QED
    BY <1>1, <1>6, <2>2
<1>8. words' \in [Words -> Words0] /\ words'[Copy] = Flag(pskip')
      /\ \A w \in Groups : words'[w] = words[w]
  BY <1>1, <1>4, <1>7, Words0s, Parts
<1>9. PlaceInv' /\ VoteInv' /\ PartsInv'
  BY <1>1, <1>3, <1>5, <1>8, Parts, GroupsKeep
<1>10. DQInv' /\ (misread' \/ SkipInv')
  BY <1>1, <1>3, Parts, DQKeeps, SkipsKeep, OthersKeepBars
<1>11. TypeInv'
  BY <1>1, <1>3, <1>7, <1>8, Parts, StillTyped, Same DEF Still, OthersStay
<1>12. QInv'
  BY <1>1, Parts, QKeeps
<1>13. DOFullInv'
  BY <1>1, Parts DEF DOFullInv, Still
<1>14. DOEmptyInv'
  <2>1. dOfull'.phase = dOfull.phase /\ dOfull.phase \in Nat
    BY <1>1, Parts, DOPhase
  <2>2. dONext' <= dOempty.phase + (IF ppc' = "load" THEN 0 ELSE 1)
    BY <1>1, Parts DEF DOEmptyInv
  <2>3. QED
    BY <1>1, <2>1, <2>2, Parts, DOEmptyKeeps
<1>15. OutcomeInv'
  <2>1. decision' = decision /\ dONext \in Nat /\ Len(decision) \in Nat
    BY <1>1, Parts DEF Still, TypeInv
  <2>2. QED
    BY <1>1, <1>4, <1>6, <1>7, <1>8, <2>1 DEF OutcomeInv
<1>16. QED
  BY <1>3, <1>9, <1>10, <1>11, <1>12, <1>13, <1>14, <1>15 DEF IInv

(* Once the buffer of dO is free, the load before is complete. *)
LEMMA AcquiresDO ==
    ASSUME IInv, AcquireDO, UNCHANGED launch
    PROVE  IInv'
<1>1. /\ ppc = "acquire" /\ ppc' = "load" /\ Still /\ Running(Producer)
      /\ Passed(dOempty, PhaseDO(dONext) + 1)
      /\ dOfull' = IF pskip THEN Arrive(dOfull, 1) ELSE ArriveExpectTx(dOfull, 1, 1)
      /\ UNCHANGED <<qNext, dONext, pskip, sTile, sGroup, spc, adding, qLanded,
                     dOflight, bar, words, sdO, dQ>>
  BY DEF AcquireDO, Still, storeVars, qVars, dOVars, memVars, pdsVars, dQVars, voteVars,
         dKVVars, histVars
<1>2. ~Blocked(Producer)
  BY <1>1, Runs
<1>3. BarInv' /\ GateInv' /\ \A h : Blocked(h)' <=> Blocked(h)
  BY <1>1, <1>2, StillPasses DEF NextProducerGate
<1>4. PlaceInv' /\ VoteInv' /\ PartsInv'
  BY <1>1, <1>3, Parts, GroupsKeep
<1>5. DQInv' /\ (misread' \/ SkipInv')
  BY <1>1, Parts, DQKeeps, SkipsKeep
<1>6. TypeInv'
  BY <1>1, Parts, StillTyped, Same DEF Still
<1>7. QInv'
  BY <1>1, Parts, QKeeps
<1>8. /\ dONext \in Nat /\ dOempty.phase \in Nat /\ dOfull.phase \in Nat
      /\ dOfull.phase <= dONext /\ dONext <= dOempty.phase + 1
  BY <1>1, Parts, DOPhase DEF DOEmptyInv
<1>9. dOempty.phase <= dOfull.phase
  <2>1. /\ 0 \in Groups /\ Waited(0) <= dOfull.phase
        /\ Released(0) \in {dOempty.phase, dOempty.phase + 1} /\ Place(0) \in Nat
    BY Parts, GroupSet, PlaceNat DEF DOEmptyInv
  <2>2. Released(0) <= Waited(0) /\ Waited(0) \in Nat
    BY <2>1 DEF Released, Waited, KeptAt
  <2>3. QED
    BY <1>8, <2>1, <2>2
<1>10. dOempty.phase = dONext
  <2>1. dOempty.phase % 2 # ((dONext % 2) + 1) % 2
    BY <1>1 DEF Passed, PhaseDO
  <2>2. dOempty.phase + 1 # dONext
    <3>1. SUFFICES ASSUME dOempty.phase + 1 = dONext PROVE FALSE
      OBVIOUS
    <3>2. dOempty.phase % 2 # (((dOempty.phase + 1) % 2) + 1) % 2
      BY <2>1, <3>1
    <3>3. \A n \in Nat : n % 2 = (((n + 1) % 2) + 1) % 2
      OBVIOUS
    <3>4. QED
      BY <1>8, <3>2, <3>3
  <2>3. QED
    BY <1>8, <1>9, <2>2
<1>11. dOfull = [phase |-> dONext, pending |-> 1, tx |-> 0] /\ dOflight = {}
  <2>1. dOfull # [phase |-> dONext - 1, pending |-> 0, tx |-> 1]
    BY <1>8, <1>9, <1>10
  <2>2. QED
    BY <1>1, <1>8, <2>1, Parts DEF DOFullInv
<1>12. /\ pskip => dOfull' = [phase |-> dONext + 1, pending |-> 1, tx |-> 0]
       /\ ~pskip => dOfull' = [phase |-> dONext, pending |-> 0, tx |-> 1]
  BY <1>1, <1>8, <1>11 DEF Arrive, ArriveExpectTx, Settle
<1>13. DOFullInv'
  BY <1>1, <1>8, <1>11, <1>12 DEF DOFullInv
<1>14. DOEmptyInv'
  <2>1. dOfull.phase <= dOfull'.phase /\ dOfull'.phase \in Nat
    <3>1. dOfull.phase = dONext /\ dOfull'.phase \in {dONext, dONext + 1}
      BY <1>11, <1>12
    <3>2. QED
      BY <1>8, <3>1
  <2>2. dONext' <= dOempty.phase + (IF ppc' = "load" THEN 0 ELSE 1)
    BY <1>1, <1>8, <1>10
  <2>3. QED
    BY <1>1, <1>8, <2>1, <2>2, Parts, DOEmptyKeeps
<1>15. OutcomeInv'
  BY <1>1, Parts, Same DEF OutcomeInv, Still
<1>16. QED
  BY <1>3, <1>4, <1>5, <1>6, <1>7, <1>13, <1>14, <1>15 DEF IInv

LEMMA LoadsDO ==
    ASSUME IInv, LoadDO, UNCHANGED launch
    PROVE  IInv'
<1>1. /\ ppc = "load" /\ ppc' = "q" /\ Still /\ dONext' = dONext + 1
      /\ \E skip \in AsFlag(words[Copy]) :
            dOflight' = IF skip THEN dOflight ELSE dOflight \union {dONext}
      /\ UNCHANGED <<qNext, pskip, sTile, sGroup, spc, adding, qLanded, dOfull,
                     bar, words, sdO, dQ>>
  BY DEF LoadDO, Still, storeVars, qVars, dOVars, memVars, pdsVars, dQVars, voteVars,
         dKVVars, histVars
<1>2. ~Blocked(Producer)
  BY <1>1, Parts DEF Blocked, BarInv
<1>3. BarInv' /\ GateInv' /\ \A h : Blocked(h)' <=> Blocked(h)
  BY <1>1, <1>2, StillPasses DEF NextProducerGate
<1>4. PlaceInv' /\ VoteInv' /\ PartsInv' /\ Groups' = Groups /\ NumTiles' = NumTiles
      /\ \A h \in Groups : Place(h)' = Place(h)
  BY <1>1, <1>3, Parts, GroupsKeep
<1>5. DQInv' /\ (misread' \/ SkipInv')
  BY <1>1, Parts, DQKeeps, SkipsKeep
<1>6. dONext \in Nat /\ dONext' \in Nat
  BY <1>1, Parts
<1>7. TypeInv'
  BY <1>1, <1>6, Parts, StillTyped, Same DEF Still
<1>8. QInv'
  <2>1. /\ qNext' = qNext /\ pc' = pc /\ qTaken' = qTaken
        /\ qNext = dONext + 1
    BY <1>1, Parts DEF QInv, Still
  <2>2. QED
    BY <1>1, <1>4, <2>1, Parts DEF QInv
<1>9. /\ dONext < Len(decision) /\ pskip = decision[dONext + 1] /\ pskip \in BOOLEAN
      /\ words[Copy] = Flag(pskip) /\ decision' = decision
  BY <1>1, Parts DEF OutcomeInv, Still
<1>10. dOflight' = IF pskip THEN dOflight ELSE dOflight \union {dONext}
  <2>1. AsFlag(words[Copy]) = {pskip}
    BY <1>9, Reads
  <2>2. QED
    BY <1>1, <2>1
<1>11. DOFullInv'
  <2>1. CASE pskip
    <3>1. dOfull = [phase |-> dONext + 1, pending |-> 1, tx |-> 0] /\ dOflight = {}
      BY <1>1, <2>1, Parts DEF DOFullInv
    <3>2. QED
      BY <1>1, <1>9, <1>10, <2>1, <3>1 DEF DOFullInv
  <2>2. CASE ~pskip
    <3>1. dOfull = [phase |-> dONext, pending |-> 0, tx |-> 1] /\ dOflight = {}
      BY <1>1, <2>2, Parts DEF DOFullInv
    <3>2. /\ dOflight' = {dONext} /\ dONext' - 1 = dONext /\ dONext' > 0
      BY <1>1, <1>6, <1>10, <2>2, <3>1
    <3>3. QED
      BY <1>1, <1>9, <2>2, <3>1, <3>2 DEF DOFullInv
  <2>3. QED
    BY <2>1, <2>2
<1>12. DOEmptyInv'
  <2>1. dOfull'.phase = dOfull.phase /\ dOfull.phase \in Nat
    BY <1>1, Parts, DOPhase
  <2>2. dONext' <= dOempty.phase + (IF ppc' = "load" THEN 0 ELSE 1)
    BY <1>1, <1>6, Parts DEF DOEmptyInv
  <2>3. QED
    BY <1>1, <2>1, <2>2, Parts, DOEmptyKeeps
<1>13. OutcomeInv'
  <2>1. dONext + 1 <= Len(decision)
    <3>1. Len(decision) \in Nat
      BY Parts DEF TypeInv
    <3>2. QED
      BY <1>6, <1>9, <3>1
  <2>2. QED
    BY <1>1, <1>9, <2>1 DEF OutcomeInv
<1>14. QED
  BY <1>3, <1>4, <1>5, <1>7, <1>8, <1>11, <1>12, <1>13 DEF IInv

LEMMA QLanding ==
    ASSUME IInv, NEW t \in Tiles, QLands(t), UNCHANGED launch
    PROVE  IInv'
<1>1. /\ Still /\ t < qNext /\ qLanded' = qLanded \union {t}
      /\ UNCHANGED <<ppc, qNext, dONext, pskip, sTile, sGroup, spc, adding, dOfull, dOflight,
                     bar, words, sdO, dQ>>
  BY DEF QLands, Still, producerVars, storeVars, qVars, dOVars, memVars, pdsVars, dQVars,
         voteVars, dKVVars, histVars
<1>2. BarInv' /\ GateInv' /\ \A h : Blocked(h)' <=> Blocked(h)
  BY <1>1, StillPasses
<1>3. PlaceInv' /\ VoteInv' /\ PartsInv' /\ Groups' = Groups /\ NumTiles' = NumTiles
      /\ \A h \in Groups : Place(h)' = Place(h)
  BY <1>1, <1>2, Parts, GroupsKeep
<1>4. DQInv' /\ (misread' \/ SkipInv')
  BY <1>1, Parts, DQKeeps, SkipsKeep
<1>5. TypeInv'
  BY <1>1, Parts, StillTyped, Same DEF Still
<1>6. QInv'
  <2>1. t \in 0 .. qNext - 1
    BY <1>1, Parts DEF Tiles
  <2>2. pc' = pc /\ qTaken' = qTaken
    BY <1>1 DEF Still
  <2>3. QED
    BY <1>1, <1>3, <2>1, <2>2, Parts DEF QInv
<1>7. DOFullInv'
  BY <1>1, Parts DEF DOFullInv, Still
<1>8. DOEmptyInv'
  <2>1. dOfull'.phase = dOfull.phase /\ dOfull.phase \in Nat
    BY <1>1, Parts, DOPhase
  <2>2. dONext' <= dOempty.phase + (IF ppc' = "load" THEN 0 ELSE 1)
    BY <1>1, Parts DEF DOEmptyInv
  <2>3. QED
    BY <1>1, <2>1, <2>2, Parts, DOEmptyKeeps
<1>9. OutcomeInv'
  BY <1>1, Parts, Same DEF OutcomeInv, Still
<1>10. QED
  BY <1>2, <1>3, <1>4, <1>5, <1>6, <1>7, <1>8, <1>9 DEF IInv

(* dO lands when nobody multiplies with the one before. *)
LEMMA DOLanding ==
    ASSUME IInv, NEW t \in dOflight, DOLands(t), UNCHANGED launch
    PROVE  IInv'
<1>1. /\ Still /\ sdO' = t /\ dOfull' = CompleteTx(dOfull, 1) /\ dOflight' = dOflight \ {t}
      /\ UNCHANGED <<ppc, qNext, dONext, pskip, sTile, sGroup, spc, adding, qLanded,
                     bar, words, dQ>>
  BY DEF DOLands, Still, producerVars, storeVars, qVars, dOVars, memVars, pdsVars, dQVars,
         voteVars, dKVVars, histVars
<1>2. /\ ppc # "load" /\ dONext > 0 /\ ~decision[dONext]
      /\ dOfull = [phase |-> dONext - 1, pending |-> 0, tx |-> 1]
      /\ dOflight = {dONext - 1} /\ t = dONext - 1
  <2>1. dOflight # {}
    OBVIOUS
  <2>2. QED
    BY <2>1, Parts DEF DOFullInv
<1>3. dONext \in Nat /\ dONext - 1 \in Nat /\ dOfull.phase = dONext - 1
  BY <1>2, Parts
<1>4. dOfull' = [phase |-> dONext, pending |-> 1, tx |-> 0] /\ dOflight' = {}
  <2>1. dOfull' = [phase |-> dONext - 1 + 1, pending |-> 1, tx |-> 0]
    BY <1>1, <1>2, <1>3 DEF CompleteTx, Settle
  <2>2. QED
    BY <1>1, <1>2, <1>3, <2>1
<1>5. \A h \in Groups : pc[h] \notin {"p", "ds", "dv"}
  <2>1. ASSUME NEW h \in Groups, pc[h] \in {"p", "ds", "dv"} PROVE FALSE
    <3>1. Place(h) \in Nat /\ Waited(h) = Place(h) + 1 /\ Released(h) = Place(h)
      BY <2>1, Parts, PlaceNat DEF Waited, Released, KeptAt
    <3>2. /\ Waited(h) <= dONext - 1
          /\ Released(h) \in {dOempty.phase, dOempty.phase + 1} /\ dOempty.phase \in Nat
          /\ dONext <= dOempty.phase + 1
      BY <1>2, <1>3, Parts DEF DOEmptyInv
    <3>3. QED
      BY <1>3, <3>1, <3>2
  <2>2. QED
    BY <2>1
<1>6. BarInv' /\ GateInv' /\ \A h : Blocked(h)' <=> Blocked(h)
  BY <1>1, StillPasses
<1>7. PlaceInv' /\ VoteInv' /\ PartsInv'
  BY <1>1, <1>5, <1>6, Parts, GroupsKeep
<1>8. DQInv' /\ (misread' \/ SkipInv')
  BY <1>1, Parts, DQKeeps, SkipsKeep
<1>9. TypeInv'
  <2>1. t \in Tiles
    <3>1. dONext <= qNext /\ qNext <= NumTiles
      BY <1>3, Parts DEF QInv
    <3>2. QED
      BY <1>2, <1>3, <3>1, Parts DEF Tiles
  <2>2. t \in TilesOr(Garbage)
    BY <2>1, Words0s
  <2>3. QED
    BY <1>1, <2>2, Parts, StillTyped, Same DEF Still
<1>10. QInv'
  BY <1>1, Parts, QKeeps
<1>11. DOFullInv'
  BY <1>1, <1>2, <1>3, <1>4 DEF DOFullInv
<1>12. DOEmptyInv'
  <2>1. dOfull'.phase = dONext
    BY <1>4
  <2>2. dONext' <= dOempty.phase + (IF ppc' = "load" THEN 0 ELSE 1)
    BY <1>1, Parts DEF DOEmptyInv
  <2>3. QED
    BY <1>1, <1>3, <2>1, <2>2, Parts, DOEmptyKeeps
<1>13. OutcomeInv'
  BY <1>1, Parts, Same DEF OutcomeInv, Still
<1>14. QED
  BY <1>6, <1>7, <1>8, <1>9, <1>10, <1>11, <1>12, <1>13 DEF IInv

(* What is said of the buffer of one group's dQ. *)
OneDQ(g) == /\ Between(dQEmpty(g), Freed(g), Asked(g), g)
            /\ Between(dQFull(g), Handed(g), Taken(g), StoreWarp)
            /\ Handed(g) <= Freed(g) /\ Added(g) <= Handed(g)
            /\ Handed(g) > 0 => /\ sdQSkip[g] = decision[Handed(g)]
                                /\ ~decision[Handed(g)] => sdQ[g] = Handed(g) - 1
            /\ adding[g] # None =>
                  Freed(g) = Handed(g) /\ adding[g] = Handed(g) - 1 /\ sdQ[g] = adding[g]

(* The store warp goes round the groups. *)
LEMMA Round ==
    ASSUME TypeInv
    PROVE  /\ sTile \in Nat /\ sGroup \in Nat /\ NumWgDQ \in Nat /\ sGroup < NumWgDQ
           /\ \A h \in DQGroups : h \in Nat /\ h < NumWgDQ
           /\ (sGroup + 1) % NumWgDQ = IF sGroup + 1 = NumWgDQ THEN 0 ELSE sGroup + 1
           /\ (sGroup + 1) % NumWgDQ \in DQGroups
<1>1. launch \in Launches /\ launch.groups \in {2, 3} /\ launch.single \in BOOLEAN
  BY LaunchFacts DEF TypeInv
<1>2. NumWgDQ \in {1, 2, 3}
  BY <1>1 DEF NumWgDQ, NumGroups
<1>3. DQGroups = 0 .. NumWgDQ - 1 /\ sTile \in Nat /\ sGroup \in DQGroups
  BY <1>1, GroupSet DEF TypeInv
<1>4. sGroup \in Nat /\ sGroup < NumWgDQ /\ \A h \in DQGroups : h \in Nat /\ h < NumWgDQ
  BY <1>2, <1>3
<1>5. (sGroup + 1) % NumWgDQ = IF sGroup + 1 = NumWgDQ THEN 0 ELSE sGroup + 1
  <2>1. /\ (0 + 1) % 1 = 0 /\ (0 + 1) % 2 = 1 /\ (1 + 1) % 2 = 0
        /\ (0 + 1) % 3 = 1 /\ (1 + 1) % 3 = 2 /\ (2 + 1) % 3 = 0
    OBVIOUS
  <2>2. \/ NumWgDQ = 1 /\ sGroup = 0
        \/ NumWgDQ = 2 /\ sGroup \in {0, 1}
        \/ NumWgDQ = 3 /\ sGroup \in {0, 1, 2}
    BY <1>2, <1>4
  <2>3. QED
    BY <2>1, <2>2
<1>6. (sGroup + 1) % NumWgDQ \in DQGroups
  BY <1>2, <1>3, <1>4, <1>5
<1>7. QED
  BY <1>2, <1>3, <1>4, <1>5, <1>6

(* A buffer the step of the store warp is not about. *)
LEMMA OtherDQ ==
    ASSUME TypeInv, Still, DQInv, NEW h \in DQGroups,
           bar'[dQEmpty(h)] = bar[dQEmpty(h)], bar'[dQFull(h)] = bar[dQFull(h)],
           adding'[h] = adding[h] \/ adding'[h] = None,
           Freed(h)' = Freed(h), Taken(h)' = Taken(h), Added(h)' = Added(h)
    PROVE  OneDQ(h)'
<1>1. /\ StoreWarp' = StoreWarp /\ Asked(h)' = Asked(h) /\ Handed(h)' = Handed(h)
      /\ UNCHANGED <<decision, sdQ, sdQSkip>>
  BY Same DEF Still, Asked, Handed, Place, NumTiles
<1>2. OneDQ(h)
  BY DEF DQInv, OneDQ
<1>3. Between(dQEmpty(h), Freed(h), Asked(h), h)' /\ Between(dQFull(h), Handed(h), Taken(h), StoreWarp)'
  BY <1>1, <1>2 DEF OneDQ, Between, dQEmpty, dQFull
<1>4. QED
  BY <1>1, <1>2, <1>3 DEF OneDQ

(* A step of the store warp. *)
LEMMA StoreKeeps ==
    ASSUME IInv, Still, UNCHANGED <<qNext, dONext, ppc, pskip, qLanded, dOfull, dOflight, words, sdO>>,
           \A c \in CTABarriers : bar'[c] = bar[c], bar' = [b \in Barriers' |-> bar'[b]],
           sTile' \in Nat, sGroup' \in DQGroups, spc' \in {"free", "take", "add"},
           adding' \in [DQGroups -> TilesOr(None)], dQ' \in [DQGroups -> SUBSET Tiles],
           sTile' <= NumTiles, sTile' = NumTiles => spc' = "free" /\ sGroup' = 0,
           \A h \in DQGroups : OneDQ(h)'
    PROVE  IInv'
<1>1. BarInv' /\ GateInv' /\ \A h : Blocked(h)' <=> Blocked(h)
  BY StillPasses
<1>2. /\ PlaceInv' /\ VoteInv' /\ PartsInv' /\ Groups' = Groups /\ NumTiles' = NumTiles
      /\ DQGroups' = DQGroups
  BY <1>1, Parts, GroupsKeep
<1>3. misread' \/ SkipInv'
  BY Parts, SkipsKeep
<1>4. TypeInv'
  <2>1. /\ qNext' \in Nat /\ dONext' \in Nat /\ pskip' \in BOOLEAN /\ qLanded' \subseteq Tiles
        /\ ppc' \in {"q", "vote", "read", "acquire", "load"}
        /\ words' \in [Words -> Words0] /\ sdO' \in TilesOr(Garbage)
    BY Parts
  <2>2. QED
    BY <2>1, Parts, StillTyped
<1>5. QInv'
  BY Parts, QKeeps
<1>6. DOFullInv'
  BY Parts DEF DOFullInv, Still
<1>7. DOEmptyInv'
  <2>1. dOfull'.phase = dOfull.phase /\ dOfull.phase \in Nat
    BY Parts, DOPhase
  <2>2. dONext' <= dOempty.phase + (IF ppc' = "load" THEN 0 ELSE 1)
    BY Parts DEF DOEmptyInv
  <2>3. QED
    BY <2>1, <2>2, Parts, DOEmptyKeeps
<1>8. OutcomeInv'
  BY Parts, Same DEF OutcomeInv, Still
<1>9. DQInv'
  BY <1>2 DEF DQInv, OneDQ
<1>10. QED
  BY <1>1, <1>2, <1>3, <1>4, <1>5, <1>6, <1>7, <1>8, <1>9 DEF IInv

LEMMA FreesDQ ==
    ASSUME IInv, FreeDQ, UNCHANGED launch
    PROVE  IInv'
<1>1. PICK s \in DQGroups : sGroup = s
  BY Parts
<1>2. /\ Still /\ spc = "free" /\ sTile < NumTiles /\ ArriveOn(dQEmpty(s))
      /\ \A g \in DQGroups : g <= s => adding[g] = None
      /\ sGroup' = (s + 1) % NumWgDQ
      /\ spc' = IF s + 1 = NumWgDQ THEN "take" ELSE "free"
      /\ UNCHANGED <<ppc, qNext, dONext, pskip, sTile, adding, qLanded, dOfull, dOflight,
                     words, sdO, dQ>>
  BY <1>1 DEF FreeDQ, Still, producerVars, qVars, dOVars, memVars, pdsVars, dQVars,
         voteVars, dKVVars, histVars
<1>3. /\ sTile \in Nat /\ s \in Nat /\ NumWgDQ \in Nat /\ s < NumWgDQ
      /\ \A h \in DQGroups : h \in Nat /\ h < NumWgDQ
      /\ (s + 1) % NumWgDQ = IF s + 1 = NumWgDQ THEN 0 ELSE s + 1
      /\ (s + 1) % NumWgDQ \in DQGroups
  BY <1>1, Parts, Round
<1>4. ASSUME NEW h \in DQGroups
      PROVE  /\ Taken(h)' = Taken(h) /\ Added(h)' = Added(h) /\ Added(h) = sTile
             /\ h # s => Freed(h)' = Freed(h)
             /\ h = s => Freed(h) = sTile /\ Freed(h)' = Freed(h) + 1
  <2>1. CASE s + 1 = NumWgDQ
    <3>1. spc' = "take" /\ sGroup' = 0 /\ h \in Nat /\ h <= s
      BY <1>2, <1>3, <2>1
    <3>2. QED
      BY <1>1, <1>2, <1>3, <3>1 DEF Taken, Added, Freed
  <2>2. CASE s + 1 # NumWgDQ
    <3>1. spc' = "free" /\ sGroup' = s + 1 /\ h \in Nat
      BY <1>2, <1>3, <2>2
    <3>2. QED
      BY <1>1, <1>2, <1>3, <3>1 DEF Taken, Added, Freed
  <2>3. QED
    BY <2>1, <2>2
<1>5. /\ bar = [c \in Barriers |-> bar[c]] /\ dQEmpty(s) \in Barriers
      /\ NumberOfThreads(dQEmpty(s)) = 2
      /\ Between(dQEmpty(s), Freed(s), Asked(s), s)
      /\ Between(dQFull(s), Handed(s), Taken(s), StoreWarp)
      /\ Handed(s) <= Freed(s) /\ Added(s) <= Handed(s)
      /\ Handed(s) > 0 => /\ sdQSkip[s] = decision[Handed(s)]
                          /\ ~decision[Handed(s)] => sdQ[s] = Handed(s) - 1
  BY Parts, Bars, Two DEF DQInv
<1>6. /\ Freed(s) \in Nat /\ Asked(s) \in Nat /\ Handed(s) \in Nat /\ Freed(s) <= Asked(s)
  <2>1. /\ Freed(s) \in Nat /\ Asked(s) \in Nat /\ Handed(s) \in Nat /\ Handed(s) <= Asked(s)
    BY Parts, Counts
  <2>2. QED
    BY <1>3, <1>4, <1>5, <2>1
<1>7. /\ \A c \in Barriers \ {dQEmpty(s)} : bar'[c] = bar[c]
      /\ \/ Freed(s) = Asked(s) /\ bar'[dQEmpty(s)] = [count |-> 1, blocked |-> {}]
         \/ Asked(s) = Freed(s) + 1 /\ bar'[dQEmpty(s)] = NoOne
  BY <1>2, <1>5, <1>6, TwoArrive
<1>8. ASSUME NEW h \in DQGroups, h # s PROVE OneDQ(h)'
  <2>1. bar'[dQEmpty(h)] = bar[dQEmpty(h)] /\ bar'[dQFull(h)] = bar[dQFull(h)]
    BY <1>7, <1>8, Bars
  <2>2. QED
    BY <1>2, <1>4, <1>8, <2>1, Parts, OtherDQ
<1>9. OneDQ(s)'
  <2>1. /\ StoreWarp' = StoreWarp /\ Asked(s)' = Asked(s) /\ Handed(s)' = Handed(s)
        /\ UNCHANGED <<decision, sdQ, sdQSkip, adding>>
    BY <1>2, Parts, Same DEF Still, Asked, Handed, Place, NumTiles
  <2>2. bar'[dQFull(s)] = bar[dQFull(s)]
    BY <1>7, Bars
  <2>3. Between(dQFull(s), Handed(s), Taken(s), StoreWarp)'
    BY <1>4, <1>5, <2>1, <2>2 DEF Between, dQFull
  <2>4. Between(dQEmpty(s), Freed(s), Asked(s), s)'
    BY <1>4, <1>6, <1>7, <2>1 DEF Between, dQEmpty
  <2>5. Freed(s)' = Freed(s) + 1 /\ Added(s)' = Added(s) /\ adding'[s] = None
    BY <1>2, <1>3, <1>4, <2>1
  <2>6. QED
    BY <1>5, <1>6, <2>1, <2>3, <2>4, <2>5 DEF OneDQ
<1>10. \A c \in CTABarriers : bar'[c] = bar[c]
  BY <1>2, Parts, Elsewhere
<1>11. bar' = [b \in Barriers' |-> bar'[b]]
  BY <1>2, Parts, BarTyped
<1>12. /\ sTile' \in Nat /\ sGroup' \in DQGroups /\ spc' \in {"free", "take", "add"}
       /\ adding' \in [DQGroups -> TilesOr(None)] /\ dQ' \in [DQGroups -> SUBSET Tiles]
       /\ sTile' <= NumTiles /\ sTile' # NumTiles
  BY <1>2, <1>3, Parts
<1>13. QED
  BY <1>2, <1>8, <1>9, <1>10, <1>11, <1>12, StoreKeeps

LEMMA TakesDQ ==
    ASSUME IInv, TakeDQ, UNCHANGED launch
    PROVE  IInv'
<1>1. PICK s \in DQGroups : sGroup = s
  BY Parts
<1>2. /\ Still /\ spc = "take" /\ spc' = "add" /\ Sync(dQFull(s), StoreWarp)
      /\ UNCHANGED <<ppc, qNext, dONext, pskip, sTile, sGroup, adding, qLanded, dOfull, dOflight,
                     words, sdO, dQ>>
  BY <1>1 DEF TakeDQ, Still, producerVars, qVars, dOVars, memVars, pdsVars, dQVars,
         voteVars, dKVVars, histVars
<1>3. sTile \in Nat /\ s \in Nat /\ \A h \in DQGroups : h \in Nat
  BY <1>1, Parts, Round
<1>4. ASSUME NEW h \in DQGroups
      PROVE  /\ Freed(h)' = Freed(h) /\ Added(h)' = Added(h)
             /\ h # s => Taken(h)' = Taken(h)
             /\ h = s => Taken(h) = sTile /\ Added(h) = sTile /\ Taken(h)' = Taken(h) + 1
  BY <1>1, <1>2, <1>3 DEF Taken, Added, Freed
<1>5. /\ bar = [c \in Barriers |-> bar[c]] /\ dQFull(s) \in Barriers
      /\ NumberOfThreads(dQFull(s)) = 2
      /\ Between(dQEmpty(s), Freed(s), Asked(s), s)
      /\ Between(dQFull(s), Handed(s), Taken(s), StoreWarp)
      /\ Handed(s) <= Freed(s) /\ Added(s) <= Handed(s)
      /\ Handed(s) > 0 => /\ sdQSkip[s] = decision[Handed(s)]
                          /\ ~decision[Handed(s)] => sdQ[s] = Handed(s) - 1
      /\ adding[s] # None =>
            Freed(s) = Handed(s) /\ adding[s] = Handed(s) - 1 /\ sdQ[s] = adding[s]
  BY Parts, Bars, Two DEF DQInv
<1>6. Taken(s) \in Nat /\ Handed(s) \in Nat /\ Taken(s) <= Handed(s)
  <2>1. Taken(s) \in Nat /\ Handed(s) \in Nat
    BY Parts, Counts
  <2>2. QED
    BY <1>3, <1>4, <1>5, <2>1
<1>7. StoreWarp \notin bar[dQFull(s)].blocked
  <2>1. bar[dQFull(s)] \in {NoOne, [count |-> 1, blocked |-> {}]}
    BY <1>5, <1>6 DEF Between
  <2>2. QED
    BY <2>1 DEF NoOne
<1>8. /\ \A c \in Barriers \ {dQFull(s)} : bar'[c] = bar[c]
      /\ \/ Handed(s) = Taken(s) /\ bar'[dQFull(s)] = [count |-> 1, blocked |-> {StoreWarp}]
         \/ Handed(s) = Taken(s) + 1 /\ bar'[dQFull(s)] = NoOne
  BY <1>2, <1>5, <1>6, <1>7, TwoSync
<1>9. ASSUME NEW h \in DQGroups, h # s PROVE OneDQ(h)'
  <2>1. bar'[dQEmpty(h)] = bar[dQEmpty(h)] /\ bar'[dQFull(h)] = bar[dQFull(h)]
    BY <1>8, <1>9, Bars
  <2>2. QED
    BY <1>2, <1>4, <1>9, <2>1, Parts, OtherDQ
<1>10. OneDQ(s)'
  <2>1. /\ StoreWarp' = StoreWarp /\ Asked(s)' = Asked(s) /\ Handed(s)' = Handed(s)
        /\ UNCHANGED <<decision, sdQ, sdQSkip, adding>>
    BY <1>2, Parts, Same DEF Still, Asked, Handed, Place, NumTiles
  <2>2. bar'[dQEmpty(s)] = bar[dQEmpty(s)]
    BY <1>8, Bars
  <2>3. Between(dQEmpty(s), Freed(s), Asked(s), s)'
    BY <1>4, <1>5, <2>1, <2>2 DEF Between, dQEmpty
  <2>4. Between(dQFull(s), Handed(s), Taken(s), StoreWarp)'
    BY <1>4, <1>6, <1>8, <2>1 DEF Between, dQFull
  <2>5. QED
    BY <1>4, <1>5, <2>1, <2>3, <2>4 DEF OneDQ
<1>11. \A c \in CTABarriers : bar'[c] = bar[c]
  BY <1>2, Parts, Elsewhere
<1>12. bar' = [b \in Barriers' |-> bar'[b]]
  BY <1>2, Parts, BarTyped
<1>13. /\ sTile' \in Nat /\ sGroup' \in DQGroups /\ spc' \in {"free", "take", "add"}
       /\ adding' \in [DQGroups -> TilesOr(None)] /\ dQ' \in [DQGroups -> SUBSET Tiles]
       /\ sTile' <= NumTiles /\ sTile' # NumTiles
  BY <1>2, <1>3, Parts DEF DQInv
<1>14. QED
  BY <1>2, <1>9, <1>10, <1>11, <1>12, <1>13, StoreKeeps

LEMMA AddsDQ ==
    ASSUME IInv, AddDQ, UNCHANGED launch
    PROVE  IInv'
<1>1. PICK s \in DQGroups : sGroup = s
  BY Parts
<1>2. /\ Still /\ spc = "add" /\ Running(StoreWarp)
      /\ IF sdQSkip[s] THEN UNCHANGED <<adding, dQ>>
         ELSE /\ adding' = [adding EXCEPT ![s] = sTile]
              /\ dQ' = [dQ EXCEPT ![s] = @ \union {sTile}]
      /\ sGroup' = (s + 1) % NumWgDQ
      /\ IF s + 1 = NumWgDQ THEN spc' = "free" /\ sTile' = sTile + 1
         ELSE spc' = "take" /\ sTile' = sTile
      /\ UNCHANGED <<ppc, qNext, dONext, pskip, qLanded, dOfull, dOflight, words, sdO, bar>>
  BY <1>1 DEF AddDQ, Still, producerVars, qVars, dOVars, memVars, pdsVars, dQVars,
         voteVars, dKVVars, histVars
<1>3. /\ sTile \in Nat /\ s \in Nat /\ NumWgDQ \in Nat /\ s < NumWgDQ
      /\ \A h \in DQGroups : h \in Nat /\ h < NumWgDQ
      /\ (s + 1) % NumWgDQ = IF s + 1 = NumWgDQ THEN 0 ELSE s + 1
      /\ (s + 1) % NumWgDQ \in DQGroups
  BY <1>1, Parts, Round
<1>4. sTile < NumTiles /\ NumTiles \in Nat /\ sTile \in Tiles
  <2>1. sTile <= NumTiles /\ sTile # NumTiles /\ NumTiles \in Nat
    BY <1>2, Parts DEF DQInv
  <2>2. QED
    BY <1>3, <2>1 DEF Tiles
<1>5. ASSUME NEW h \in DQGroups
      PROVE  /\ Freed(h)' = Freed(h) /\ Taken(h)' = Taken(h)
             /\ h # s => Added(h)' = Added(h)
             /\ h = s => /\ Freed(h) = sTile + 1 /\ Taken(h) = sTile + 1
                         /\ Added(h)' = sTile + 1
  <2>1. CASE s + 1 = NumWgDQ
    <3>1. spc' = "free" /\ sGroup' = 0 /\ sTile' = sTile + 1 /\ h \in Nat /\ h <= s
      BY <1>2, <1>3, <2>1
    <3>2. QED
      BY <1>1, <1>2, <1>3, <3>1 DEF Taken, Added, Freed
  <2>2. CASE s + 1 # NumWgDQ
    <3>1. spc' = "take" /\ sGroup' = s + 1 /\ sTile' = sTile /\ h \in Nat
      BY <1>2, <1>3, <2>2
    <3>2. QED
      BY <1>1, <1>2, <1>3, <3>1 DEF Taken, Added, Freed
  <2>3. QED
    BY <2>1, <2>2
<1>6. /\ dQFull(s) \in Barriers
      /\ Between(dQEmpty(s), Freed(s), Asked(s), s)
      /\ Between(dQFull(s), Handed(s), Taken(s), StoreWarp)
      /\ Handed(s) <= Freed(s) /\ Added(s) <= Handed(s)
      /\ Handed(s) > 0 => /\ sdQSkip[s] = decision[Handed(s)]
                          /\ ~decision[Handed(s)] => sdQ[s] = Handed(s) - 1
      /\ adding[s] # None =>
            Freed(s) = Handed(s) /\ adding[s] = Handed(s) - 1 /\ sdQ[s] = adding[s]
  BY Parts, Bars DEF DQInv
(* dQ of the tile has been handed over. *)
<1>7. Handed(s) = sTile + 1
  <2>1. Handed(s) \in Nat /\ Freed(s) = sTile + 1 /\ Taken(s) = sTile + 1
    BY <1>5, Parts, Counts
  <2>2. StoreWarp \notin bar[dQFull(s)].blocked
    BY <1>2, <1>6 DEF Running
  <2>3. ~(bar[dQFull(s)] = [count |-> 1, blocked |-> {StoreWarp}])
    BY <2>2
  <2>4. Taken(s) <= Handed(s)
    <3>1. Between(dQFull(s), Handed(s), Taken(s), StoreWarp)
      BY <1>6
    <3>2. Handed(s) = Taken(s) \/ Handed(s) = Taken(s) + 1
      BY <2>3, <3>1 DEF Between
    <3>3. QED
      BY <1>3, <2>1, <3>2
  <2>5. QED
    BY <1>3, <1>6, <2>1, <2>4
<1>8. /\ adding \in [DQGroups -> TilesOr(None)] /\ dQ \in [DQGroups -> SUBSET Tiles]
      /\ adding' \in [DQGroups -> TilesOr(None)] /\ dQ' \in [DQGroups -> SUBSET Tiles]
      /\ \A h \in DQGroups \ {s} : adding'[h] = adding[h]
      /\ sdQSkip[s] => adding'[s] = adding[s]
      /\ ~sdQSkip[s] => adding'[s] = sTile
  <2>1. adding \in [DQGroups -> TilesOr(None)] /\ dQ \in [DQGroups -> SUBSET Tiles]
    BY Parts
  <2>2. sTile \in TilesOr(None) /\ dQ[s] \union {sTile} \in SUBSET Tiles
    BY <1>4, <2>1 DEF TilesOr
  <2>3. CASE sdQSkip[s]
    BY <1>2, <2>1, <2>3
  <2>4. CASE ~sdQSkip[s]
    BY <1>2, <2>1, <2>2, <2>4
  <2>5. QED
    BY <2>3, <2>4
<1>9. ASSUME NEW h \in DQGroups, h # s PROVE OneDQ(h)'
  BY <1>2, <1>5, <1>8, <1>9, Parts, OtherDQ
<1>10. OneDQ(s)'
  <2>1. /\ StoreWarp' = StoreWarp /\ Asked(s)' = Asked(s) /\ Handed(s)' = Handed(s)
        /\ UNCHANGED <<decision, sdQ, sdQSkip, bar>>
    BY <1>2, Parts, Same DEF Still, Asked, Handed, Place, NumTiles
  <2>2. Between(dQEmpty(s), Freed(s), Asked(s), s)' /\ Between(dQFull(s), Handed(s), Taken(s), StoreWarp)'
    BY <1>5, <1>6, <2>1 DEF Between, dQEmpty, dQFull
  <2>3. adding'[s] # None =>
            Freed(s) = Handed(s) /\ adding'[s] = Handed(s) - 1 /\ sdQ[s] = adding'[s]
    <3>1. CASE sdQSkip[s]
      BY <1>6, <1>8, <3>1
    <3>2. CASE ~sdQSkip[s]
      BY <1>3, <1>5, <1>6, <1>7, <1>8, <3>2
    <3>3. QED
      BY <3>1, <3>2
  <2>4. Added(s)' = sTile + 1 /\ Freed(s)' = Freed(s)
    BY <1>5
  <2>5. QED
    BY <1>3, <1>6, <1>7, <2>1, <2>2, <2>3, <2>4 DEF OneDQ
<1>11. /\ \A c \in CTABarriers : bar'[c] = bar[c]
       /\ bar' = [b \in Barriers' |-> bar'[b]]
  BY <1>2, Parts, BarTyped
<1>12. /\ sTile' \in Nat /\ sGroup' \in DQGroups /\ spc' \in {"free", "take", "add"}
       /\ sTile' <= NumTiles /\ (sTile' = NumTiles => spc' = "free" /\ sGroup' = 0)
  <2>1. CASE s + 1 = NumWgDQ
    BY <1>2, <1>3, <1>4, <2>1
  <2>2. CASE s + 1 # NumWgDQ
    BY <1>2, <1>3, <1>4, <2>2
  <2>3. QED
    BY <2>1, <2>2
<1>13. QED
  BY <1>2, <1>8, <1>9, <1>10, <1>11, <1>12, StoreKeeps

LEMMA AddRead ==
    ASSUME IInv, NEW g \in DQGroups, AddReads(g), UNCHANGED launch
    PROVE  IInv'
<1>1. /\ Still /\ adding' = [adding EXCEPT ![g] = None]
      /\ UNCHANGED <<ppc, qNext, dONext, pskip, sTile, sGroup, spc, qLanded, dOfull, dOflight,
                     words, sdO, dQ, bar>>
  BY DEF AddReads, Still, producerVars, qVars, dOVars, memVars, pdsVars, dQVars,
         voteVars, dKVVars, histVars
<1>2. /\ adding' \in [DQGroups -> TilesOr(None)]
      /\ \A h \in DQGroups : adding'[h] \in {adding[h], None}
  <2>1. adding \in [DQGroups -> TilesOr(None)] /\ None \in TilesOr(None)
    BY Parts DEF TilesOr
  <2>2. QED
    BY <1>1, <2>1
<1>3. ASSUME NEW h \in DQGroups
      PROVE  OneDQ(h)'
  <2>1. Freed(h)' = Freed(h) /\ Taken(h)' = Taken(h) /\ Added(h)' = Added(h)
    BY <1>1 DEF Freed, Taken, Added
  <2>2. QED
    BY <1>1, <1>2, <2>1, Parts, OtherDQ
<1>4. /\ \A c \in CTABarriers : bar'[c] = bar[c]
      /\ bar' = [b \in Barriers' |-> bar'[b]]
  BY <1>1, Parts, BarTyped DEF Still
<1>5. /\ sTile' \in Nat /\ sGroup' \in DQGroups /\ spc' \in {"free", "take", "add"}
      /\ sTile' <= NumTiles /\ (sTile' = NumTiles => spc' = "free" /\ sGroup' = 0)
      /\ dQ' \in [DQGroups -> SUBSET Tiles]
  BY <1>1, Parts DEF DQInv
<1>6. QED
  BY <1>1, <1>2, <1>3, <1>4, <1>5, StoreKeeps

(* Nothing happens. *)
LEMMA Stutters ==
    ASSUME IInv, UNCHANGED vars
    PROVE  IInv'
<1>1. /\ Still
      /\ UNCHANGED <<ppc, qNext, dONext, pskip, sTile, sGroup, spc, adding, qLanded, dOfull,
                     dOflight, words, sdO, dQ, bar>>
  BY DEF vars, Still, producerVars, storeVars, qVars, dOVars, memVars, pdsVars, dQVars,
         voteVars, dKVVars, histVars
<1>2. ASSUME NEW h \in DQGroups
      PROVE  OneDQ(h)'
  <2>1. Freed(h)' = Freed(h) /\ Taken(h)' = Taken(h) /\ Added(h)' = Added(h)
    BY <1>1 DEF Freed, Taken, Added
  <2>2. QED
    BY <1>1, <2>1, Parts, OtherDQ
<1>3. /\ \A c \in CTABarriers : bar'[c] = bar[c]
      /\ bar' = [b \in Barriers' |-> bar'[b]]
  BY <1>1, Parts, BarTyped DEF Still
<1>4. /\ sTile' \in Nat /\ sGroup' \in DQGroups /\ spc' \in {"free", "take", "add"}
      /\ sTile' <= NumTiles /\ (sTile' = NumTiles => spc' = "free" /\ sGroup' = 0)
      /\ adding' \in [DQGroups -> TilesOr(None)] /\ dQ' \in [DQGroups -> SUBSET Tiles]
  BY <1>1, Parts DEF DQInv
<1>5. QED
  BY <1>1, <1>2, <1>3, <1>4, StoreKeeps

LEMMA Steps ==
    ASSUME IInv, [Next]_vars
    PROVE  IInv'
<1>1. CASE ProducerStep
  BY <1>1, LoadsQ, AwaitsVote, ReadsOutcome, AcquiresDO, LoadsDO DEF ProducerStep, Following
<1>2. CASE QStep
  BY <1>2, QLanding DEF QStep, Following
<1>3. CASE DOStep
  BY <1>3, DOLanding DEF DOStep, Following
<1>4. CASE StoreStep
  BY <1>4, FreesDQ, TakesDQ, AddsDQ DEF StoreStep, Following
<1>5. CASE AddStep
  BY <1>5, AddRead DEF AddStep, Following
<1>6. CASE \E g \in Groups : GroupStep(g)
  BY <1>6, GroupKeeps
<1>7. CASE UNCHANGED vars
  BY <1>7, Stutters
<1>8. QED
  BY <1>1, <1>2, <1>3, <1>4, <1>5, <1>6, <1>7 DEF Next

-----------------------------------------------------------------------------
(* The initial states. *)

LEMMA Starts ==
    ASSUME Init
    PROVE  IInv
<1>1. /\ launch \in Launches /\ NumGroups \in Nat \ {0} /\ NumTiles \in Nat
      /\ 0 \in Groups /\ Producer \notin Groups /\ 0 \in DQGroups /\ DQGroups \subseteq Groups
      /\ Groups \subseteq Nat
  BY GroupSet DEF Init
<1>2. \A g \in Groups : /\ pc[g] = IF NumTiles = 0 THEN "fill" ELSE "q"
                        /\ tile[g] = 0 /\ qTaken[g] = 0
  BY <1>1 DEF Init
<1>3. \A b \in Barriers : bar[b] = [count |-> 0, blocked |-> {}]
  BY DEF Init, NoOne
<1>4. \A g \in Groups : Place(g) = 0
  BY <1>1, <1>2 DEF Place, Closing
<1>5. \A a : ~Blocked(a)
  BY <1>3, Bars DEF Blocked
<1>6. /\ \A g \in DQGroups : adding[g] = None
      /\ sTile = 0 /\ sGroup = 0 /\ spc = "free" /\ decision = <<>> /\ Len(decision) = 0
      /\ qNext = 0 /\ dONext = 0 /\ ppc = "q" /\ pskip = FALSE /\ qLanded = {} /\ sKV = TRUE
      /\ dOfull = [phase |-> 0, pending |-> 1, tx |-> 0] /\ dOflight = {}
      /\ dOempty = [phase |-> 0, pending |-> NumGroups, tx |-> 0]
  BY DEF Init, MbarInit
<1>7. TypeInv
  <2>1. /\ launch \in Launches
        /\ qNext \in Nat /\ dONext \in Nat /\ pskip \in BOOLEAN
        /\ ppc \in {"q", "vote", "read", "acquire", "load"}
        /\ sTile \in Nat /\ sGroup \in DQGroups /\ spc \in {"free", "take", "add"}
        /\ qLanded \subseteq Tiles /\ sKV \in BOOLEAN
    BY <1>1, <1>6
  <2>0. decision \in Seq(BOOLEAN)
    BY <1>6, EmptySeq
  <2>2. /\ None \in TilesOr(None) /\ Garbage \in TilesOr(Garbage) /\ DS(Garbage) \in Words0
        /\ {Garbage} \in SUBSET TilesOr(Garbage) /\ {} \in SUBSET Tiles
    BY Words0s DEF TilesOr
  <2>3. adding \in [DQGroups -> TilesOr(None)] /\ qTaken \in [Groups -> Nat]
    BY <2>2 DEF Init
  <2>4. bar = [b \in Barriers |-> bar[b]]
    BY DEF Init
  <2>5. words \in [Words -> Words0]
    BY <2>2 DEF Init
  <2>6. /\ sdS \in [Stages -> [Groups -> TilesOr(Garbage)]]
        /\ sP \in [Stages -> [Groups -> TilesOr(Garbage)]]
        /\ sdO \in TilesOr(Garbage)
        /\ sdQ \in [DQGroups -> TilesOr(Garbage)] /\ sdQSkip \in [DQGroups -> BOOLEAN]
    BY <2>2 DEF Init
  <2>7. pc \in [Groups -> Labels]
    BY DEF Init, Labels
  <2>8. /\ tile \in [Groups -> Nat]
        /\ vote \in [Groups -> BOOLEAN] /\ rSkip \in [Groups -> BOOLEAN]
        /\ accumulate \in [Groups -> BOOLEAN] /\ misread \in BOOLEAN
    BY DEF Init
  <2>9. dKV \in [Groups -> SUBSET TilesOr(Garbage)] /\ dQ \in [DQGroups -> SUBSET Tiles]
    BY <2>2 DEF Init
  <2>10. QED
    BY <2>0, <2>1, <2>3, <2>4, <2>5, <2>6, <2>7, <2>8, <2>9 DEF TypeInv
<1>8. BarInv
  <2>1. ASSUME NEW b \in CTABarriers
        PROVE  /\ bar[b] = [count |-> Cardinality(bar[b].blocked), blocked |-> bar[b].blocked]
               /\ bar[b].blocked = {} /\ bar[b].count < Cardinality(Parties(b))
    <3>1. Cardinality(Parties(b)) \in Nat \ {0} /\ b \in Barriers
      BY <1>1, Party, Bars
    <3>2. bar[b].blocked = {} /\ bar[b].count = 0 /\ Cardinality(bar[b].blocked) = 0
      BY <1>3, <3>1, FS_EmptySet
    <3>3. QED
      BY <1>3, <3>1, <3>2
  <2>2. QED
    BY <2>1 DEF BarInv
<1>9. GateInv
  <2>1. ASSUME NEW g \in Groups
        PROVE  Gate(g) = <<0, IF NumTiles = 0 THEN "epilogue" ELSE "cast">>
    BY <1>2, <1>4, <1>5, Gates DEF Gate
  <2>2. ProducerGate = <<0, "full">>
    BY <1>5, <1>6 DEF ProducerGate, NextProducerGate
  <2>3. Follows(Gate(0)) = <<0, "full">>
    BY <1>1, <2>1 DEF Follows
  <2>4. QED
    BY <2>1, <2>2, <2>3 DEF GateInv
<1>10. PlaceInv
  <2>1. ASSUME NEW g \in Groups PROVE PlaceOK(g)
    BY <1>1, <1>2, <1>4, <1>6 DEF PlaceOK, Closing, TilesOr, Decided, KeptAt
  <2>2. QED
    BY <1>1, <1>2, <1>4, <1>6, <2>1 DEF PlaceInv, Decided
<1>11. QInv
  BY <1>1, <1>2, <1>4, <1>6 DEF QInv, Voting, Decided
<1>12. DOFullInv
  BY <1>6 DEF DOFullInv
<1>13. DOEmptyInv
  <2>1. \A g \in Groups : Waited(g) = 0 /\ Released(g) = 0
    BY <1>2, <1>4 DEF Waited, Released, KeptAt
  <2>2. {g \in Groups : Released(g) = dOempty.phase + 1} = {}
    BY <1>6, <2>1
  <2>3. Cardinality({g \in Groups : Released(g) = dOempty.phase + 1}) = 0
    BY <2>2, FS_EmptySet
  <2>4. QED
    BY <1>1, <1>6, <2>1, <2>3 DEF DOEmptyInv
<1>14. OutcomeInv
  BY <1>6 DEF OutcomeInv
<1>15. VoteInv
  BY <1>1, <1>2 DEF VoteInv, CastOK
<1>16. PartsInv
  BY <1>1, <1>2, <1>4, <1>6 DEF PartsInv, KeptAt, LastKept
<1>17. DQInv
  <2>1. ASSUME NEW g \in DQGroups
        PROVE  /\ Freed(g) = 0 /\ Asked(g) = 0 /\ Handed(g) = 0 /\ Taken(g) = 0 /\ Added(g) = 0
               /\ bar[dQEmpty(g)] = NoOne /\ bar[dQFull(g)] = NoOne /\ adding[g] = None
    <3>1. g \in Nat /\ Place(g) = 0 /\ pc[g] \in {"fill", "q"}
      BY <1>1, <1>2, <1>4
    <3>2. QED
      BY <1>3, <1>6, <3>1, Bars DEF Freed, Asked, Handed, Taken, Added, NoOne
  <2>2. QED
    BY <1>1, <1>6, <2>1 DEF DQInv, Between
<1>18. SkipInv
  BY <1>2 DEF SkipInv, Decided
<1>19. QED
  BY <1>7, <1>8, <1>9, <1>10, <1>11, <1>12, <1>13, <1>14, <1>15, <1>16, <1>17, <1>18 DEF IInv

-----------------------------------------------------------------------------
(* What the invariant says of the operands. *)

(* A group that has met the others over P and dS finds the parts of all. *)
LEMMA WholeParts ==
    ASSUME IInv, NEW g \in Groups, ~Blocked(g), pc[g] \in {"dv", "dq", "hand", "dk"},
           NEW h \in Groups
    PROVE  HasP(h, Place(g)) /\ HasDS(h, Place(g))
<1>1. PICK t \in Nat : Place(g) = t
  BY Parts, PlaceNat
<1>2. PICK u \in Nat : Place(h) = u
  BY Parts, PlaceNat
<1>3. PICK L \in {"cast", "epilogue"} : NextGate(launch, decision, pc[g], Place(g)) = <<t + 1, L>>
  BY <1>1, Gates DEF BeginGate
<1>4. ~decision[t + 1] /\ pc[h] \in Labels
  BY <1>1, Parts DEF PlaceInv, PlaceOK, KeptAt, TypeInv
<1>5. /\ Blocked(h) => pc[h] = L /\ u = t + 1
      /\ ~Blocked(h) => NextGate(launch, decision, pc[h], u) = <<t + 1, L>>
  BY <1>2, <1>3, Parts, Company
<1>6. CASE u = t + 1 /\ Late(h)
  <2>1. LastKept(h) /\ Place(h) - 1 = t
    BY <1>1, <1>2, <1>4, <1>6 DEF LastKept
  <2>2. QED
    BY <1>1, <2>1, Parts DEF PartsInv
<1>7. CASE u = t /\ pc[h] \in AfterDO
  <2>1. pc[h] # "mark"
    BY <1>2, <1>4, <1>7, Parts DEF PlaceInv, PlaceOK
  <2>2. pc[h] \in KeptAt \ {"p", "ds"}
    BY <1>7, <2>1 DEF AfterDO, KeptAt
  <2>3. QED
    BY <1>1, <1>2, <1>7, <2>2, Parts DEF PartsInv
<1>8. CASE Blocked(h)
  BY <1>5, <1>6, <1>8 DEF Late
<1>9. CASE ~Blocked(h)
  <2>1. \/ pc[h] \in {"q", "s", "fill"} /\ u = t + 1
        \/ (pc[h] \in AfterDO \/ (pc[h] = "do" /\ decision[u + 1])) /\ u + 1 = t + 1
    BY <1>3, <1>4, <1>5, <1>9, Back
  <2>2. u + 1 = t + 1 => u = t
    OBVIOUS
  <2>3. QED
    BY <1>4, <1>6, <1>7, <2>1, <2>2 DEF Late
<1>10. QED
  BY <1>8, <1>9

LEMMA BarriersOK ==
    ASSUME IInv, NEW b \in Barriers
    PROVE  BarrierOK(bar[b], Actors, NumberOfThreads(b))
<1>1. /\ launch \in Launches /\ NumGroups \in Nat \ {0} /\ DQGroups \subseteq Groups
      /\ Groups = 0 .. NumGroups - 1 /\ Producer = NumGroups /\ StoreWarp = NumGroups + 1
      /\ Actors = 0 .. NumGroups + 1
  BY Parts, GroupSet DEF StoreWarp, Actors
<1>2. Groups \subseteq Actors /\ Producer \in Actors /\ StoreWarp \in Actors
  BY <1>1
<1>3. CASE b \in CTABarriers
  <2>1. /\ bar[b] = [count |-> Cardinality(bar[b].blocked), blocked |-> bar[b].blocked]
        /\ bar[b].blocked \subseteq Parties(b)
        /\ bar[b].count < Cardinality(Parties(b))
    BY <1>3, Parts DEF BarInv
  <2>2. /\ IsFiniteSet(Parties(b)) /\ Cardinality(Parties(b)) \in Nat
        /\ NumberOfThreads(b) = Cardinality(Parties(b))
    BY <1>1, <1>3, Party
  <2>3. Cardinality(bar[b].blocked) \in Nat
    BY <2>1, <2>2, FS_Subset, FS_CardinalityType
  <2>4. bar[b].count = Cardinality(bar[b].blocked)
    BY <2>1
  <2>5. bar[b].count \in 0 .. NumberOfThreads(b) - 1
    BY <2>1, <2>2, <2>3, <2>4
  <2>6. bar[b].blocked \subseteq Actors
    BY <1>2, <2>1 DEF Parties
  <2>7. QED
    BY <2>3, <2>4, <2>5, <2>6 DEF BarrierOK
<1>4. ASSUME NEW a \in Actors, NEW x, NEW y, Between(b, x, y, a), NumberOfThreads(b) = 2
      PROVE  BarrierOK(bar[b], Actors, NumberOfThreads(b))
  <2>1. \/ bar[b] = [count |-> 0, blocked |-> {}]
        \/ bar[b] = [count |-> 1, blocked |-> {}]
        \/ bar[b] = [count |-> 1, blocked |-> {a}]
    BY <1>4 DEF Between, NoOne
  <2>2. Cardinality({}) = 0 /\ Cardinality({a}) = 1
    BY FS_EmptySet, FS_Singleton
  <2>3. QED
    BY <1>4, <2>1, <2>2 DEF BarrierOK
<1>5. ASSUME NEW g \in DQGroups, b \in {dQFull(g), dQEmpty(g)}
      PROVE  BarrierOK(bar[b], Actors, NumberOfThreads(b))
  <2>1. /\ Between(dQEmpty(g), Freed(g), Asked(g), g)
        /\ Between(dQFull(g), Handed(g), Taken(g), StoreWarp)
    BY Parts DEF DQInv
  <2>2. NumberOfThreads(b) = 2 /\ g \in Actors
    BY <1>1, <1>2, <1>5, Two
  <2>3. QED
    BY <1>2, <1>4, <1>5, <2>1, <2>2
<1>6. QED
  BY <1>3, <1>5 DEF Barriers, CTABarriers

(* Every variable has its type. *)
LEMMA Typed ==
    ASSUME IInv
    PROVE  TypeOK
<1>1. /\ TypeInv /\ NumTiles \in Nat /\ NumGroups \in Nat \ {0} /\ dONext \in Nat /\ qNext \in Nat
      /\ DQGroups \subseteq Groups
  BY Parts, GroupSet
<1>2. dONext <= qNext /\ qNext <= NumTiles
  BY <1>1, Parts DEF QInv
<1>3. qNext \in 0 .. NumTiles /\ dONext \in 0 .. NumTiles
  BY <1>1, <1>2
<1>4. sTile \in 0 .. NumTiles
  BY <1>1, Parts DEF DQInv
<1>5. ASSUME NEW g \in Groups
      PROVE  qTaken[g] \in 0 .. NumTiles /\ tile[g] \in TilesOr(0)
  <2>1. PlaceOK(g) /\ tile[g] \in Nat /\ qTaken[g] = Place(g)
    BY <1>1, Parts DEF PlaceInv, QInv, TypeInv
  <2>2. CASE pc[g] \in Closing
    BY <1>1, <2>1, <2>2 DEF PlaceOK, Place
  <2>3. CASE pc[g] \notin Closing
    BY <1>1, <2>1, <2>3 DEF PlaceOK, Place, TilesOr, Tiles
  <2>4. QED
    BY <2>2, <2>3
<1>6. qTaken \in [Groups -> 0 .. NumTiles] /\ tile \in [Groups -> TilesOr(0)]
  <2>1. qTaken = [g \in Groups |-> qTaken[g]] /\ tile = [g \in Groups |-> tile[g]]
    BY <1>1 DEF TypeInv
  <2>2. QED
    BY <1>5, <2>1
<1>7. /\ dOfull.phase \in Nat /\ dOfull.pending + dOfull.tx = 1 /\ dOfull.tx \in 0 .. 1
      /\ dOflight \subseteq Tiles /\ Cardinality(dOflight) <= dOfull.tx
  <2>1. Cardinality({}) = 0 /\ Cardinality({dONext - 1}) = 1
    BY FS_EmptySet, FS_Singleton
  <2>2. CASE /\ dOfull = [phase |-> dONext + (IF ppc = "load" THEN 1 ELSE 0), pending |-> 1, tx |-> 0]
             /\ dOflight = {}
    BY <1>1, <2>1, <2>2
  <2>3. CASE dOfull = [phase |-> dONext, pending |-> 0, tx |-> 1] /\ dOflight = {}
    BY <1>1, <2>1, <2>3
  <2>4. CASE dONext > 0 /\ dOfull = [phase |-> dONext - 1, pending |-> 0, tx |-> 1]
             /\ dOflight = {dONext - 1}
    <3>1. dONext - 1 \in Nat /\ dONext - 1 \in Tiles
      BY <1>1, <1>3, <2>4 DEF Tiles
    <3>2. QED
      BY <2>1, <2>4, <3>1
  <2>5. QED
    BY <2>2, <2>3, <2>4, Parts DEF DOFullInv
<1>8. dOempty.phase \in Nat /\ dOempty.pending \in 1 .. NumGroups /\ dOempty.tx = 0
  BY Parts DEF DOEmptyInv
<1>9. \A b \in Barriers : BarrierOK(bar[b], Actors, NumberOfThreads(b))
  BY BarriersOK
<1>10. /\ pskip \in BOOLEAN /\ ppc \in {"q", "vote", "read", "acquire", "load"}
       /\ sGroup \in DQGroups /\ spc \in {"free", "take", "add"}
       /\ adding \in [DQGroups -> TilesOr(None)] /\ qLanded \subseteq Tiles
       /\ words \in [Words -> Words0]
       /\ sdS \in [Stages -> [Groups -> TilesOr(Garbage)]]
       /\ sP \in [Stages -> [Groups -> TilesOr(Garbage)]]
       /\ sdO \in TilesOr(Garbage) /\ sKV \in BOOLEAN
  BY <1>1 DEF TypeInv
<1>11. /\ sdQ \in [DQGroups -> TilesOr(Garbage)] /\ sdQSkip \in [DQGroups -> BOOLEAN]
       /\ pc \in [Groups -> Labels]
       /\ vote \in [Groups -> BOOLEAN] /\ rSkip \in [Groups -> BOOLEAN]
       /\ accumulate \in [Groups -> BOOLEAN] /\ misread \in BOOLEAN
       /\ decision \in Seq(BOOLEAN)
       /\ dKV \in [Groups -> SUBSET TilesOr(Garbage)] /\ dQ \in [DQGroups -> SUBSET Tiles]
  BY <1>1 DEF TypeInv
<1>12. QED
  BY <1>3, <1>4, <1>6, <1>7, <1>8, <1>9, <1>10, <1>11 DEF TypeOK, Words0

(* Every operand is whole when it is read. *)
LEMMA Whole ==
    ASSUME IInv
    PROVE  ReadsWhole
<1>1. ASSUME NEW g \in Groups
      PROVE  /\ pc[g] \in {"s", "p", "dv", "dq"} => sKV
             /\ pc[g] \in {"p", "dv"} => sdO = tile[g]
  <2>1. pc[g] \in {"p", "dv"} => Place(g) = tile[g]
    BY DEF Place, Closing
  <2>2. QED
    BY <2>1, Parts DEF PartsInv
<1>2. /\ launch \in Launches
      /\ sdS \in [Stages -> [Groups -> TilesOr(Garbage)]]
      /\ sP \in [Stages -> [Groups -> TilesOr(Garbage)]]
      /\ words \in [Words -> Words0] /\ 0 \in Groups
      /\ \A g \in Groups : tile[g] \in Nat /\ pc[g] \in Labels
  BY Parts, GroupSet DEF TypeInv
<1>3. ASSUME NEW g \in Groups, pc[g] = "dv", ~launch.rs
      PROVE  sP[StagePdS(tile[g])] = [h \in Groups |-> tile[g]]
  <2>1. PICK t \in Nat : Place(g) = t /\ tile[g] = t
    BY <1>2, <1>3, Parts, PlaceNat DEF Place, Closing
  <2>2. ASSUME NEW h \in Groups
        PROVE  HasP(h, t)
    <3>1. CASE ~Blocked(g)
      BY <1>3, <2>1, <3>1, WholeParts
    <3>2. CASE Blocked(g)
      <4>1. Gate(g) = <<t, "dv">> /\ Gate(h) = Gate(g)
        BY <1>3, <2>1, <3>2, Parts DEF Gate, GateInv
      <4>2. CASE Blocked(h)
        <5>1. pc[h] = "dv" /\ Place(h) = t
          BY <4>1, <4>2 DEF Gate
        <5>2. QED
          BY <5>1, Parts DEF PartsInv, KeptAt
      <4>3. CASE ~Blocked(h)
        <5>1. PICK u \in Nat : Place(h) = u
          BY Parts, PlaceNat
        <5>2. NextGate(launch, decision, pc[h], u) = <<t, "dv">>
          BY <4>1, <4>3, <5>1 DEF Gate
        <5>3. pc[h] = "ds" /\ u = t
          BY <1>2, <1>3, <5>2, Back
        <5>4. QED
          BY <5>1, <5>3, Parts DEF PartsInv, KeptAt
      <4>4. QED
        BY <4>2, <4>3
    <3>3. QED
      BY <3>1, <3>2
  <2>3. StagePdS(t) \in Stages
    BY <1>2, Stage
  <2>4. sP[StagePdS(t)] = [h \in Groups |-> sP[StagePdS(t)][h]]
    BY <1>2, <2>3
  <2>5. \A h \in Groups : sP[StagePdS(t)][h] = t
    BY <1>3, <2>2 DEF HasP
  <2>6. QED
    BY <2>1, <2>4, <2>5
<1>4. ASSUME NEW g \in Groups, \/ At(g, "dv") \/ At(g, "dq")
                               \/ pc[g] \in {"hand", "dk"} /\ ~launch.rs
      PROVE  /\ sdS[StagePdS(tile[g])] = [h \in Groups |-> tile[g]]
             /\ StagePdS(tile[g]) = 0 => words = [w \in Words |-> DS(tile[g])]
  <2>1. pc[g] \in {"dv", "dq", "hand", "dk"} /\ ~Blocked(g)
    <3>1. CASE At(g, "dv") \/ At(g, "dq")
      BY <3>1, Bars DEF At, Running, Blocked
    <3>2. CASE pc[g] \in {"hand", "dk"}
      <4>1. SUFFICES ASSUME NEW c \in CTABarriers, g \in bar[c].blocked PROVE FALSE
        BY <3>2 DEF Blocked
      <4>2. g # Producer
        BY <1>2, GroupSet
      <4>3. pc[g] \in ArrivesAt
        BY <4>1, <4>2, Parts, WhoIsBlocked
      <4>4. QED
        BY <3>2, <4>3 DEF ArrivesAt
    <3>3. QED
      BY <1>4, <3>1, <3>2
  <2>2. PICK t \in Nat : Place(g) = t /\ tile[g] = t
    BY <1>2, <2>1, Parts, PlaceNat DEF Place, Closing
  <2>3. \A h \in Groups : HasDS(h, t)
    BY <2>1, <2>2, WholeParts
  <2>4. StagePdS(t) \in Stages
    BY <1>2, Stage
  <2>5. sdS[StagePdS(t)] = [h \in Groups |-> sdS[StagePdS(t)][h]]
    BY <1>2, <2>4
  <2>6. sdS[StagePdS(t)] = [h \in Groups |-> t]
    BY <2>3, <2>5 DEF HasDS
  <2>7. StagePdS(t) = 0 => words = [w \in Words |-> DS(t)]
    BY <1>2, <2>3 DEF HasDS
  <2>8. QED
    BY <2>2, <2>6, <2>7
<1>5. \A g \in DQGroups : adding[g] # None => sdQ[g] = adding[g]
  BY Parts DEF DQInv
<1>6. QED
  BY <1>1, <1>3, <1>4, <1>5 DEF ReadsWhole

(* Everybody acts on one outcome. *)
LEMMA Agreed ==
    ASSUME IInv
    PROVE  SkipAgreement
<1>1. SUFFICES ASSUME ~misread PROVE SkipAgreement
  BY DEF SkipAgreement
<1>2. ASSUME NEW g \in Groups, Settled(g)
      PROVE  rSkip[g] = decision[tile[g] + 1]
  <2>1. pc[g] \in Decided /\ Place(g) = tile[g]
    BY <1>2 DEF Settled, Decided, Place, Closing
  <2>2. QED
    BY <1>1, <2>1, Parts DEF SkipInv
<1>3. ppc \in {"acquire", "load"} => pskip = decision[dONext + 1]
  BY Parts DEF OutcomeInv
<1>4. ASSUME spc = "add", Running(StoreWarp)
      PROVE  sdQSkip[sGroup] = decision[sTile + 1]
  <2>1. PICK s \in DQGroups : sGroup = s
    BY Parts
  <2>2. /\ sTile \in Nat /\ Handed(s) \in Nat
        /\ Freed(s) = sTile + 1 /\ Taken(s) = sTile + 1
    <3>1. sTile \in Nat /\ Handed(s) \in Nat
      BY Parts, Counts
    <3>2. QED
      BY <1>4, <2>1, <3>1 DEF Freed, Taken
  <2>3. /\ dQFull(s) \in Barriers
        /\ Between(dQFull(s), Handed(s), Taken(s), StoreWarp)
        /\ Handed(s) <= Freed(s)
        /\ Handed(s) > 0 => sdQSkip[s] = decision[Handed(s)]
    BY Parts, Bars DEF DQInv
  <2>4. StoreWarp \notin bar[dQFull(s)].blocked
    BY <1>4, <2>3 DEF Running
  <2>5. ~(bar[dQFull(s)] = [count |-> 1, blocked |-> {StoreWarp}])
    BY <2>4
  <2>6. Handed(s) = Taken(s) \/ Handed(s) = Taken(s) + 1
    BY <2>3, <2>5 DEF Between
  <2>7. Handed(s) = sTile + 1
    BY <2>2, <2>3, <2>6
  <2>8. QED
    BY <2>1, <2>2, <2>3, <2>7
<1>5. QED
  BY <1>2, <1>3, <1>4 DEF SkipAgreement

-----------------------------------------------------------------------------
(* The invariant holds, for every number of tiles, all launches the host   *)
(* chooses and all outcomes of the votes: at every barrier of the CTA only *)
(* those wait that the others are on their way to, and the counts of both  *)
(* pipelines follow from where everybody is.                               *)
THEOREM Invariant == Spec => []IInv
<1>1. Init => IInv
  BY Starts
<1>2. IInv /\ [Next]_vars => IInv'
  BY Steps
<1>3. QED
  BY <1>1, <1>2, PTL DEF Spec

(* Every variable keeps its type: no barrier takes more arrivals than a    *)
(* phase has, no more than one dO is under way.                            *)
THEOREM TypeCorrect == Spec => []TypeOK
<1>1. IInv => TypeOK
  BY Typed
<1>2. QED
  BY Invariant, <1>1, PTL

(* Whatever is skipped, a group multiplies only operands that are whole:   *)
(* K and V until the epilogue, dO, P and dS of its own tile with all the   *)
(* groups' parts and no vote on dS, and a bulk add reads dQ of its tile.   *)
THEOREM OperandsWhole == Spec => []ReadsWhole
<1>1. IInv => ReadsWhole
  BY Whole
<1>2. QED
  BY Invariant, <1>1, PTL

(* Until an outcome is misread, the groups, the producer and the store     *)
(* warp act on one outcome of every tile: the conjunction of its votes.    *)
THEOREM OneOutcome == Spec => []SkipAgreement
<1>1. IInv => SkipAgreement
  BY Agreed
<1>2. QED
  BY Invariant, <1>1, PTL
=============================================================================
