--------------------------- MODULE SparseFwdProofs ---------------------------
(***************************************************************************)
(* The sparse SM90 forward kernel for one query tile of any number of      *)
(* blocks and segments, every launch and every outcome of the votes: types *)
(* of the barriers, one outcome for all, one scale, V that is intact while *)
(* it is read, and the implementation of SkipFold.  At the end the ring    *)
(* its K goes through, TmaPipeline, whose names begin with Ring where the  *)
(* mainloop has them as well.                                              *)
(*                                                                         *)
(* The argument for the mainloop.  A group is blocked at a barrier of the  *)
(* CTA or knows which one it meets next: its gate.  All groups have one    *)
(* gate and the producer's follows from it (GateInv), for a barrier lets   *)
(* all through at once.  How many blocks a group has scored, voted on,     *)
(* waited for, multiplied with and released follows from where it is, so   *)
(* that the counts of pipeline_v do (VFullInv, VEmptyInv), the votes that  *)
(* lie in the words (VoteInv) and the outcomes everybody acts on (SkipInv, *)
(* ProducerInv).                                                           *)
(***************************************************************************)
EXTENDS SparseFwdSm90, TmaPipeline, FiniteSetTheorems, SequenceTheorems, TLAPS

CTABarriers == {PFull, PEmpty, Softmax}

Blocked(actor) == \E b \in CTABarriers : actor \in bar[b].blocked

(* The labels after the vote on a block.  With overlap "v", "sched" and    *)
(* "pv" are of the block before, without they follow it.                   *)
IsAfter(l, label) == \/ label \in {"soft", "lastv", "lastpv", "yield", "done"}
                     \/ ~l.overlap /\ label \in {"v", "sched", "pv"}
After(g) == IsAfter(launch, pc[g])

(* A group whose scores run one block ahead of the V it waits for.         *)
Behind(g) == /\ Overlap /\ blk[g] \notin Starts
             /\ pc[g] \in {"k", "sched", "v", "pv", "mma", "pvrest", "vrel"}

(* The labels to which a barrier of the CTA leads, and the barrier. *)
ArrivesAt == {"vrel", "reduce", "read", "full", "soft"}
BarrierOf(label) ==
    CASE label = "full" -> PFull
      [] label = "soft" -> PEmpty
      [] OTHER -> Softmax

(* The first barrier of the CTA a group comes to at a block, and the next  *)
(* one after a label.                                                      *)
FirstGate(l, b) ==
    <<b, IF b = 0 THEN "full" ELSE IF l.overlap /\ b \notin l.starts THEN "vrel" ELSE "reduce">>

NextGate(l, label, b) ==
    CASE label = "vrel"   -> <<b, "reduce">>
      [] label = "vote"   -> <<b, IF b = 0 THEN "full" ELSE "reduce">>
      [] label = "reduce" -> <<b, "read">>
      [] label = "read"   -> <<b, "full">>
      [] label = "full"   -> <<b, "soft">>
      [] IsAfter(l, label) -> FirstGate(l, b + 1)
      [] OTHER -> FirstGate(l, b)

Gate(g) == IF Blocked(g) THEN <<blk[g], pc[g]>> ELSE NextGate(launch, pc[g], blk[g])

(* The label "full" stands for PFull, "soft" for PEmpty. *)
NextProducerGate(label, v) ==
    CASE label \in {"next", "done"} -> <<v, "full">>
      [] label = "full" -> <<v, "soft">>
      [] OTHER -> <<v + 1, "full">>

ProducerGate ==
    IF Blocked(Producer) THEN <<vq, IF ppc = "full" THEN "full" ELSE "soft">>
    ELSE NextProducerGate(ppc, vq)

(* The gate of the producer when the groups have a gate. *)
Follows(gate) == <<gate[1], IF gate[2] = "soft" THEN "soft" ELSE "full">>

GateInv ==
    /\ \A g, h \in Groups : Gate(g) = Gate(h)
    /\ ProducerGate = Follows(Gate(0))

(* A barrier of the CTA counts those blocked on it; one of the scheduler   *)
(* counts to two.                                                          *)
Parties(b) == IF b \in {PFull, PEmpty} THEN Groups \union {Producer} ELSE Groups
BarInv ==
    \A b \in CTABarriers :
        /\ bar[b] = [count |-> Cardinality(bar[b].blocked), blocked |-> bar[b].blocked]
        /\ bar[b].blocked \subseteq Parties(b)
        /\ bar[b].count < Cardinality(Parties(b))
        /\ \A g \in bar[b].blocked : g # Producer =>
              pc[g] \in ArrivesAt
              /\ b = BarrierOf(pc[g])
        /\ Producer \in bar[b].blocked =>
              \/ b = PFull /\ ppc = "full"
              \/ b = PEmpty /\ ppc = "empty"
TurnOK(b) == /\ b = [count |-> b.count, blocked |-> b.blocked]
             /\ BarrierOK(b, Groups, 2)
TurnInv == \A g \in Groups : TurnOK(bar[WarpScheduler(g)])

BlocksOr(x) == Blocks \union {x}
WordSet == {Vote(f) : f \in BOOLEAN} \union {VBytes(b) : b \in BlocksOr(Garbage)}

TypeInv ==
    /\ launch \in Launches
    /\ kq \in 0 .. NumBlocks /\ vq \in 0 .. NumBlocks /\ pskip \in BOOLEAN
    /\ ppc \in {"next", "full", "empty", "load", "done"}
    /\ kLanded \subseteq Blocks /\ kTaken \in [Groups -> Nat]
    /\ sV \in BlocksOr(Garbage) /\ sSkip \in [Words -> WordSet]
    /\ bar = [b \in Barriers |-> bar[b]]
    /\ pc \in [Groups -> Labels] /\ blk \in [Groups -> Blocks]
    /\ vote \in [Groups -> BOOLEAN] /\ rSkip \in [Groups -> BOOLEAN]
    /\ ver \in [Groups -> Nat] /\ over \in [Groups -> Nat]
    /\ decision \in Seq(BOOLEAN) /\ acc \in [Groups -> SUBSET Blocks]

(* Where a group can be. *)
PlaceOK(g) ==
    /\ Overlap  => pc[g] \notin {"turn", "yield"}
    /\ ~Overlap => pc[g] \notin {"mma", "pvrest", "vrel", "lastv", "lastpv"}
    /\ Overlap /\ pc[g] \in {"sched", "v", "pv", "mma", "pvrest", "vrel"} => blk[g] \notin Starts
    /\ Overlap /\ pc[g] = "qk" => blk[g] \in Starts
    /\ pc[g] \in {"lastv", "lastpv"} => EndsSegment(blk[g])
    /\ pc[g] \in {"yield", "done"} => blk[g] + 1 = NumBlocks
    /\ pc[g] \in {"reduce", "read"} => blk[g] > 0
PlaceInv == \A g \in Groups : PlaceOK(g)

(* Blocks on whose scores a group is done, which it has voted on, whose V  *)
(* it has released, waited for, and multiplied with.                       *)
Scored(g) == blk[g] + (IF After(g) \/ pc[g] \in {"pvrest", "vrel", "vote", "reduce", "read", "full"}
                       THEN 1 ELSE 0)
Voted(g) == blk[g] + (IF After(g) \/ pc[g] \in {"read", "full"} THEN 1 ELSE 0)
Softened(g) == blk[g] + (IF After(g) /\ pc[g] # "soft" THEN 1 ELSE 0)
Released(g) == IF Behind(g) THEN blk[g] - 1
               ELSE blk[g] + (IF pc[g] \in {"yield", "done"} THEN 1 ELSE 0)
Waited(g) ==
    Released(g) + (IF \/ pc[g] \in {"pv", "mma", "pvrest", "vrel", "lastpv"}
                      \/ ~Overlap /\ pc[g] = "sched" THEN 1 ELSE 0)
Multiplied(g) == Released(g) + (IF pc[g] = "vrel" THEN 1 ELSE 0)

CountInv == \A g \in Groups : kTaken[g] = Scored(g)

(* The outcomes, as all know them. *)
DecisionInv ==
    /\ Len(decision) = Voted(0)
    /\ Len(decision) > 0 => ~decision[1]

ProducerInv ==
    /\ vq <= Len(decision)
    /\ ppc \in {"full", "empty", "load"} => vq < NumBlocks
    /\ ppc = "done" => vq = NumBlocks
    /\ ppc \in {"empty", "load"} =>
          /\ vq < Len(decision) /\ pskip = decision[vq + 1]
          /\ sSkip[Producer] = Vote(pskip)

SkipOK(g) ==
    /\ pc[g] = "full" /\ blk[g] = 0 => ~rSkip[g]
    /\ After(g) \/ (pc[g] = "full" /\ blk[g] > 0) =>
          blk[g] < Len(decision) /\ rSkip[g] = decision[blk[g] + 1]
    /\ Behind(g) => blk[g] - 1 < Len(decision) /\ rSkip[g] = decision[blk[g]]
SkipInv == \A g \in Groups : SkipOK(g)

CastOK(g) ==
    pc[g] = "reduce" \/ (pc[g] = "read" /\ g # 0 /\ Blocked(g)) => sSkip[g] = Vote(vote[g])
VoteInv ==
    /\ \A g \in Groups : CastOK(g)
    /\ pc[0] \in {"read", "full"} \/ (pc[0] = "soft" /\ Blocked(0)) =>
          sSkip[0] = Vote(decision[blk[0] + 1])

(* The pipeline of V. *)
VFullInv ==
    \/ /\ vfull = [phase |-> vq + (IF ppc = "load" THEN 1 ELSE 0), pending |-> 1, tx |-> 0]
       /\ vflight = {} /\ ppc # "done"
       /\ ppc = "load" => pskip
    \/ /\ ppc = "load" /\ ~pskip
       /\ vfull = [phase |-> vq, pending |-> 0, tx |-> 1] /\ vflight = {}
    \/ /\ ppc \notin {"load", "done"} /\ vq > 0 /\ ~decision[vq]
       /\ vfull = [phase |-> vq - 1, pending |-> 0, tx |-> 1] /\ vflight = {vq - 1}
    \/ /\ ppc = "done"
       /\ vfull = [phase |-> vq, pending |-> 0, tx |-> 1] /\ vflight = {}

VEmptyInv ==
    /\ vempty = [phase |-> vempty.phase, pending |-> vempty.pending, tx |-> 0]
    /\ vempty.phase \in Nat /\ vempty.pending \in 1 .. NumGroups
    /\ vempty.pending =
          NumGroups - Cardinality({g \in Groups : Released(g) = vempty.phase + 1})
    /\ \A g \in Groups : /\ Released(g) \in {vempty.phase, vempty.phase + 1}
                         /\ Waited(g) <= vfull.phase
    /\ vq <= vempty.phase + (IF ppc = "load" THEN 0 ELSE 1)

(* A group whose acc_O is still to be scaled for the last block it kept. *)
Lagging(g) ==
    /\ Overlap /\ ~rSkip[g]
    /\ IF launch.wide
       THEN pc[g] = "lastv" \/ (Behind(g) /\ pc[g] \in {"k", "sched"})
       ELSE \/ pc[g] \in {"lastv", "lastpv"} /\ blk[g] = 0
            \/ Behind(g) /\ pc[g] # "vrel" /\ blk[g] = 1
ScaleInv ==
    \A g \in Groups :
        /\ ver[g] = over[g] + (IF Lagging(g) THEN 1 ELSE 0)
        /\ ver[g] <= Softened(g)

AccInv ==
    \A g \in Groups : acc[g] = {b \in 0 .. Multiplied(g) - 1 : ~decision[b + 1]}

(* V of one segment stays whole until all groups have met behind its use. *)
IntactInv ==
    Overlap /\ Starts = {0} =>
      \A t \in 1 .. NumBlocks :
        Gate(0) = <<t, "vrel">> /\ vfull.phase >= t /\ ~decision[t] =>
          sV = t - 1 /\ sSkip = [w \in Words |-> VBytes(t - 1)]

IInv == /\ TypeInv /\ BarInv /\ TurnInv /\ GateInv /\ PlaceInv /\ CountInv
        /\ DecisionInv /\ ProducerInv /\ SkipInv /\ VoteInv
        /\ VFullInv /\ VEmptyInv /\ ScaleInv /\ AccInv /\ IntactInv

-----------------------------------------------------------------------------
(* Launches and barriers. *)

LEMMA LaunchFacts ==
    ASSUME NEW l \in Launches
    PROVE  /\ l.groups \in {1, 2, 3} /\ l.blocks \in Nat \ {0}
           /\ 0 \in l.starts /\ l.starts \subseteq 0 .. l.blocks - 1
           /\ l.overlap \in BOOLEAN /\ l.wide \in BOOLEAN
<1>1. /\ l.groups \in 1 .. 3 /\ l.blocks \in Nat \ {0}
      /\ 0 \in l.starts /\ l.starts \subseteq 0 .. l.blocks - 1
      /\ l.overlap \in BOOLEAN /\ l.wide \in BOOLEAN
  BY LaunchesAssumption
<1>2. QED
  BY <1>1

LEMMA GroupSet ==
    ASSUME launch \in Launches
    PROVE  /\ NumGroups \in Nat \ {0} /\ NumBlocks \in Nat \ {0}
           /\ Groups = 0 .. NumGroups - 1 /\ 0 \in Groups /\ Groups \subseteq Nat
           /\ Producer = NumGroups /\ Producer \notin Groups /\ Producer # 0
           /\ Words = Groups \union {Producer}
           /\ Blocks = 0 .. NumBlocks - 1 /\ 0 \in Blocks
           /\ 0 \in Starts /\ Starts \subseteq Blocks
           /\ Overlap \in BOOLEAN /\ launch.wide \in BOOLEAN
           /\ IsFiniteSet(Groups) /\ Cardinality(Groups) = NumGroups
<1>1. /\ launch.groups \in {1, 2, 3} /\ launch.blocks \in Nat \ {0}
      /\ 0 \in launch.starts /\ launch.starts \subseteq 0 .. launch.blocks - 1
      /\ launch.overlap \in BOOLEAN /\ launch.wide \in BOOLEAN
  BY LaunchFacts
<1>2. IsFiniteSet(0 .. launch.groups - 1) /\ Cardinality(0 .. launch.groups - 1) = launch.groups
  <2>1. launch.groups - 1 \in Int /\ 0 <= launch.groups - 1 /\ launch.groups - 1 - 0 + 1 = launch.groups
    BY <1>1
  <2>2. QED
    BY <2>1, FS_Interval
<1>3. /\ NumGroups \in Nat \ {0} /\ NumBlocks \in Nat \ {0}
      /\ Groups = 0 .. NumGroups - 1 /\ 0 \in Groups /\ Groups \subseteq Nat
      /\ Producer = NumGroups /\ Producer \notin Groups /\ Producer # 0
      /\ Words = Groups \union {Producer}
  BY <1>1 DEF NumGroups, NumBlocks, Groups, Producer, Words
<1>4. /\ Blocks = 0 .. NumBlocks - 1 /\ 0 \in Blocks /\ 0 \in Starts /\ Starts \subseteq Blocks
      /\ Overlap \in BOOLEAN
  BY <1>1 DEF Blocks, NumBlocks, Starts, Overlap
<1>5. QED
  BY <1>1, <1>2, <1>3, <1>4 DEF Groups, NumGroups

LEMMA SameLaunch ==
    ASSUME UNCHANGED launch
    PROVE  /\ Groups' = Groups /\ Producer' = Producer /\ Words' = Words /\ Blocks' = Blocks
           /\ Starts' = Starts /\ NumBlocks' = NumBlocks /\ NumGroups' = NumGroups
           /\ KStages' = KStages
           /\ Overlap' = Overlap /\ RescaleBefore' = RescaleBefore /\ Barriers' = Barriers
           /\ UseScheduler' = UseScheduler /\ WordSet' = WordSet
           /\ BlocksOr(Garbage)' = BlocksOr(Garbage)
           /\ CTABarriers' = CTABarriers
           /\ \A c : Parties(c)' = Parties(c) /\ NumberOfThreads(c)' = NumberOfThreads(c)
BY DEF Groups, Producer, Words, Blocks, Starts, NumBlocks, NumGroups, KStages, Overlap,
       RescaleBefore, Barriers, UseScheduler, WordSet, BlocksOr, CTABarriers, Parties,
       NumberOfThreads, VBytes

LEMMA Bars ==
    /\ PFull # PEmpty /\ PFull # Softmax /\ PEmpty # Softmax
    /\ \A g : WarpScheduler(g) \notin CTABarriers
    /\ \A g, h : g # h => WarpScheduler(g) # WarpScheduler(h)
    /\ CTABarriers \subseteq Barriers
    /\ \A g \in Groups : WarpScheduler(g) \in Barriers
    /\ \A b \in Barriers \ CTABarriers : \E g \in Groups : b = WarpScheduler(g)
    /\ \A g : NumberOfThreads(WarpScheduler(g)) = 2
BY DEF PFull, PEmpty, Softmax, WarpScheduler, CTABarriers, Barriers, NumberOfThreads

LEMMA BarrierOfs ==
    /\ BarrierOf("vrel") = Softmax /\ BarrierOf("reduce") = Softmax
    /\ BarrierOf("read") = Softmax /\ BarrierOf("full") = PFull
    /\ BarrierOf("soft") = PEmpty
    /\ \A label : BarrierOf(label) \in CTABarriers
BY DEF BarrierOf, CTABarriers

LEMMA LabelOf ==
    ASSUME NEW label \in ArrivesAt
    PROVE  /\ BarrierOf(label) = PFull <=> label = "full"
           /\ BarrierOf(label) = PEmpty <=> label = "soft"
BY Bars, BarrierOfs DEF ArrivesAt

LEMMA Party ==
    ASSUME launch \in Launches, NEW b \in CTABarriers
    PROVE  /\ IsFiniteSet(Parties(b)) /\ Cardinality(Parties(b)) \in Nat \ {0}
           /\ NumberOfThreads(b) = Cardinality(Parties(b))
           /\ Groups \subseteq Parties(b)
<1>1. /\ IsFiniteSet(Groups) /\ Cardinality(Groups) = NumGroups /\ NumGroups \in Nat \ {0}
      /\ Producer \notin Groups
  BY GroupSet
<1>2. /\ IsFiniteSet(Groups \union {Producer})
      /\ Cardinality(Groups \union {Producer}) = NumGroups + 1
  BY <1>1, FS_AddElement
<1>3. CASE b \in {PFull, PEmpty}
  <2>1. Parties(b) = Groups \union {Producer}
    BY <1>3 DEF Parties
  <2>2. NumberOfThreads(b) = NumGroups + 1
    BY <1>3, Bars DEF NumberOfThreads
  <2>3. NumGroups + 1 \in Nat \ {0}
    BY <1>1
  <2>4. QED
    BY <1>2, <2>1, <2>2, <2>3
<1>4. CASE b \notin {PFull, PEmpty}
  <2>1. b = Softmax
    BY <1>4 DEF CTABarriers
  <2>2. NumberOfThreads(b) = NumGroups /\ Parties(b) = Groups
    BY <2>1, Bars DEF NumberOfThreads, Parties
  <2>3. QED
    BY <1>1, <2>2
<1>5. QED
  BY <1>3, <1>4

LEMMA Crowd ==
    ASSUME NEW P, IsFiniteSet(P), NEW S, S \subseteq P, NEW a \in P \ S
    PROVE  /\ Cardinality(S) \in Nat /\ Cardinality(P) \in Nat
           /\ Cardinality(S \union {a}) = Cardinality(S) + 1
           /\ Cardinality(S) + 1 <= Cardinality(P)
           /\ Cardinality(S) + 1 = Cardinality(P) => S \union {a} = P
<1>1. IsFiniteSet(S) /\ Cardinality(S) \in Nat /\ Cardinality(P) \in Nat
  BY FS_Subset, FS_CardinalityType
<1>2. Cardinality(S \union {a}) = Cardinality(S) + 1
  BY <1>1, FS_AddElement
<1>3. S \union {a} \in SUBSET P
  OBVIOUS
<1>4. /\ Cardinality(S \union {a}) <= Cardinality(P)
      /\ Cardinality(P) = Cardinality(S \union {a}) => P = S \union {a}
  BY <1>3, FS_Subset
<1>5. QED
  BY <1>1, <1>2, <1>4

(* An arrival at a barrier of the CTA: the last of the parties opens it,   *)
(* another one blocks.                                                     *)
LEMMA Arrival ==
    ASSUME TypeInv, BarInv, UNCHANGED launch,
           NEW b \in CTABarriers, NEW a \in Parties(b), a \notin bar[b].blocked, Sync(b, a)
    PROVE  /\ bar' = [c \in Barriers' |-> bar'[c]]
           /\ \A c \in Barriers \ {b} : bar'[c] = bar[c]
           /\ LET S == bar[b].blocked \union {a}
              IN  \/ /\ S # Parties(b) /\ S \subseteq Parties(b)
                     /\ bar'[b] = [count |-> Cardinality(S), blocked |-> S]
                     /\ Cardinality(S) < Cardinality(Parties(b))
                  \/ S = Parties(b) /\ bar'[b] = [count |-> Cardinality({}), blocked |-> {}]
<1> DEFINE S == bar[b].blocked
           n == Cardinality(Parties(b))
<1>1. launch \in Launches /\ bar = [c \in Barriers |-> bar[c]] /\ b \in Barriers
  BY Bars DEF TypeInv
<1>2. Barriers' = Barriers /\ NumberOfThreads(b) = n
  BY <1>1, Party, SameLaunch
<1>3. bar' = [bar EXCEPT ![b] = BarrierSync(@, a, n)]
  BY <1>2 DEF Sync
<1>4. /\ bar' = [c \in Barriers |-> bar'[c]]
      /\ \A c \in Barriers \ {b} : bar'[c] = bar[c]
      /\ bar'[b] = BarrierSync(bar[b], a, n)
  BY <1>1, <1>3
<1>5. bar[b] = [count |-> Cardinality(S), blocked |-> S] /\ S \subseteq Parties(b)
  BY DEF BarInv
<1>6. /\ Cardinality(S) \in Nat /\ n \in Nat
      /\ Cardinality(S \union {a}) = Cardinality(S) + 1
      /\ Cardinality(S) + 1 <= n
      /\ Cardinality(S) + 1 = n => S \union {a} = Parties(b)
  BY <1>1, <1>5, Party, Crowd
<1>7. bar[b].count = Cardinality(S) /\ Cardinality({}) = 0
  BY <1>5, FS_EmptySet
<1> HIDE DEF n
<1>8. CASE Cardinality(S) + 1 = n
  <2>1. bar'[b] = NoOne
    BY <1>4, <1>7, <1>8 DEF BarrierSync
  <2>2. QED
    BY <1>2, <1>4, <1>6, <1>7, <1>8, <2>1 DEF NoOne
<1>9. CASE Cardinality(S) + 1 # n
  <2>1. bar'[b] = [count |-> Cardinality(S) + 1, blocked |-> S \union {a}]
    BY <1>4, <1>7, <1>9 DEF BarrierSync
  <2>2. Cardinality(S \union {a}) < n /\ S \union {a} # Parties(b)
    BY <1>6, <1>9 DEF n
  <2>3. QED
    BY <1>2, <1>4, <1>5, <1>6, <2>1, <2>2 DEF n
<1>10. QED
  BY <1>8, <1>9

-----------------------------------------------------------------------------
(* Gates. *)

LEMMA Gates ==
    ASSUME NEW l, NEW b
    PROVE  /\ NextGate(l, "vrel", b) = <<b, "reduce">>
           /\ NextGate(l, "vote", b) = <<b, IF b = 0 THEN "full" ELSE "reduce">>
           /\ NextGate(l, "reduce", b) = <<b, "read">>
           /\ NextGate(l, "read", b) = <<b, "full">>
           /\ NextGate(l, "full", b) = <<b, "soft">>
           /\ \A label \in {"soft", "lastv", "lastpv", "yield", "done"} :
                NextGate(l, label, b) = FirstGate(l, b + 1)
           /\ \A label \in {"v", "sched", "pv"} :
                NextGate(l, label, b) = IF l.overlap THEN FirstGate(l, b)
                                        ELSE FirstGate(l, b + 1)
           /\ \A label \in {"turn", "k", "qk", "mma", "pvrest"} :
                NextGate(l, label, b) = FirstGate(l, b)
BY DEF NextGate, IsAfter

LEMMA FirstGates ==
    ASSUME NEW l, NEW b
    PROVE  /\ FirstGate(l, b)[1] = b /\ FirstGate(l, b)[2] \in {"full", "vrel", "reduce"}
           /\ FirstGate(l, b) = <<b, FirstGate(l, b)[2]>>
           /\ FirstGate(l, b)[2] = "full" <=> b = 0
           /\ FirstGate(l, b)[2] = "vrel" <=> (b # 0 /\ l.overlap /\ b \notin l.starts)
BY DEF FirstGate

LEMMA FollowsStays ==
    ASSUME NEW b \in Nat, NEW label \in ArrivesAt \ {"full", "soft"}
    PROVE  Follows(NextGate(launch, label, b)) = Follows(<<b, label>>)
BY Gates DEF ArrivesAt, Follows

LEMMA FollowsSoft ==
    ASSUME NEW b \in Nat
    PROVE  Follows(NextGate(launch, "soft", b)) = <<b + 1, "full">>
BY Gates, FirstGates DEF Follows

LEMMA WhoIsBlocked ==
    ASSUME TypeInv, BarInv, NEW c \in CTABarriers, NEW a \in bar[c].blocked
    PROVE  /\ Blocked(a)
           /\ \/ a \in Groups /\ a # Producer /\ pc[a] \in ArrivesAt /\ c = BarrierOf(pc[a])
              \/ a = Producer /\ c = PFull /\ ppc = "full"
              \/ a = Producer /\ c = PEmpty /\ ppc = "empty"
<1>1. a \in Parties(c) /\ a \in Groups \union {Producer}
  <2>1. a \in Parties(c)
    BY DEF BarInv
  <2>2. QED
    BY <2>1 DEF Parties
<1>2. CASE a = Producer
  BY <1>2 DEF BarInv, Blocked
<1>3. CASE a # Producer
  <2>1. pc[a] \in ArrivesAt /\ c = BarrierOf(pc[a])
    BY <1>3 DEF BarInv
  <2>2. QED
    BY <1>1, <1>3, <2>1 DEF Blocked
<1>4. QED
  BY <1>2, <1>3

LEMMA BlkNat ==
    ASSUME TypeInv, NEW g \in Groups
    PROVE  blk[g] \in 0 .. NumBlocks - 1 /\ blk[g] \in Nat
BY GroupSet DEF TypeInv

(* Only one group goes on. *)
Moved(g, label, p) ==
    /\ pc'[g] = label /\ blk'[g] = p
    /\ \A h \in Groups \ {g} : pc'[h] = pc[h] /\ blk'[h] = blk[h]

(* What a step does to the barriers that are not of the CTA. *)
OthersStay == /\ bar' = [c \in Barriers' |-> bar'[c]]
              /\ \A c \in Barriers \ CTABarriers : bar'[c] = bar[c]

LEMMA GroupArrives ==
    ASSUME TypeInv, BarInv, GateInv, NEW g \in Groups, ~Blocked(g), NEW label \in ArrivesAt,
           NextGate(launch, pc[g], blk[g]) = <<blk[g], label>>,
           Sync(BarrierOf(label), g), Moved(g, label, blk[g]),
           UNCHANGED <<launch, ppc, vq>>
    PROVE  /\ BarInv' /\ GateInv' /\ OthersStay
           /\ \A h \in Groups \ {g} : Blocked(h)' => Blocked(h)
           /\ Gate(0)' \in {Gate(0), NextGate(launch, label, blk[g])}
<1> DEFINE b == BarrierOf(label)
           S == bar[b].blocked \union {g}
<1>1. /\ launch \in Launches /\ b \in CTABarriers /\ g \in Parties(b)
      /\ \A c \in CTABarriers : g \notin bar[c].blocked
      /\ Groups' = Groups /\ Producer \notin Groups /\ Producer' = Producer
      /\ \A c \in CTABarriers : Parties(c)' = Parties(c)
      /\ blk[g] \in Nat /\ 0 \in Groups
  BY BarrierOfs, GroupSet, Party, BlkNat
  DEF TypeInv, Blocked, Parties, Groups, Producer, NumGroups
<1>2. /\ OthersStay /\ \A c \in CTABarriers \ {b} : bar'[c] = bar[c]
      /\ \/ /\ S # Parties(b) /\ S \subseteq Parties(b)
            /\ bar'[b] = [count |-> Cardinality(S), blocked |-> S]
            /\ Cardinality(S) < Cardinality(Parties(b))
         \/ S = Parties(b) /\ bar'[b] = [count |-> Cardinality({}), blocked |-> {}]
  <2> HIDE DEF b
  <2>1. /\ bar' = [c \in Barriers' |-> bar'[c]]
        /\ \A c \in Barriers \ {b} : bar'[c] = bar[c]
        /\ \/ /\ S # Parties(b) /\ S \subseteq Parties(b)
              /\ bar'[b] = [count |-> Cardinality(S), blocked |-> S]
              /\ Cardinality(S) < Cardinality(Parties(b))
           \/ S = Parties(b) /\ bar'[b] = [count |-> Cardinality({}), blocked |-> {}]
    BY <1>1, Arrival DEF b
  <2>2. QED
    BY <1>1, <2>1, Bars DEF OthersStay
<1>3. /\ Gate(g) = <<blk[g], label>>
      /\ \A h \in Groups : Gate(h) = <<blk[g], label>>
      /\ ProducerGate = Follows(<<blk[g], label>>)
  <2>1. Gate(g) = <<blk[g], label>>
    BY DEF Gate
  <2>2. QED
    BY <1>1, <2>1 DEF GateInv
<1>4. \A h \in Groups : Blocked(h) => pc[h] = label /\ blk[h] = blk[g]
  BY <1>3 DEF Gate
<1>5. \A h \in Groups : \A c \in CTABarriers : h \in bar[c].blocked => c = b /\ pc[h] = label
  <2>1. ASSUME NEW h \in Groups, NEW c \in CTABarriers, h \in bar[c].blocked
        PROVE  c = b /\ pc[h] = label
    <3>1. Blocked(h) /\ h # Producer /\ c = BarrierOf(pc[h])
      BY <1>1, <2>1, WhoIsBlocked
    <3>2. QED
      BY <1>4, <3>1
  <2>2. QED
    BY <2>1
<1>6. /\ pc'[g] = label /\ blk'[g] = blk[g]
      /\ \A h \in Groups \ {g} : pc'[h] = pc[h] /\ blk'[h] = blk[h]
  BY DEF Moved
<1> HIDE DEF b
<1>7. CASE S # Parties(b)
  <2>1. /\ S \subseteq Parties(b)
        /\ bar'[b] = [count |-> Cardinality(S), blocked |-> S]
        /\ Cardinality(S) < Cardinality(Parties(b))
    BY <1>2, <1>7
  <2>2. BarInv'
    <3>1. ASSUME NEW c \in CTABarriers
          PROVE  /\ bar'[c] = [count |-> Cardinality(bar'[c].blocked),
                               blocked |-> bar'[c].blocked]
                 /\ bar'[c].blocked \subseteq Parties(c)
                 /\ bar'[c].count < Cardinality(Parties(c))
                 /\ \A h \in bar'[c].blocked : h # Producer =>
                      pc'[h] \in ArrivesAt /\ c = BarrierOf(pc'[h])
                 /\ Producer \in bar'[c].blocked => \/ c = PFull /\ ppc = "full"
                                                    \/ c = PEmpty /\ ppc = "empty"
      <4>1. CASE c = b
        <5>1. \A h \in S : h # Producer => h \in Groups /\ pc'[h] = label
          BY <1>1, <1>5, <1>6, <2>1 DEF Parties
        <5>2. BarrierOf(label) = b
          BY DEF b
        <5>3. Producer \in S => \/ c = PFull /\ ppc = "full"
                                \/ c = PEmpty /\ ppc = "empty"
          BY <1>1, <4>1 DEF BarInv
        <5>4. QED
          BY <2>1, <4>1, <5>1, <5>2, <5>3
      <4>2. CASE c # b
        <5>1. bar'[c] = bar[c]
          BY <1>2, <4>2
        <5>2. \A h \in bar[c].blocked : h # Producer => h \in Groups \ {g}
          BY <1>1, WhoIsBlocked
        <5>3. QED
          BY <1>6, <5>1, <5>2 DEF BarInv
      <4>3. QED
        BY <4>1, <4>2
    <3>2. QED
      BY <1>1, <3>1 DEF BarInv, BarrierOf
  <2>3. Blocked(g)'
    BY <1>1, <2>1 DEF Blocked
  <2>4. ASSUME NEW h, h # g PROVE Blocked(h)' <=> Blocked(h)
    <3>1. \A c \in CTABarriers : h \in bar'[c].blocked <=> h \in bar[c].blocked
      BY <1>2, <2>1, <2>4
    <3>2. QED
      BY <3>1 DEF Blocked
  <2>5. \A h \in Groups : Gate(h)' = Gate(h)
    <3>1. Gate(g)' = Gate(g)
      BY <1>3, <1>6, <2>3 DEF Gate
    <3>2. ASSUME NEW h \in Groups \ {g} PROVE Gate(h)' = Gate(h)
      BY <1>6, <2>4 DEF Gate
    <3>3. QED
      BY <3>1, <3>2
  <2>6. ProducerGate' = ProducerGate
    BY <1>1, <2>4 DEF ProducerGate
  <2>7. GateInv'
    BY <1>1, <2>5, <2>6, GroupSet DEF GateInv, Follows
  <2>8. QED
    BY <1>1, <1>2, <2>2, <2>4, <2>5, <2>7
<1>8. CASE S = Parties(b)
  <2>1. bar'[b] = [count |-> Cardinality({}), blocked |-> {}]
    BY <1>2, <1>8
  <2>2. \A c \in CTABarriers \ {b} : \A h \in bar[c].blocked : h = Producer
    BY <1>1, <1>5 DEF BarInv, Parties
  <2>3. \A h \in Groups : ~Blocked(h)'
    BY <1>1, <1>2, <2>1, <2>2 DEF Blocked
  <2>4. \A h \in Groups : pc'[h] = label /\ blk'[h] = blk[g]
    <3>1. \A h \in Groups \ {g} : Blocked(h)
      BY <1>1, <1>8, Party DEF Blocked
    <3>2. QED
      BY <1>4, <1>6, <3>1
  <2>5. \A h \in Groups : Gate(h)' = NextGate(launch, label, blk[g])
    BY <2>3, <2>4 DEF Gate
  <2>6. BarInv'
    <3>1. ASSUME NEW c \in CTABarriers
          PROVE  /\ bar'[c] = [count |-> Cardinality(bar'[c].blocked),
                               blocked |-> bar'[c].blocked]
                 /\ bar'[c].blocked \subseteq Parties(c)
                 /\ bar'[c].count < Cardinality(Parties(c))
                 /\ \A h \in bar'[c].blocked : h = Producer
                 /\ Producer \in bar'[c].blocked => \/ c = PFull /\ ppc = "full"
                                                    \/ c = PEmpty /\ ppc = "empty"
      <4>1. CASE c = b
        <5>1. /\ bar'[c].blocked = {} /\ bar'[c].count = Cardinality({})
              /\ bar'[c] = [count |-> Cardinality(bar'[c].blocked),
                            blocked |-> bar'[c].blocked]
          BY <2>1, <4>1
        <5>2. Cardinality({}) = 0 /\ Cardinality(Parties(c)) \in Nat \ {0}
          BY <1>1, Party, FS_EmptySet
        <5>3. QED
          BY <5>1, <5>2
      <4>2. CASE c # b
        BY <1>2, <2>2, <4>2 DEF BarInv
      <4>3. QED
        BY <4>1, <4>2
    <3>2. QED
      BY <1>1, <3>1 DEF BarInv
  <2>7. ProducerGate' = Follows(NextGate(launch, label, blk[g]))
    <3>1. CASE label \notin {"full", "soft"}
      <4>1. b \notin {PFull, PEmpty}
        BY <3>1, LabelOf DEF b
      <4>2. Producer \notin bar[b].blocked
        BY <1>1, <4>1 DEF BarInv
      <4>3. \A c \in CTABarriers : Producer \in bar'[c].blocked <=> Producer \in bar[c].blocked
        BY <1>2, <2>1, <4>2
      <4>4. Blocked(Producer)' <=> Blocked(Producer)
        BY <1>1, <4>3 DEF Blocked
      <4>5. ProducerGate' = ProducerGate
        BY <1>1, <4>4 DEF ProducerGate
      <4>6. QED
        BY <1>1, <1>3, <3>1, <4>5, FollowsStays
    <3>2. CASE label \in {"full", "soft"}
      <4>1. b \in {PFull, PEmpty} /\ Producer \in bar[b].blocked
        <5>1. b \in {PFull, PEmpty}
          BY <3>2, LabelOf DEF b
        <5>2. Producer \in Parties(b) /\ Producer # g
          BY <1>1, <5>1 DEF Parties
        <5>3. QED
          BY <1>8, <5>1, <5>2
      <4>2. \A c \in CTABarriers : Producer \notin bar'[c].blocked
        <5>1. \A c \in CTABarriers \ {b} : Producer \notin bar[c].blocked
          BY <1>1, <4>1, Bars, WhoIsBlocked
        <5>2. Producer \notin bar'[b].blocked
          BY <2>1
        <5>3. QED
          BY <1>2, <5>1, <5>2
      <4>3. ~Blocked(Producer)' /\ Blocked(Producer)
        BY <1>1, <4>1, <4>2 DEF Blocked
      <4>4. CASE label = "full"
        <5>1. ppc = "full"
          BY <1>1, <4>1, <4>4, BarrierOfs, Bars DEF BarInv, b
        <5>2. vq = blk[g]
          BY <1>3, <4>3, <4>4, <5>1 DEF ProducerGate, Follows
        <5>3. ProducerGate' = <<vq, "soft">>
          BY <4>3, <5>1 DEF ProducerGate, NextProducerGate
        <5>4. QED
          BY <4>4, <5>2, <5>3, Gates DEF Follows
      <4>5. CASE label = "soft"
        <5>1. ppc = "empty"
          BY <1>1, <4>1, <4>5, BarrierOfs, Bars DEF BarInv, b
        <5>2. vq = blk[g]
          BY <1>3, <4>3, <4>5, <5>1 DEF ProducerGate, Follows
        <5>3. ProducerGate' = <<vq + 1, "full">>
          BY <4>3, <5>1 DEF ProducerGate, NextProducerGate
        <5>4. QED
          BY <1>1, <4>5, <5>2, <5>3, FollowsSoft
      <4>6. QED
        BY <3>2, <4>4, <4>5
    <3>3. QED
      BY <3>1, <3>2
  <2>8. GateInv'
    BY <1>1, <2>5, <2>7, GroupSet DEF GateInv, Follows
  <2>9. QED
    BY <1>1, <1>2, <2>3, <2>5, <2>6, <2>8
<1>9. QED
  BY <1>7, <1>8

(* A step that reaches no barrier of the CTA. *)
LEMMA Passes ==
    ASSUME TypeInv, BarInv, GateInv, UNCHANGED launch,
           \A c \in CTABarriers : bar'[c] = bar[c],
           \A h \in Groups : Blocked(h) => pc'[h] = pc[h] /\ blk'[h] = blk[h],
           \A h \in Groups : ~Blocked(h) => NextGate(launch, pc'[h], blk'[h])
                                              = NextGate(launch, pc[h], blk[h]),
           Blocked(Producer) => UNCHANGED <<ppc, vq>>,
           ~Blocked(Producer) => NextProducerGate(ppc', vq') = NextProducerGate(ppc, vq)
    PROVE  /\ BarInv' /\ GateInv' /\ \A h : Blocked(h)' <=> Blocked(h)
           /\ \A h \in Groups : Gate(h)' = Gate(h)
<1>1. /\ Groups' = Groups /\ Producer' = Producer /\ 0 \in Groups
      /\ \A c \in CTABarriers : Parties(c)' = Parties(c)
  BY GroupSet DEF TypeInv, Parties, Groups, Producer, NumGroups
<1>2. \A h : Blocked(h)' <=> Blocked(h)
  BY DEF Blocked
<1>3. BarInv'
  <2>1. ASSUME NEW c \in CTABarriers
        PROVE  /\ \A h \in bar[c].blocked : h # Producer =>
                    pc'[h] \in ArrivesAt /\ c = BarrierOf(pc'[h])
               /\ Producer \in bar[c].blocked => \/ c = PFull /\ ppc' = "full"
                                                 \/ c = PEmpty /\ ppc' = "empty"
    <3>1. ASSUME NEW h \in bar[c].blocked, h # Producer
          PROVE  pc'[h] \in ArrivesAt /\ c = BarrierOf(pc'[h])
      <4>1. h \in Groups /\ Blocked(h) /\ pc[h] \in ArrivesAt /\ c = BarrierOf(pc[h])
        BY <3>1, WhoIsBlocked
      <4>2. QED
        BY <4>1
    <3>2. Producer \in bar[c].blocked => Blocked(Producer)
      BY DEF Blocked
    <3>3. QED
      BY <3>1, <3>2 DEF BarInv
  <2>2. QED
    BY <1>1, <2>1 DEF BarInv, BarrierOf
<1>4. \A h \in Groups : Gate(h)' = Gate(h)
  BY <1>1, <1>2 DEF Gate
<1>5. ProducerGate' = ProducerGate
  BY <1>1, <1>2 DEF ProducerGate
<1>6. GateInv'
  BY <1>1, <1>4, <1>5 DEF GateInv, Follows
<1>7. QED
  BY <1>2, <1>3, <1>4, <1>6

LEMMA GroupPasses ==
    ASSUME TypeInv, BarInv, GateInv, NEW g \in Groups, ~Blocked(g), NEW label, NEW p,
           NextGate(launch, label, p) = NextGate(launch, pc[g], blk[g]),
           Moved(g, label, p), UNCHANGED <<launch, ppc, vq>>,
           \A c \in CTABarriers : bar'[c] = bar[c]
    PROVE  /\ BarInv' /\ GateInv' /\ \A h : Blocked(h)' <=> Blocked(h)
           /\ \A h \in Groups : Gate(h)' = Gate(h)
<1>1. \A h \in Groups : Blocked(h) => pc'[h] = pc[h] /\ blk'[h] = blk[h]
  BY DEF Moved
<1>2. \A h \in Groups : ~Blocked(h) => NextGate(launch, pc'[h], blk'[h])
                                         = NextGate(launch, pc[h], blk[h])
  BY DEF Moved
<1>3. QED
  BY <1>1, <1>2, Passes, Zenon

(* The producer at a barrier. *)
LEMMA ProducerArrives ==
    ASSUME TypeInv, BarInv, GateInv, ~Blocked(Producer), NEW b \in CTABarriers, Sync(b, Producer),
           \/ b = PFull /\ ppc = "next" /\ ppc' = "full"
           \/ b = PEmpty /\ ppc = "full" /\ ppc' = "empty",
           UNCHANGED <<launch, vq, pc, blk>>
    PROVE  /\ BarInv' /\ GateInv' /\ OthersStay
           /\ \A h \in Groups : Blocked(h)' => Blocked(h)
           /\ Gate(0)' \in {Gate(0), NextGate(launch, IF b = PFull THEN "full" ELSE "soft", vq)}
<1> DEFINE S == bar[b].blocked \union {Producer}
           label == IF b = PFull THEN "full" ELSE "soft"
<1>1. /\ launch \in Launches /\ Producer \in Parties(b)
      /\ \A c \in CTABarriers : Producer \notin bar[c].blocked
      /\ Groups' = Groups /\ Producer \notin Groups /\ Producer' = Producer
      /\ \A c \in CTABarriers : Parties(c)' = Parties(c)
      /\ \A h \in Groups : blk'[h] = blk[h] /\ blk[h] \in Nat
      /\ vq \in Nat
  <2>1. launch \in Launches /\ Producer \in Parties(b) /\ vq \in Nat
    BY GroupSet DEF TypeInv, Parties
  <2>2. \A c \in CTABarriers : Producer \notin bar[c].blocked
    BY DEF Blocked
  <2>3. \A h \in Groups : blk'[h] = blk[h] /\ blk[h] \in Nat
    BY BlkNat
  <2>4. QED
    BY <2>1, <2>2, <2>3, GroupSet, SameLaunch
<1>2. /\ OthersStay /\ \A c \in CTABarriers \ {b} : bar'[c] = bar[c]
      /\ \/ /\ S # Parties(b) /\ S \subseteq Parties(b)
            /\ bar'[b] = [count |-> Cardinality(S), blocked |-> S]
            /\ Cardinality(S) < Cardinality(Parties(b))
         \/ S = Parties(b) /\ bar'[b] = [count |-> Cardinality({}), blocked |-> {}]
  <2>1. /\ bar' = [c \in Barriers' |-> bar'[c]]
        /\ \A c \in Barriers \ {b} : bar'[c] = bar[c]
        /\ \/ /\ S # Parties(b) /\ S \subseteq Parties(b)
              /\ bar'[b] = [count |-> Cardinality(S), blocked |-> S]
              /\ Cardinality(S) < Cardinality(Parties(b))
           \/ S = Parties(b) /\ bar'[b] = [count |-> Cardinality({}), blocked |-> {}]
    BY <1>1, Arrival
  <2>2. QED
    BY <2>1, Bars DEF OthersStay
<1>3. \A c \in CTABarriers \ {b} : \A h \in bar'[c].blocked :
          h # Producer /\ h \in Groups /\ pc[h] \in ArrivesAt /\ c = BarrierOf(pc[h])
  BY <1>1, <1>2, WhoIsBlocked
<1>4. \A h \in bar[b].blocked : h # Producer /\ h \in Groups /\ pc[h] = label /\ b = BarrierOf(pc[h])
  BY <1>1, WhoIsBlocked, LabelOf, Bars
<1>5. label \in ArrivesAt
  BY DEF ArrivesAt
<1>6. BarInv'
  <2>1. ASSUME NEW c \in CTABarriers \ {b}
        PROVE  /\ bar'[c] = [count |-> Cardinality(bar'[c].blocked),
                             blocked |-> bar'[c].blocked]
               /\ bar'[c].blocked \subseteq Parties(c)
               /\ bar'[c].count < Cardinality(Parties(c))
    BY <1>2 DEF BarInv
  <2>2. /\ bar'[b] = [count |-> Cardinality(bar'[b].blocked), blocked |-> bar'[b].blocked]
        /\ bar'[b].blocked \subseteq Parties(b)
        /\ bar'[b].count < Cardinality(Parties(b))
    <3>1. CASE S # Parties(b)
      BY <1>2, <3>1
    <3>2. CASE S = Parties(b)
      <4>1. bar'[b] = [count |-> Cardinality({}), blocked |-> {}]
        BY <1>2, <3>2
      <4>2. Cardinality({}) = 0 /\ Cardinality(Parties(b)) \in Nat \ {0}
        BY <1>1, Party, FS_EmptySet
      <4>3. bar'[b].count = Cardinality({}) /\ bar'[b].blocked = {}
        BY <4>1
      <4>4. QED
        BY <4>1, <4>2, <4>3
    <3>3. QED
      BY <3>1, <3>2
  <2>3. \A h \in bar'[b].blocked : h # Producer => pc[h] \in ArrivesAt /\ b = BarrierOf(pc[h])
    <3>1. bar'[b].blocked \subseteq S
      BY <1>2
    <3>2. QED
      BY <1>4, <1>5, <3>1
  <2>4. QED
    BY <1>1, <1>3, <2>1, <2>2, <2>3 DEF BarInv, BarrierOf
<1>7. CASE S # Parties(b)
  <2>1. bar'[b].blocked = S
    BY <1>2, <1>7
  <2>2. Blocked(Producer)'
    BY <1>1, <2>1 DEF Blocked
  <2>3. \A h \in Groups : Blocked(h)' <=> Blocked(h)
    <3>1. \A h \in Groups : \A c \in CTABarriers : h \in bar'[c].blocked <=> h \in bar[c].blocked
      BY <1>1, <1>2, <2>1
    <3>2. QED
      BY <3>1 DEF Blocked
  <2>4. \A h \in Groups : Gate(h)' = Gate(h)
    BY <1>1, <2>3 DEF Gate
  <2>5. ProducerGate' = ProducerGate
    BY <2>2, Bars DEF ProducerGate, NextProducerGate
  <2>6. GateInv'
    BY <1>1, <2>4, <2>5, GroupSet DEF GateInv, Follows
  <2>7. QED
    BY <1>1, <1>2, <1>6, <2>3, <2>4, <2>6, GroupSet
<1>8. CASE S = Parties(b)
  <2>1. \A h \in Groups : h \in bar[b].blocked
    BY <1>1, <1>8, Party
  <2>2. \A c \in CTABarriers : bar'[c].blocked = {}
    <3>1. bar'[b].blocked = {}
      BY <1>2, <1>8
    <3>2. \A c \in CTABarriers \ {b} : bar'[c].blocked = {}
      BY <1>3, <1>4, <2>1
    <3>3. QED
      BY <3>1, <3>2
  <2>3. \A h : ~Blocked(h)'
    BY <2>2 DEF Blocked
  <2>4. \A h \in Groups : pc[h] = label /\ Gate(h) = <<blk[h], label>>
    BY <1>4, <2>1 DEF Gate, Blocked
  <2>5. ASSUME NEW h \in Groups PROVE blk[h] = vq
    <3>1. NextProducerGate(ppc, vq) = Follows(<<blk[h], label>>)
      BY <2>4, GroupSet DEF GateInv, TypeInv, ProducerGate
    <3>2. NextProducerGate(ppc, vq) = <<vq, label>>
      BY Bars DEF NextProducerGate
    <3>3. QED
      BY <3>1, <3>2 DEF Follows
  <2>6. \A h \in Groups : Gate(h)' = NextGate(launch, label, vq)
    <3>1. ASSUME NEW h \in Groups PROVE Gate(h)' = NextGate(launch, label, vq)
      <4>1. pc'[h] = label /\ blk'[h] = vq /\ ~Blocked(h)'
        BY <1>1, <2>3, <2>4, <2>5
      <4>2. QED
        BY <4>1 DEF Gate
    <3>2. QED
      BY <3>1
  <2>7. ProducerGate' = NextProducerGate(ppc', vq)
    BY <1>1, <2>3 DEF ProducerGate
  <2>8. NextProducerGate(ppc', vq) = Follows(NextGate(launch, label, vq))
    <3>1. CASE b = PFull
      BY <3>1, Bars, Gates DEF Follows, NextProducerGate
    <3>2. CASE b = PEmpty
      <4>1. Follows(NextGate(launch, "soft", vq)) = <<vq + 1, "full">>
        BY <1>1, FollowsSoft
      <4>2. QED
        BY <3>2, <4>1, Bars DEF NextProducerGate
    <3>3. QED
      BY <3>1, <3>2
  <2>9. GateInv'
    BY <1>1, <2>6, <2>7, <2>8, GroupSet DEF GateInv, Follows
  <2>10. QED
    BY <1>1, <1>2, <1>6, <2>3, <2>6, <2>9, GroupSet
<1>9. QED
  BY <1>7, <1>8

-----------------------------------------------------------------------------
(* The steps of a group. *)

Finishes(g) == pc[g] = "lastpv" \/ (pc[g] = "pv" /\ ~Overlap)

Moves(g, label, b) ==
    /\ Moved(g, label, b)
    /\ \/ /\ b = blk[g]
          /\ \/ pc[g] = "turn" /\ label = "k"
             \/ pc[g] = "k" /\ label = "sched" /\ Overlap /\ b \notin Starts
             \/ pc[g] = "k" /\ label = "qk" /\ (~Overlap \/ b \in Starts)
             \/ pc[g] = "qk" /\ label = "vote"
             \/ pc[g] = "mma" /\ label = "pvrest"
             \/ pc[g] = "sched" /\ label = "v" /\ Overlap
             \/ pc[g] = "sched" /\ label = "pv" /\ ~Overlap
             \/ pc[g] = "v" /\ label = "pv" /\ Overlap
             \/ pc[g] = "v" /\ label = "sched" /\ ~Overlap
             \/ pc[g] = "lastv" /\ label = "lastpv"
             \/ pc[g] = "pv" /\ label = "mma" /\ Overlap
             \/ pc[g] = "pvrest" /\ label = "vrel"
             \/ pc[g] = "vrel" /\ label = "vote"
             \/ pc[g] = "vote" /\ label = "full" /\ b = 0
             \/ pc[g] = "vote" /\ label = "reduce" /\ b > 0
             \/ pc[g] = "reduce" /\ label = "read"
             \/ pc[g] = "read" /\ label = "full"
             \/ pc[g] = "full" /\ label = "soft"
             \/ pc[g] = "soft" /\ label = "v" /\ ~Overlap
             \/ pc[g] = "soft" /\ label = "lastv" /\ Overlap /\ EndsSegment(b)
             \/ pc[g] = "yield" /\ label = "done"
             \/ /\ Finishes(g) /\ b + 1 = NumBlocks
                /\ label = IF Overlap THEN "done" ELSE "yield"
       \/ /\ b = blk[g] + 1 /\ b < NumBlocks /\ label = "k"
          /\ \/ pc[g] = "soft" /\ Overlap /\ b \notin Starts
             \/ Finishes(g) /\ (Overlap => b \in Starts)

LEMMA Runs ==
    ASSUME NEW g, Running(g)
    PROVE  ~Blocked(g)
BY Bars DEF Running, Blocked

(* Which step a group takes at a label. *)
LEMMA StepAt ==
    ASSUME TypeInv, NEW g \in Groups, GroupStep(g)
    PROVE  /\ Running(g) /\ UNCHANGED launch
           /\ pc[g] = "turn" => FirstTurn(g)
           /\ pc[g] = "k" => WaitK(g)
           /\ pc[g] \in {"qk", "mma"} => FinishScores(g)
           /\ pc[g] = "sched" => TakeTurn(g)
           /\ pc[g] = "v" => WaitV(g)
           /\ pc[g] = "lastv" => WaitLastV(g)
           /\ pc[g] = "pv" /\ Overlap => PassTurn(g)
           /\ pc[g] = "pvrest" => FinishMma(g)
           /\ pc[g] = "vrel" => ReleaseV(g)
           /\ Finishes(g) => FinishPV(g)
           /\ pc[g] = "yield" => LastTurn(g)
           /\ pc[g] = "vote" /\ blk[g] = 0 => FirstVote(g)
           /\ pc[g] = "vote" /\ blk[g] > 0 => CastVote(g)
           /\ pc[g] = "reduce" => ReduceVotes(g)
           /\ pc[g] = "read" => ReadVote(g)
           /\ pc[g] = "full" => AwaitProducer(g)
           /\ pc[g] = "soft" => OnlineSoftmax(g)
           /\ pc[g] # "done"
<1>1. /\ UNCHANGED launch
      /\ \/ FirstTurn(g) \/ WaitK(g) \/ FinishScores(g) \/ TakeTurn(g)
         \/ WaitV(g) \/ WaitLastV(g) \/ PassTurn(g) \/ FinishMma(g)
         \/ ReleaseV(g) \/ FinishPV(g) \/ LastTurn(g)
         \/ FirstVote(g) \/ CastVote(g) \/ ReduceVotes(g) \/ ReadVote(g)
         \/ AwaitProducer(g) \/ OnlineSoftmax(g)
  BY DEF GroupStep
<1>2. /\ FirstTurn(g) => pc[g] = "turn" /\ Running(g)
      /\ WaitK(g) => pc[g] = "k" /\ Running(g)
      /\ FinishScores(g) => pc[g] \in {"qk", "mma"} /\ Running(g)
      /\ TakeTurn(g) => pc[g] = "sched" /\ Running(g)
      /\ WaitV(g) => pc[g] = "v" /\ Running(g)
      /\ WaitLastV(g) => pc[g] = "lastv" /\ Running(g)
      /\ PassTurn(g) => pc[g] = "pv" /\ Overlap /\ Running(g)
      /\ FinishMma(g) => pc[g] = "pvrest" /\ Running(g)
      /\ ReleaseV(g) => pc[g] = "vrel" /\ Running(g)
      /\ FinishPV(g) => Finishes(g) /\ Running(g)
      /\ LastTurn(g) => pc[g] = "yield" /\ Running(g)
  BY DEF FirstTurn, WaitK, FinishScores, TakeTurn, WaitV, WaitLastV, PassTurn, FinishMma,
         ReleaseV, FinishPV, LastTurn, At, Finishes
<1>3. /\ FirstVote(g) => pc[g] = "vote" /\ blk[g] = 0 /\ Running(g)
      /\ CastVote(g) => pc[g] = "vote" /\ blk[g] > 0 /\ Running(g)
      /\ ReduceVotes(g) => pc[g] = "reduce" /\ Running(g)
      /\ ReadVote(g) => pc[g] = "read" /\ Running(g)
      /\ AwaitProducer(g) => pc[g] = "full" /\ Running(g)
      /\ OnlineSoftmax(g) => pc[g] = "soft" /\ Running(g)
  BY DEF FirstVote, CastVote, ReduceVotes, ReadVote, AwaitProducer, OnlineSoftmax, At
<1>4. Finishes(g) => pc[g] \in {"lastpv", "pv"} /\ (pc[g] = "pv" => ~Overlap)
  BY DEF Finishes
<1>5. ~(blk[g] = 0 /\ blk[g] > 0)
  BY BlkNat
<1> HIDE DEF Finishes
<1>6. QED
  BY <1>1, <1>2, <1>3, <1>4, <1>5

LEMMA GoesTo ==
    ASSUME TypeInv, NEW g \in Groups, NEW label, Goto(g, label), UNCHANGED blk
    PROVE  Moved(g, label, blk[g])
BY DEF TypeInv, Goto, Moved

LEMMA GoesOn ==
    ASSUME TypeInv, NEW g \in Groups, NEW label, NextBlock(g, label)
    PROVE  \/ Moved(g, label, blk[g]) /\ blk[g] + 1 = NumBlocks
           \/ Moved(g, "k", blk[g] + 1) /\ blk[g] + 1 < NumBlocks
<1>1. blk[g] \in 0 .. NumBlocks - 1 /\ NumBlocks \in Nat /\ blk \in [Groups -> Blocks]
  BY BlkNat, GroupSet DEF TypeInv
<1>2. CASE blk[g] + 1 = NumBlocks
  BY <1>2, GoesTo DEF NextBlock
<1>3. CASE blk[g] + 1 # NumBlocks
  <2>1. Goto(g, "k") /\ blk' = [blk EXCEPT ![g] = @ + 1]
    BY <1>3 DEF NextBlock
  <2>2. Moved(g, "k", blk[g] + 1)
    BY <1>1, <2>1 DEF Moved, Goto, TypeInv
  <2>3. QED
    BY <1>1, <1>3, <2>2
<1>4. QED
  BY <1>2, <1>3

LEMMA GroupMoves ==
    ASSUME TypeInv, PlaceInv, NEW g \in Groups, GroupStep(g)
    PROVE  ~Blocked(g) /\ \E label, b : Moves(g, label, b)
<1>1. Running(g) /\ ~Blocked(g)
  BY StepAt, Runs
<1>2. /\ pc[g] \in Labels /\ PlaceOK(g) /\ blk[g] \in Nat /\ NumBlocks \in Nat
  BY BlkNat, GroupSet DEF TypeInv, PlaceInv
<1> DEFINE b == blk[g]
<1>3. CASE pc[g] \in {"turn", "k", "qk", "mma", "sched", "v", "lastv", "yield"} \/ (pc[g] = "pv" /\ Overlap)
  <2>1. PICK label : /\ Goto(g, label) /\ UNCHANGED blk
                     /\ \/ pc[g] = "turn" /\ label = "k"
                        \/ pc[g] = "k" /\ label = "sched" /\ Overlap /\ b \notin Starts
                        \/ pc[g] = "k" /\ label = "qk" /\ (~Overlap \/ b \in Starts)
                        \/ pc[g] = "qk" /\ label = "vote"
                        \/ pc[g] = "mma" /\ label = "pvrest"
                        \/ pc[g] = "sched" /\ label = "v" /\ Overlap
                        \/ pc[g] = "sched" /\ label = "pv" /\ ~Overlap
                        \/ pc[g] = "v" /\ label = "pv" /\ Overlap
                        \/ pc[g] = "v" /\ label = "sched" /\ ~Overlap
                        \/ pc[g] = "lastv" /\ label = "lastpv"
                        \/ pc[g] = "pv" /\ label = "mma" /\ Overlap
                        \/ pc[g] = "yield" /\ label = "done"
    <3>1. CASE pc[g] \in {"turn", "k"}
      BY <3>1, StepAt DEF FirstTurn, WaitK
    <3>2. CASE pc[g] \in {"qk", "mma"}
      BY <3>2, StepAt DEF FinishScores
    <3>3. CASE pc[g] \in {"sched", "v"}
      BY <3>3, StepAt DEF TakeTurn, WaitV
    <3>4. CASE pc[g] \in {"lastv", "yield"} \/ (pc[g] = "pv" /\ Overlap)
      BY <3>4, StepAt DEF WaitLastV, LastTurn, PassTurn
    <3>5. QED
      BY <1>3, <3>1, <3>2, <3>3, <3>4
  <2>2. Moves(g, label, b)
    BY <2>1, GoesTo DEF Moves
  <2>3. QED
    BY <1>1, <2>2
<1>4. CASE pc[g] \in {"pvrest", "vrel", "vote", "reduce", "read", "full"}
  <2>1. PICK label : /\ Goto(g, label) /\ UNCHANGED blk
                     /\ \/ pc[g] = "pvrest" /\ label = "vrel"
                        \/ pc[g] = "vrel" /\ label = "vote"
                        \/ pc[g] = "vote" /\ label = "full" /\ b = 0
                        \/ pc[g] = "vote" /\ label = "reduce" /\ b > 0
                        \/ pc[g] = "reduce" /\ label = "read"
                        \/ pc[g] = "read" /\ label = "full"
                        \/ pc[g] = "full" /\ label = "soft"
    <3>1. CASE pc[g] \in {"pvrest", "vrel"}
      BY <3>1, StepAt DEF FinishMma, ReleaseV
    <3>2. CASE pc[g] = "vote"
      <4>1. CASE b = 0
        <5>1. Goto(g, "full") /\ UNCHANGED blk
          BY <3>2, <4>1, StepAt, Zenon DEF FirstVote
        <5>2. QED
          BY <3>2, <4>1, <5>1
      <4>2. CASE b > 0
        <5>1. Goto(g, "reduce") /\ UNCHANGED blk
          BY <3>2, <4>2, StepAt DEF CastVote
        <5>2. QED
          BY <3>2, <4>2, <5>1
      <4>3. QED
        BY <1>2, <4>1, <4>2
    <3>3. CASE pc[g] \in {"reduce", "read", "full"}
      BY <3>3, StepAt DEF ReduceVotes, ReadVote, AwaitProducer
    <3>4. QED
      BY <1>4, <3>1, <3>2, <3>3
  <2>2. Moves(g, label, b)
    BY <2>1, GoesTo DEF Moves
  <2>3. QED
    BY <1>1, <2>2
<1>5. CASE pc[g] = "soft"
  <2>0. OnlineSoftmax(g)
    BY <1>5, StepAt
  <2>1. CASE ~Overlap
    BY <1>1, <1>5, <2>0, <2>1, GoesTo DEF OnlineSoftmax, Moves
  <2>2. CASE Overlap /\ EndsSegment(b)
    BY <1>1, <1>5, <2>0, <2>2, GoesTo DEF OnlineSoftmax, Moves
  <2>3. CASE Overlap /\ ~EndsSegment(b)
    <3>1. NextBlock(g, "done") /\ b + 1 # NumBlocks /\ b + 1 \notin Starts
      BY <2>0, <2>3 DEF OnlineSoftmax, EndsSegment
    <3>2. Moved(g, "k", b + 1) /\ b + 1 < NumBlocks
      BY <3>1, GoesOn
    <3>3. Moves(g, "k", b + 1)
      BY <1>5, <2>3, <3>1, <3>2 DEF Moves
    <3>4. QED
      BY <1>1, <3>3
  <2>4. QED
    BY <2>1, <2>2, <2>3
<1>6. CASE Finishes(g)
  <2> DEFINE last == IF Overlap THEN "done" ELSE "yield"
  <2>1. NextBlock(g, last)
    BY <1>6, StepAt DEF FinishPV
  <2>2. CASE Moved(g, last, b) /\ b + 1 = NumBlocks
    BY <1>1, <1>6, <2>2 DEF Moves
  <2>3. CASE Moved(g, "k", b + 1) /\ b + 1 < NumBlocks
    <3>1. Overlap => b + 1 \in Starts
      BY <1>2, <1>6, <2>3 DEF Finishes, PlaceOK, EndsSegment
    <3>2. Moves(g, "k", b + 1)
      BY <1>6, <2>3, <3>1 DEF Moves
    <3>3. QED
      BY <1>1, <3>2
  <2>4. QED
    BY <2>1, <2>2, <2>3, GoesOn
<1>7. QED
  BY <1>2, <1>3, <1>4, <1>5, <1>6, StepAt DEF Labels, Finishes

(* What a step changes, by the label it is taken at. *)
LEMMA Frames ==
    ASSUME TypeInv, NEW g \in Groups, GroupStep(g)
    PROVE  /\ UNCHANGED <<launch, kq, vq, ppc, pskip, kLanded, vfull, vflight, sV>>
           /\ kTaken' = IF pc[g] \in {"qk", "mma"} THEN [kTaken EXCEPT ![g] = @ + 1] ELSE kTaken
           /\ vempty' = IF pc[g] = "vrel" \/ Finishes(g) THEN Arrive(vempty, NumGroups)
                        ELSE vempty
           /\ pc[g] \notin {"vote", "reduce"} => UNCHANGED <<sSkip, decision, vote>>
           /\ pc[g] \notin {"vote", "read"} => UNCHANGED rSkip
           /\ pc[g] # "soft" => UNCHANGED ver
           /\ pc[g] \notin {"soft", "sched", "lastv", "pvrest"} /\ ~Finishes(g) => UNCHANGED over
           /\ pc[g] # "pvrest" /\ ~Finishes(g) => UNCHANGED acc
<1>1. UNCHANGED launch /\ pc[g] \in Labels /\ blk[g] \in Nat
  BY StepAt, BlkNat DEF TypeInv
<1>2. CASE pc[g] \in {"turn", "k", "qk", "mma"}
  BY <1>1, <1>2, StepAt DEF FirstTurn, WaitK, FinishScores, producerVars, kVars, vVars,
     memVars, softVars, histVars, Finishes
<1>3. CASE pc[g] \in {"sched", "v", "lastv"}
  BY <1>1, <1>3, StepAt DEF TakeTurn, WaitV, WaitLastV, producerVars, kVars, vVars,
     memVars, softVars, histVars, Finishes
<1>4. CASE pc[g] = "yield" \/ (pc[g] = "pv" /\ Overlap)
  BY <1>1, <1>4, StepAt DEF PassTurn, LastTurn, producerVars, kVars, vVars,
     memVars, softVars, histVars, Finishes
<1>5. CASE pc[g] \in {"pvrest", "vrel"}
  BY <1>1, <1>5, StepAt DEF FinishMma, ReleaseV, producerVars, kVars, vVars,
     memVars, softVars, histVars, Finishes
<1>6. CASE Finishes(g)
  <2>1. pc[g] \in {"lastpv", "pv"}
    BY <1>6 DEF Finishes
  <2>2. FinishPV(g)
    BY <1>6, StepAt
  <2> HIDE DEF Finishes
  <2>3. QED
    BY <1>1, <1>6, <2>1, <2>2 DEF FinishPV, producerVars, kVars, vVars, memVars
<1>7. CASE pc[g] = "vote" /\ blk[g] = 0
  <2>1. UNCHANGED <<producerVars, kVars, vVars, sV, blk, vote, ver, over, acc>>
    BY <1>7, StepAt, Zenon DEF FirstVote
  <2>2. QED
    BY <1>1, <1>7, <2>1 DEF producerVars, kVars, vVars, Finishes
<1>8. CASE pc[g] = "vote" /\ blk[g] > 0
  BY <1>1, <1>8, StepAt DEF CastVote, producerVars, kVars, vVars, histVars, Finishes
<1>9. CASE pc[g] = "reduce"
  <2>1. UNCHANGED <<producerVars, kVars, vVars, sV, blk, softVars, acc>>
    BY <1>9, StepAt, Zenon DEF ReduceVotes
  <2>2. QED
    BY <1>1, <1>9, <2>1 DEF producerVars, kVars, vVars, softVars, Finishes
<1>10. CASE pc[g] \in {"read", "full", "soft"}
  BY <1>1, <1>10, StepAt DEF ReadVote, AwaitProducer, OnlineSoftmax, producerVars, kVars, vVars,
     memVars, softVars, histVars, Finishes
<1>11. QED
  BY <1>1, <1>2, <1>3, <1>4, <1>5, <1>6, <1>7, <1>8, <1>9, <1>10, StepAt DEF Labels, Finishes

(* What becomes of the counts of a group, and of the places of the others. *)
LEMMA Tallies ==
    ASSUME TypeInv, PlaceInv, NEW g \in Groups, NEW label, NEW b, Moves(g, label, b),
           UNCHANGED launch
    PROVE  /\ Scored(g)' = Scored(g) + (IF pc[g] \in {"qk", "mma"} THEN 1 ELSE 0)
           /\ Voted(g)' = Voted(g) + (IF pc[g] \in {"vote", "reduce"} /\ label # "reduce"
                                      THEN 1 ELSE 0)
           /\ Softened(g)' = Softened(g) + (IF pc[g] = "soft" THEN 1 ELSE 0)
           /\ Released(g)' = Released(g) + (IF pc[g] = "vrel" \/ Finishes(g) THEN 1 ELSE 0)
           /\ Waited(g)' = Waited(g) + (IF pc[g] \in {"v", "lastv"} THEN 1 ELSE 0)
           /\ Multiplied(g)' = Multiplied(g) + (IF pc[g] = "pvrest" \/ Finishes(g) THEN 1 ELSE 0)
<1>1. /\ PlaceOK(g) /\ blk[g] \in Nat /\ (b = blk[g] \/ b = blk[g] + 1)
      /\ blk'[g] = b /\ pc'[g] = label /\ NumBlocks \in Nat
      /\ Overlap' = Overlap /\ Starts' = Starts /\ launch' = launch /\ 0 \in Starts
  BY BlkNat, GroupSet, SameLaunch DEF PlaceInv, Moves, Moved, TypeInv
<1>2. QED
  BY <1>1 DEF Moves, Scored, Voted, Softened, Released, Waited, Multiplied, Behind, After, IsAfter,
     PlaceOK, Finishes, Overlap

LEMMA OthersTally ==
    ASSUME NEW h, pc'[h] = pc[h], blk'[h] = blk[h], UNCHANGED launch
    PROVE  /\ Scored(h)' = Scored(h) /\ Voted(h)' = Voted(h) /\ Softened(h)' = Softened(h)
           /\ Released(h)' = Released(h) /\ Waited(h)' = Waited(h)
           /\ Multiplied(h)' = Multiplied(h) /\ Behind(h)' = Behind(h) /\ After(h)' = After(h)
           /\ PlaceOK(h)' = PlaceOK(h) /\ Finishes(h)' = Finishes(h)
BY SameLaunch DEF Scored, Voted, Softened, Released, Waited, Multiplied, Behind, After, PlaceOK,
   EndsSegment, Finishes

LEMMA GroupPlaces ==
    ASSUME TypeInv, PlaceInv, NEW g \in Groups, NEW label, NEW b, Moves(g, label, b),
           UNCHANGED launch
    PROVE  /\ PlaceInv' /\ pc'[g] = label /\ blk'[g] = b /\ label \in Labels /\ b \in Blocks
           /\ b \in {blk[g], blk[g] + 1}
<1>1. /\ PlaceOK(g) /\ blk[g] \in 0 .. NumBlocks - 1 /\ (b = blk[g] \/ b = blk[g] + 1)
      /\ blk'[g] = b /\ pc'[g] = label /\ NumBlocks \in Nat /\ Groups' = Groups
      /\ Overlap' = Overlap /\ Starts' = Starts /\ NumBlocks' = NumBlocks
  BY BlkNat, GroupSet, SameLaunch DEF PlaceInv, Moves, Moved, TypeInv
<1>2. PlaceOK(g)'
  BY <1>1 DEF Moves, PlaceOK, Finishes, EndsSegment
<1>3. \A h \in Groups \ {g} : PlaceOK(h)'
  BY OthersTally DEF Moves, Moved, PlaceInv
<1>4. label \in Labels /\ b \in Blocks
  <2>1. label \in Labels /\ (b = blk[g] + 1 => b < NumBlocks)
    BY <1>1 DEF Moves, Labels
  <2>2. QED
    BY <1>1, <2>1 DEF Blocks
<1>5. QED
  BY <1>1, <1>2, <1>3, <1>4 DEF PlaceInv

-----------------------------------------------------------------------------
(* The barriers of a step. *)

LEMMA TwoParties ==
    ASSUME launch \in Launches, NEW b, TurnOK(b), NEW g \in Groups
    PROVE  /\ TurnOK(BarrierSync(b, g, 2))
           /\ TurnOK(BarrierArrive(b, 2))
<1>1. /\ b.count \in 0 .. 1 /\ b.blocked \subseteq Groups /\ Cardinality(b.blocked) <= b.count
      /\ b = [count |-> b.count, blocked |-> b.blocked]
  BY DEF TurnOK, BarrierOK
<1>2. IsFiniteSet(b.blocked) /\ Cardinality(b.blocked) \in Nat
  BY <1>1, GroupSet, FS_Subset, FS_CardinalityType
<1>3. Cardinality({}) = 0
  BY FS_EmptySet
<1>4. TurnOK(NoOne)
  BY <1>3 DEF NoOne, TurnOK, BarrierOK
<1>5. TurnOK(BarrierSync(b, g, 2))
  <2>1. CASE b.count + 1 = 2
    BY <1>4, <2>1 DEF BarrierSync
  <2>2. CASE b.count + 1 # 2
    <3>1. BarrierSync(b, g, 2) = [count |-> b.count + 1, blocked |-> b.blocked \union {g}]
      BY <2>2 DEF BarrierSync
    <3>2. Cardinality(b.blocked \union {g}) <= b.count + 1
      <4>1. Cardinality(b.blocked \union {g})
              = IF g \in b.blocked THEN Cardinality(b.blocked) ELSE Cardinality(b.blocked) + 1
        BY <1>2, FS_AddElement
      <4>2. QED
        BY <1>1, <1>2, <4>1
    <3>3. b.count + 1 \in 0 .. 1 /\ b.blocked \union {g} \subseteq Groups
      BY <1>1, <2>2
    <3>4. QED
      BY <3>1, <3>2, <3>3 DEF TurnOK, BarrierOK
  <2>3. QED
    BY <2>1, <2>2
<1>6. TurnOK(BarrierArrive(b, 2))
  <2>1. CASE b.count + 1 = 2
    BY <1>4, <2>1 DEF BarrierArrive
  <2>2. CASE b.count + 1 # 2
    <3>1. BarrierArrive(b, 2) = [b EXCEPT !.count = @ + 1]
      BY <2>2 DEF BarrierArrive
    <3>2. /\ BarrierArrive(b, 2).count \in {b.count, b.count + 1}
          /\ BarrierArrive(b, 2).blocked = b.blocked
      BY <1>1, <3>1
    <3>3. QED
      BY <1>1, <1>2, <2>2, <3>1, <3>2 DEF TurnOK, BarrierOK
  <2>3. QED
    BY <2>1, <2>2
<1>7. QED
  BY <1>5, <1>6

LEMMA TakesTurn ==
    ASSUME TypeInv, TurnInv, UNCHANGED launch, NEW g \in Groups,
           SchedulerSync(g) \/ SchedulerArrive(g)
    PROVE  /\ TurnInv' /\ bar' = [c \in Barriers' |-> bar'[c]]
           /\ \A c \in CTABarriers : bar'[c] = bar[c]
<1>1. /\ launch \in Launches /\ bar = [c \in Barriers |-> bar[c]]
      /\ Groups' = Groups /\ Barriers' = Barriers
      /\ \A h \in Groups : TurnOK(bar[WarpScheduler(h)])
  BY SameLaunch DEF TypeInv, TurnInv
<1>2. ASSUME NEW h \in Groups, NEW new, TurnOK(new), bar' = [bar EXCEPT ![WarpScheduler(h)] = new]
      PROVE  /\ TurnInv' /\ bar' = [c \in Barriers' |-> bar'[c]]
             /\ \A c \in CTABarriers : bar'[c] = bar[c]
  <2>1. WarpScheduler(h) \in Barriers /\ WarpScheduler(h) \notin CTABarriers
    BY Bars
  <2>2. /\ bar' = [c \in Barriers |-> bar'[c]]
        /\ \A c \in Barriers \ {WarpScheduler(h)} : bar'[c] = bar[c]
        /\ bar'[WarpScheduler(h)] = new
    BY <1>1, <1>2, <2>1
  <2>3. \A c \in CTABarriers : bar'[c] = bar[c]
    BY <2>1, <2>2, Bars
  <2>4. \A i \in Groups : TurnOK(bar'[WarpScheduler(i)])
    BY <1>1, <1>2, <2>2, Bars
  <2>5. \A x : TurnOK(x)' <=> TurnOK(x)
    BY SameLaunch DEF TurnOK, BarrierOK
  <2>6. \A i : WarpScheduler(i)' = WarpScheduler(i)
    BY DEF WarpScheduler
  <2>7. QED
    BY <1>1, <2>2, <2>3, <2>4, SameLaunch DEF TurnInv, TurnOK, BarrierOK, WarpScheduler
<1>3. CASE UNCHANGED bar
  BY <1>1, <1>3, SameLaunch DEF TurnInv, TurnOK, BarrierOK, WarpScheduler
<1>4. CASE SchedulerSync(g) /\ UseScheduler
  <2>1. bar' = [bar EXCEPT ![WarpScheduler(g)] = BarrierSync(bar[WarpScheduler(g)], g, 2)]
    BY <1>4, Bars DEF SchedulerSync, Sync
  <2>2. TurnOK(BarrierSync(bar[WarpScheduler(g)], g, 2))
    BY <1>1, TwoParties
  <2>3. QED
    BY <1>2, <2>1, <2>2
<1>5. CASE SchedulerArrive(g) /\ UseScheduler
  <2> DEFINE h == (g + 1) % NumGroups
  <2>1. h \in Groups
    BY <1>1, GroupSet
  <2>2. bar' = [bar EXCEPT ![WarpScheduler(h)] = BarrierArrive(bar[WarpScheduler(h)], 2)]
    BY <1>5, Bars DEF SchedulerArrive, ArriveOn
  <2>3. TurnOK(BarrierArrive(bar[WarpScheduler(h)], 2))
    BY <1>1, <2>1, TwoParties
  <2> HIDE DEF h
  <2>4. QED
    BY <1>2, <2>1, <2>2, <2>3
<1>6. QED
  BY <1>3, <1>4, <1>5 DEF SchedulerSync, SchedulerArrive

LEMMA TurnsStay ==
    ASSUME TurnInv, UNCHANGED launch, \A c \in Barriers \ CTABarriers : bar'[c] = bar[c]
    PROVE  TurnInv'
<1>1. /\ Groups' = Groups
      /\ \A g \in Groups : bar'[WarpScheduler(g)] = bar[WarpScheduler(g)]
  BY SameLaunch, Bars
<1>2. QED
  BY <1>1 DEF TurnInv, TurnOK, BarrierOK, WarpScheduler

(* The labels at which a group comes to a barrier of the CTA. *)
Meeting == {"pvrest", "vote", "reduce", "read", "full"}

LEMMA GroupMeets ==
    ASSUME TypeInv, PlaceInv, TurnInv, BarInv, GateInv, NEW g \in Groups, GroupStep(g),
           NEW label, NEW b, Moves(g, label, b)
    PROVE  /\ BarInv' /\ GateInv' /\ TurnInv' /\ bar' = [c \in Barriers' |-> bar'[c]]
           /\ \A h \in Groups \ {g} : Blocked(h)' => Blocked(h)
           /\ pc[g] \in Meeting =>
                /\ \A h \in Groups : Gate(h) = <<blk[g], label>>
                /\ Gate(0)' \in {Gate(0), NextGate(launch, label, blk[g])}
           /\ pc[g] \notin Meeting =>
                /\ \A h : Blocked(h)' <=> Blocked(h)
                /\ Gate(0)' = Gate(0)
<1>1. /\ ~Blocked(g) /\ UNCHANGED <<launch, ppc, vq>> /\ PlaceOK(g)
      /\ blk[g] \in Nat /\ launch \in Launches /\ Moved(g, label, b) /\ 0 \in Groups
  BY StepAt, Runs, Frames, BlkNat, GroupSet DEF PlaceInv, TypeInv, Moves
<1>2. CASE pc[g] \in Meeting
  <2>1. Sync(BarrierOf(label), g) /\ b = blk[g] /\ label \in ArrivesAt
        /\ NextGate(launch, pc[g], blk[g]) = <<blk[g], label>>
    <3>1. CASE pc[g] = "pvrest"
      <4>1. label = "vrel" /\ b = blk[g] /\ Sync(Softmax, g)
        BY <3>1, StepAt DEF Moves, FinishMma, Finishes
      <4>2. FirstGate(launch, blk[g]) = <<blk[g], "vrel">>
        BY <1>1, <3>1, GroupSet DEF PlaceOK, FirstGate, Overlap, Starts
      <4>3. QED
        BY <3>1, <4>1, <4>2, Gates, BarrierOfs DEF ArrivesAt
    <3>2. CASE pc[g] = "vote" /\ blk[g] = 0
      <4>1. label = "full" /\ b = blk[g]
        BY <3>2 DEF Moves, Finishes
      <4>2. Sync(PFull, g)
        BY <3>2, StepAt, Zenon DEF FirstVote
      <4>3. QED
        BY <3>2, <4>1, <4>2, Gates, BarrierOfs DEF ArrivesAt
    <3>3. CASE pc[g] = "vote" /\ blk[g] > 0
      <4>1. label = "reduce" /\ b = blk[g] /\ Sync(Softmax, g)
        BY <1>1, <3>3, StepAt DEF Moves, CastVote, Finishes
      <4>2. QED
        BY <3>3, <4>1, Gates, BarrierOfs DEF ArrivesAt
    <3>4. CASE pc[g] = "reduce"
      <4>1. label = "read" /\ b = blk[g]
        BY <3>4 DEF Moves, Finishes
      <4>2. Sync(Softmax, g)
        BY <3>4, StepAt, Zenon DEF ReduceVotes
      <4>3. QED
        BY <3>4, <4>1, <4>2, Gates, BarrierOfs DEF ArrivesAt
    <3>5. CASE pc[g] \in {"read", "full"}
      <4>1. /\ b = blk[g] /\ label = IF pc[g] = "read" THEN "full" ELSE "soft"
            /\ Sync(IF pc[g] = "read" THEN PFull ELSE PEmpty, g)
        BY <3>5, StepAt DEF Moves, ReadVote, AwaitProducer, Finishes
      <4>2. QED
        BY <3>5, <4>1, Gates, BarrierOfs DEF ArrivesAt
    <3>6. QED
      BY <1>1, <1>2, <3>1, <3>2, <3>3, <3>4, <3>5 DEF Meeting
  <2>2. Gate(g) = <<blk[g], label>>
    BY <1>1, <2>1 DEF Gate
  <2>3. \A h \in Groups : Gate(h) = <<blk[g], label>>
    BY <2>2 DEF GateInv
  <2>4. /\ BarInv' /\ GateInv' /\ OthersStay
        /\ \A h \in Groups \ {g} : Blocked(h)' => Blocked(h)
        /\ Gate(0)' \in {Gate(0), NextGate(launch, label, blk[g])}
    BY <1>1, <2>1, GroupArrives
  <2>5. QED
    BY <1>1, <1>2, <2>3, <2>4, TurnsStay DEF OthersStay
<1>3. CASE pc[g] \notin Meeting
  <2>1. /\ TurnInv' /\ bar' = [c \in Barriers' |-> bar'[c]]
        /\ \A c \in CTABarriers : bar'[c] = bar[c]
    <3>1. UNCHANGED bar \/ SchedulerSync(g) \/ SchedulerArrive(g)
      <4>1. CASE pc[g] \in {"turn", "k", "qk", "mma"}
        BY <4>1, StepAt DEF FirstTurn, WaitK, FinishScores
      <4>2. CASE pc[g] \in {"sched", "v", "lastv", "vrel"}
        BY <4>2, StepAt DEF TakeTurn, WaitV, WaitLastV, ReleaseV, vVars
      <4>3. CASE pc[g] \in {"yield", "soft"} \/ (pc[g] = "pv" /\ Overlap)
        BY <4>3, StepAt DEF LastTurn, OnlineSoftmax, PassTurn
      <4>4. CASE Finishes(g)
        BY <4>4, StepAt DEF FinishPV
      <4>5. QED
        BY <1>3, <4>1, <4>2, <4>3, <4>4, StepAt DEF TypeInv, Labels, Meeting, Finishes
    <3>2. CASE UNCHANGED bar
      BY <1>1, <3>2, TurnsStay, SameLaunch DEF TypeInv
    <3>3. QED
      BY <1>1, <3>1, <3>2, TakesTurn
  <2>2. NextGate(launch, label, b) = NextGate(launch, pc[g], blk[g])
    <3>0. CASE pc[g] = "vrel"
      <4>1. label = "vote" /\ b = blk[g] /\ b # 0
        BY <1>1, <3>0, GroupSet DEF Moves, PlaceOK, Finishes
      <4>2. QED
        BY <3>0, <4>1, Gates
    <3>1. CASE pc[g] = "soft" \/ Finishes(g)
      <4>1. NextGate(launch, pc[g], blk[g]) = FirstGate(launch, blk[g] + 1)
        BY <3>1, Gates DEF Finishes, Overlap
      <4>2. \/ label = "k" /\ b = blk[g] + 1
            \/ label = "v" /\ b = blk[g] /\ ~Overlap
            \/ label \in {"lastv", "done", "yield"} /\ b = blk[g]
        BY <1>1, <3>1 DEF Moves, PlaceOK, Finishes
      <4>3. QED
        BY <4>1, <4>2, Gates DEF Overlap
    <3>2. CASE pc[g] = "qk"
      <4>1. label = "vote" /\ b = blk[g] /\ (Overlap => blk[g] \in Starts)
        BY <1>1, <3>2 DEF Moves, PlaceOK, Finishes
      <4>2. QED
        BY <1>1, <3>2, <4>1, Gates DEF FirstGate, Overlap, Starts
    <3>3. CASE pc[g] \in {"turn", "k", "mma", "sched", "v", "pv", "lastv", "yield"} /\ ~Finishes(g)
      BY <1>1, <3>3, Gates DEF Moves, PlaceOK, Overlap, Finishes
    <3>4. QED
      BY <1>3, <3>0, <3>1, <3>2, <3>3, StepAt DEF TypeInv, Labels, Meeting, Finishes
  <2>3. BarInv' /\ GateInv' /\ (\A h : Blocked(h)' <=> Blocked(h)) /\ \A h \in Groups : Gate(h)' = Gate(h)
    BY <1>1, <2>1, <2>2, GroupPasses
  <2>4. QED
    BY <1>1, <1>3, <2>1, <2>3
<1>4. QED
  BY <1>2, <1>3

-----------------------------------------------------------------------------
(* What a group's step does to the outcomes and to the words. *)

Extends == /\ decision' \in Seq(BOOLEAN) /\ Len(decision) \in Nat /\ Len(decision') \in Nat
           /\ Len(decision) <= Len(decision')
           /\ \A i \in 1 .. Len(decision) : decision'[i] = decision[i]

LEMMA Appends ==
    ASSUME decision \in Seq(BOOLEAN), NEW x \in BOOLEAN, decision' = Append(decision, x)
    PROVE  /\ Extends /\ Len(decision') = Len(decision) + 1
           /\ decision'[Len(decision) + 1] = x
BY DEF Extends

LEMMA KeepsOutcomes ==
    ASSUME decision \in Seq(BOOLEAN), UNCHANGED decision
    PROVE  Extends
BY DEF Extends

(* A group at a meeting, and the label it comes from. *)
LEMMA Back ==
    ASSUME TypeInv, NEW h \in Groups, NEW t \in Nat, NEW l, Gate(h) = <<t, l>>
    PROVE  /\ blk[h] \in {t, t - 1} /\ (Blocked(h) => blk[h] = t /\ pc[h] = l)
           /\ l = "read" => blk[h] = t /\ (IF Blocked(h) THEN pc[h] = "read" ELSE pc[h] = "reduce")
           /\ l = "full" /\ t > 0 =>
                blk[h] = t /\ (IF Blocked(h) THEN pc[h] = "full" ELSE pc[h] = "read")
           /\ l = "soft" => blk[h] = t /\ (IF Blocked(h) THEN pc[h] = "soft" ELSE pc[h] = "full")
           /\ l = "vrel" /\ ~Blocked(h) =>
                (IF After(h) THEN FirstGate(launch, blk[h] + 1) ELSE FirstGate(launch, blk[h])) = <<t, l>>
<1>1. blk[h] \in Nat /\ pc[h] \in Labels
  BY BlkNat DEF TypeInv
<1>2. CASE Blocked(h)
  BY <1>1, <1>2 DEF Gate
<1>3. CASE ~Blocked(h)
  <2>1. NextGate(launch, pc[h], blk[h]) = <<t, l>>
    BY <1>3 DEF Gate
  <2>2. CASE pc[h] \in {"vrel", "vote", "reduce", "read", "full"}
    BY <1>1, <1>3, <2>1, <2>2, Gates
  <2>3. CASE pc[h] \notin {"vrel", "vote", "reduce", "read", "full"}
    <3>1. (IF After(h) THEN FirstGate(launch, blk[h] + 1) ELSE FirstGate(launch, blk[h])) = <<t, l>>
      BY <2>1, <2>3 DEF NextGate, After
    <3>2. l \in {"full", "vrel", "reduce"} /\ (l = "full" => t = 0)
      BY <3>1, FirstGates
    <3>3. blk[h] = t \/ blk[h] + 1 = t
      BY <3>1, FirstGates
    <3>4. QED
      BY <1>1, <1>3, <3>1, <3>2, <3>3
  <2>4. QED
    BY <2>2, <2>3
<1>4. QED
  BY <1>2, <1>3

LEMMA FlagsOf ==
    ASSUME NEW flag
    PROVE  Flags(Vote(flag)) = {flag}
BY DEF Flags, Vote

LEMMA SaysFirst ==
    ASSUME TypeInv, NEW g \in Groups, GroupStep(g), pc[g] = "vote", blk[g] = 0
    PROVE  /\ sSkip' = (IF g = 0 THEN [sSkip EXCEPT ![0] = Vote(FALSE)] ELSE sSkip)
           /\ decision' = (IF g = 0 THEN Append(decision, FALSE) ELSE decision)
           /\ rSkip' = [rSkip EXCEPT ![g] = FALSE] /\ UNCHANGED vote
<1>1. FirstVote(g)
  BY StepAt
<1>2. QED
  BY <1>1, Zenon DEF FirstVote

LEMMA Casts ==
    ASSUME TypeInv, NEW g \in Groups, GroupStep(g), pc[g] = "vote", blk[g] > 0
    PROVE  /\ UNCHANGED <<decision, rSkip>>
           /\ \E flag \in BOOLEAN : /\ vote' = [vote EXCEPT ![g] = flag]
                                    /\ sSkip' = [sSkip EXCEPT ![g] = Vote(flag)]
<1>1. CastVote(g)
  BY StepAt
<1>2. QED
  BY <1>1, Zenon DEF CastVote, histVars

(* The first group combines words that are all votes of this block. *)
LEMMA Reduces ==
    ASSUME TypeInv, BarInv, GateInv, VoteInv, GroupStep(0), pc[0] = "reduce"
    PROVE  \E x \in BOOLEAN : /\ decision' = Append(decision, x)
                              /\ sSkip' = [sSkip EXCEPT ![0] = Vote(x)]
                              /\ UNCHANGED vote
<1>1. /\ 0 \in Groups /\ blk[0] \in Nat
  BY GroupSet, BlkNat DEF TypeInv
<1>2. ReduceVotes(0) /\ ~Blocked(0)
  BY <1>1, StepAt, Runs
<1>3. PICK flags \in [Groups -> BOOLEAN] :
          /\ \A w \in Groups : flags[w] \in Flags(sSkip[w])
          /\ sSkip' = [sSkip EXCEPT ![0] = Vote(\A w \in Groups : flags[w])]
          /\ decision' = Append(decision, \A w \in Groups : vote[w])
  BY <1>2, Zenon DEF ReduceVotes
<1>4. \A h \in Groups : Gate(h) = <<blk[0], "read">>
  <2>1. Gate(0) = <<blk[0], "read">>
    BY <1>2, Gates DEF Gate
  <2>2. QED
    BY <1>1, <2>1 DEF GateInv
<1>5. ASSUME NEW h \in Groups PROVE flags[h] = vote[h]
  <2>1. IF Blocked(h) THEN pc[h] = "read" ELSE pc[h] = "reduce"
    BY <1>1, <1>4, Back
  <2>2. CastOK(h)
    BY DEF VoteInv
  <2>3. sSkip[h] = Vote(vote[h])
    BY <1>2, <2>1, <2>2 DEF CastOK
  <2>4. QED
    BY <1>3, <2>3, FlagsOf
<1>6. (\A w \in Groups : flags[w]) = (\A w \in Groups : vote[w])
  <2>1. (\A w \in Groups : flags[w]) <=> (\A w \in Groups : vote[w])
    BY <1>5
  <2>2. QED
    BY <2>1
<1>7. UNCHANGED vote
  BY <1>2 DEF ReduceVotes, softVars
<1> DEFINE x == \A w \in Groups : vote[w]
<1>8. x \in BOOLEAN /\ decision' = Append(decision, x)
  BY <1>3, Zenon
<1>9. sSkip' = [sSkip EXCEPT ![0] = Vote(x)]
  BY <1>3, <1>6, Zenon
<1> HIDE DEF x
<1>10. QED
  BY <1>7, <1>8, <1>9

LEMMA JustWatches ==
    ASSUME TypeInv, NEW g \in Groups, GroupStep(g), pc[g] = "reduce" => g # 0, pc[g] # "vote"
    PROVE  UNCHANGED <<sSkip, decision, vote>>
<1>1. CASE pc[g] = "reduce"
  <2>1. ReduceVotes(g)
    BY <1>1, StepAt
  <2>2. QED
    BY <1>1, <2>1, Zenon DEF ReduceVotes, softVars
<1>2. CASE pc[g] # "reduce"
  BY <1>2, Frames
<1>3. QED
  BY <1>1, <1>2

LEMMA GroupDecides ==
    ASSUME TypeInv, PlaceInv, BarInv, GateInv, DecisionInv, VoteInv, NEW g \in Groups,
           GroupStep(g), NEW label, NEW b, Moves(g, label, b)
    PROVE  /\ Extends /\ DecisionInv'
           /\ g = 0 /\ pc[g] = "vote" /\ blk[g] = 0 => Len(decision) = 0
           /\ g = 0 /\ pc[g] = "reduce" => Len(decision) = blk[0] /\ blk[0] > 0
<1>1. /\ UNCHANGED launch /\ decision \in Seq(BOOLEAN)
      /\ blk[g] \in Nat /\ 0 \in Groups /\ Groups' = Groups
  BY Frames, BlkNat, GroupSet, SameLaunch DEF TypeInv
<1>0. Len(decision) \in Nat
  BY <1>1
<1>2. Len(decision) = Voted(0) /\ (Len(decision) > 0 => ~decision[1])
  BY DEF DecisionInv
<1>3. /\ g # 0 => Voted(0)' = Voted(0)
      /\ Voted(g)' = Voted(g) + (IF pc[g] \in {"vote", "reduce"} /\ label # "reduce" THEN 1 ELSE 0)
  <2>1. g # 0 => pc'[0] = pc[0] /\ blk'[0] = blk[0]
    BY <1>1 DEF Moves, Moved
  <2>2. QED
    BY <1>1, <2>1, Tallies, OthersTally
<1>4. g = 0 => Len(decision) = blk[g] + (IF After(g) \/ pc[g] \in {"read", "full"} THEN 1 ELSE 0)
  BY <1>2 DEF Voted
<1>5. CASE g = 0 /\ pc[g] = "vote" /\ blk[g] = 0
  <2>1. label = "full"
    BY <1>5 DEF Moves, Finishes
  <2>2. Len(decision) = 0
    BY <1>4, <1>5 DEF After, IsAfter
  <2>3. decision' = Append(decision, FALSE)
    BY <1>5, SaysFirst
  <2>4. Extends /\ Len(decision') = Len(decision) + 1 /\ decision'[Len(decision) + 1] = FALSE
    <3>1. FALSE \in BOOLEAN
      OBVIOUS
    <3>2. QED
      BY <1>1, <2>3, <3>1, Appends
  <2>5. DecisionInv'
    BY <1>2, <1>3, <1>5, <2>1, <2>2, <2>4 DEF DecisionInv
  <2>6. QED
    BY <1>5, <2>2, <2>4, <2>5
<1>6. CASE g = 0 /\ pc[g] = "reduce"
  <2>1. label = "read" /\ blk[g] > 0
    BY <1>6 DEF Moves, Finishes, PlaceInv, PlaceOK
  <2>2. Len(decision) = blk[g]
    BY <1>4, <1>6, <1>1 DEF After, IsAfter
  <2>3. PICK x \in BOOLEAN : decision' = Append(decision, x)
    BY <1>6, Reduces
  <2>4. Extends /\ Len(decision') = Len(decision) + 1
    BY <1>1, <2>3, Appends
  <2>5. decision'[1] = decision[1]
    BY <1>0, <1>1, <2>1, <2>2, <2>4 DEF Extends
  <2>6. DecisionInv'
    BY <1>0, <1>1, <1>2, <1>3, <1>6, <2>1, <2>2, <2>4, <2>5 DEF DecisionInv
  <2>7. QED
    BY <1>6, <2>1, <2>2, <2>4, <2>6
<1>7. CASE ~(g = 0 /\ pc[g] = "vote" /\ blk[g] = 0) /\ ~(g = 0 /\ pc[g] = "reduce")
  <2>1. UNCHANGED decision
    <3>1. CASE pc[g] = "vote" /\ blk[g] > 0
      BY <3>1, Casts
    <3>2. CASE pc[g] = "vote" /\ ~(blk[g] > 0)
      <4>1. blk[g] = 0 /\ g # 0
        BY <1>1, <1>7, <3>2
      <4>2. QED
        BY <3>2, <4>1, SaysFirst
    <3>3. CASE pc[g] # "vote"
      BY <1>7, <3>3, JustWatches
    <3>4. QED
      BY <3>1, <3>2, <3>3
  <2>2. Voted(0)' = Voted(0)
    <3>1. CASE g = 0
      <4>1. pc[g] = "vote" => blk[g] > 0 /\ label = "reduce"
        BY <1>1, <1>7, <3>1 DEF Moves, Finishes
      <4>2. Voted(0) \in Nat
        BY <1>1, <3>1 DEF Voted
      <4>3. QED
        BY <1>3, <1>7, <3>1, <4>1, <4>2
    <3>2. QED
      BY <1>3, <3>1
  <2>3. DecisionInv'
    BY <1>2, <2>1, <2>2 DEF DecisionInv
  <2>4. QED
    BY <1>1, <1>7, <2>1, <2>3, KeepsOutcomes
<1>8. QED
  BY <1>5, <1>6, <1>7

(* A step leaves the places of the other groups. *)
LEMMA OthersAt ==
    ASSUME NEW g, NEW label, NEW b, Moves(g, label, b), NEW h \in Groups \ {g}
    PROVE  pc'[h] = pc[h] /\ blk'[h] = blk[h]
BY DEF Moves, Moved

(* What becomes of word 0 and of the outcomes in a step of another group. *)
LEMMA OthersWords ==
    ASSUME TypeInv, NEW g \in Groups, GroupStep(g), NEW h \in Groups \ {g}
    PROVE  /\ vote'[h] = vote[h] /\ rSkip'[h] = rSkip[h]
           /\ h # 0 \/ g # 0 => sSkip'[h] = sSkip[h]
           /\ g # 0 => UNCHANGED decision
<1>1. /\ blk[g] \in Nat /\ vote \in [Groups -> BOOLEAN] /\ rSkip \in [Groups -> BOOLEAN]
      /\ sSkip \in [Words -> WordSet] /\ Groups \subseteq Words /\ 0 \in Groups
  BY BlkNat, GroupSet DEF TypeInv
<1>2. CASE pc[g] = "vote" /\ blk[g] = 0
  <2>1. /\ sSkip' = (IF g = 0 THEN [sSkip EXCEPT ![0] = Vote(FALSE)] ELSE sSkip)
        /\ decision' = (IF g = 0 THEN Append(decision, FALSE) ELSE decision)
        /\ rSkip' = [rSkip EXCEPT ![g] = FALSE] /\ UNCHANGED vote
    BY <1>2, SaysFirst
  <2>2. CASE g = 0
    <3>1. sSkip'[h] = sSkip[h]
      BY <1>1, <2>1, <2>2
    <3>2. QED
      BY <1>1, <2>1, <2>2, <3>1
  <2>3. CASE g # 0
    BY <1>1, <2>1, <2>3
  <2>4. QED
    BY <2>2, <2>3
<1>3. CASE pc[g] = "vote" /\ blk[g] > 0
  BY <1>1, <1>3, Casts
<1>4. CASE pc[g] = "reduce"
  <2>1. ReduceVotes(g)
    BY <1>4, StepAt
  <2>2. rSkip' = rSkip /\ vote' = vote
    BY <2>1 DEF ReduceVotes, softVars
  <2>3. CASE g = 0
    <3>1. \E x : sSkip' = [sSkip EXCEPT ![0] = x]
      <4>1. PICK flags \in [Groups -> BOOLEAN] :
                sSkip' = [sSkip EXCEPT ![0] = Vote(\A w \in Groups : flags[w])]
        BY <2>1, <2>3, Zenon DEF ReduceVotes
      <4>2. QED
        BY <4>1, Zenon
    <3>2. QED
      BY <1>1, <2>2, <2>3, <3>1
  <2>4. QED
    BY <1>1, <1>4, <2>2, <2>3, JustWatches
<1>5. CASE pc[g] = "read"
  <2>1. ReadVote(g)
    BY <1>5, StepAt
  <2>2. \E flag \in Flags(sSkip[0]) : rSkip' = [rSkip EXCEPT ![g] = flag]
    BY <2>1, Zenon DEF ReadVote
  <2>3. QED
    BY <1>1, <1>5, <2>2, Frames
<1>6. QED
  BY <1>1, <1>2, <1>3, <1>4, <1>5, Frames

LEMMA GroupVotes ==
    ASSUME TypeInv, PlaceInv, TurnInv, BarInv, GateInv, DecisionInv, VoteInv,
           NEW g \in Groups, GroupStep(g), NEW label, NEW b, Moves(g, label, b)
    PROVE  VoteInv'
<1>1. /\ UNCHANGED launch /\ decision \in Seq(BOOLEAN) /\ vote \in [Groups -> BOOLEAN]
      /\ sSkip \in [Words -> WordSet] /\ Groups \subseteq Words
      /\ blk[g] \in Nat /\ 0 \in Groups /\ Groups' = Groups
      /\ pc'[g] = label /\ blk'[g] = b
  BY Frames, BlkNat, GroupSet, SameLaunch DEF TypeInv, Moves, Moved
<1>2. \A h \in Groups \ {g} : Blocked(h)' => Blocked(h)
  BY GroupMeets
<1>3. ASSUME NEW h \in Groups PROVE CastOK(h)'
  <2>1. CastOK(h)
    BY DEF VoteInv
  <2>2. CASE h # g
    <3>1. pc'[h] = pc[h] /\ vote'[h] = vote[h]
      BY <2>2, OthersAt, OthersWords
    <3>2. CASE h # 0 \/ g # 0
      BY <1>2, <2>1, <2>2, <3>1, <3>2, OthersWords DEF CastOK
    <3>3. QED
      BY <2>2, <3>2
  <2>3. CASE h = g /\ label = "reduce"
    <3>1. pc[g] = "vote" /\ blk[g] > 0
      BY <2>3 DEF Moves, Finishes
    <3>2. PICK flag \in BOOLEAN : /\ vote' = [vote EXCEPT ![g] = flag]
                                 /\ sSkip' = [sSkip EXCEPT ![g] = Vote(flag)]
      BY <3>1, Casts
    <3>3. QED
      BY <1>1, <2>3, <3>2 DEF CastOK
  <2>4. CASE h = g /\ label = "read" /\ g # 0
    <3>1. pc[g] = "reduce"
      BY <2>4 DEF Moves, Finishes
    <3>2. UNCHANGED <<sSkip, decision, vote>>
      BY <2>4, <3>1, JustWatches
    <3>3. QED
      BY <2>1, <2>4, <3>1, <3>2 DEF CastOK
  <2>5. CASE h = g /\ label # "reduce" /\ (label = "read" => g = 0)
    BY <1>1, <2>5 DEF CastOK
  <2>6. QED
    BY <2>2, <2>3, <2>4, <2>5
<1>4. (pc[0] \in {"read", "full"} \/ (pc[0] = "soft" /\ Blocked(0)) =>
          sSkip[0] = Vote(decision[blk[0] + 1]))'
  <2>1. pc[0] \in {"read", "full"} \/ (pc[0] = "soft" /\ Blocked(0)) =>
          sSkip[0] = Vote(decision[blk[0] + 1])
    BY DEF VoteInv
  <2>2. CASE g # 0
    <3>1. pc'[0] = pc[0] /\ blk'[0] = blk[0]
      BY <1>1, <2>2, OthersAt
    <3>2. sSkip'[0] = sSkip[0] /\ UNCHANGED decision
      BY <1>1, <2>2, OthersWords
    <3>3. Blocked(0)' => Blocked(0)
      BY <1>1, <1>2, <2>2
    <3>4. QED
      BY <2>1, <3>1, <3>2, <3>3
  <2>3. CASE g = 0 /\ pc[g] = "vote" /\ label = "full"
    <3>1. blk[g] = 0 /\ b = 0
      BY <2>3 DEF Moves, Finishes
    <3>2. Len(decision) = 0
      BY <2>3, <3>1, GroupDecides
    <3>3. /\ sSkip' = [sSkip EXCEPT ![0] = Vote(FALSE)]
          /\ decision' = Append(decision, FALSE)
      BY <2>3, <3>1, SaysFirst
    <3>4. PICK x \in BOOLEAN : /\ decision' = Append(decision, x)
                              /\ sSkip' = [sSkip EXCEPT ![0] = Vote(x)]
      BY <3>3, Zenon
    <3>5. decision'[0 + 1] = x
      BY <1>1, <3>2, <3>4, Appends
    <3>6. sSkip'[0] = Vote(x)
      BY <1>1, <3>4
    <3>7. QED
      BY <1>1, <2>3, <3>1, <3>5, <3>6
  <2>4. CASE g = 0 /\ pc[g] = "reduce" /\ label = "read"
    <3>1. Len(decision) = blk[0] /\ b = blk[0]
      BY <2>4, GroupDecides DEF Moves, Finishes
    <3>2. PICK x \in BOOLEAN : /\ decision' = Append(decision, x)
                              /\ sSkip' = [sSkip EXCEPT ![0] = Vote(x)]
      BY <2>4, Reduces
    <3>3. decision'[blk[0] + 1] = x
      BY <1>1, <3>1, <3>2, Appends
    <3>4. sSkip'[0] = Vote(x)
      BY <1>1, <3>2
    <3>5. QED
      BY <1>1, <2>4, <3>1, <3>3, <3>4
  <2>5. CASE /\ g = 0 /\ label \in {"read", "full", "soft"}
             /\ ~(pc[g] = "vote" /\ label = "full")
             /\ ~(pc[g] = "reduce" /\ label = "read")
    <3>1. b = blk[g] /\ pc[g] \in {"read", "full"}
      BY <2>5 DEF Moves, Finishes
    <3>2. UNCHANGED <<sSkip, decision, vote>>
      BY <3>1, JustWatches
    <3>3. QED
      BY <1>1, <2>1, <2>5, <3>1, <3>2
  <2>6. CASE g = 0 /\ label \notin {"read", "full", "soft"}
    BY <1>1, <2>6
  <2>7. QED
    BY <2>2, <2>3, <2>4, <2>5, <2>6
<1>5. QED
  BY <1>1, <1>3, <1>4 DEF VoteInv

(* What a group knows of an outcome it knows until the next vote. *)
LEMMA Remembers ==
    ASSUME TypeInv, PlaceInv, NEW g \in Groups, NEW label, NEW b, Moves(g, label, b),
           UNCHANGED launch
    PROVE  /\ After(g)' => \/ After(g) /\ b = blk[g]
                           \/ pc[g] = "full" /\ label = "soft" /\ b = blk[g]
           /\ Behind(g)' => \/ Behind(g) /\ b = blk[g]
                            \/ After(g) /\ b = blk[g] + 1
           /\ label = "full" => b = blk[g] /\ ((b = 0 /\ pc[g] = "vote") \/ (b > 0 /\ pc[g] = "read"))
<1>1. /\ pc'[g] = label /\ blk'[g] = b /\ pc[g] \in Labels /\ blk[g] \in Nat
      /\ Starts' = Starts /\ Overlap' = Overlap /\ PlaceOK(g)
  BY BlkNat, SameLaunch DEF TypeInv, Moves, Moved, PlaceInv
<1>2. /\ After(g)' <=> \/ label \in {"soft", "lastv", "lastpv", "yield", "done"}
                       \/ ~Overlap /\ label \in {"v", "sched", "pv"}
      /\ After(g) <=> \/ pc[g] \in {"soft", "lastv", "lastpv", "yield", "done"}
                      \/ ~Overlap /\ pc[g] \in {"v", "sched", "pv"}
  BY <1>1 DEF After, IsAfter, Overlap
<1>3. /\ Behind(g)' <=> /\ Overlap /\ b \notin Starts
                        /\ label \in {"k", "sched", "v", "pv", "mma", "pvrest", "vrel"}
      /\ Behind(g) <=> /\ Overlap /\ blk[g] \notin Starts
                       /\ pc[g] \in {"k", "sched", "v", "pv", "mma", "pvrest", "vrel"}
  BY <1>1 DEF Behind
<1>4. /\ label = "full" => b = blk[g] /\ ((b = 0 /\ pc[g] = "vote") \/ (b > 0 /\ pc[g] = "read"))
  BY <1>1 DEF Moves, Finishes, PlaceOK
<1>5. After(g)' => \/ After(g) /\ b = blk[g]
                   \/ pc[g] = "full" /\ label = "soft" /\ b = blk[g]
  BY <1>1, <1>2 DEF Moves, Finishes, PlaceOK
<1>6. Behind(g)' => \/ Behind(g) /\ b = blk[g]
                    \/ After(g) /\ b = blk[g] + 1
  BY <1>1, <1>2, <1>3 DEF Moves, Finishes, PlaceOK
<1>7. QED
  BY <1>4, <1>5, <1>6

(* Both the group that reads and the one that meets the producer stand     *)
(* where the first group has voted on the block.                           *)
LEMMA FirstHasVoted ==
    ASSUME TypeInv, GateInv, BarInv, NEW g \in Groups, ~Blocked(g),
           (pc[g] = "read" /\ blk[g] > 0) \/ pc[g] = "full"
    PROVE  /\ blk[0] = blk[g] /\ Voted(0) = blk[g] + 1
           /\ pc[g] = "read" => pc[0] \in {"read", "full"}
<1>1. 0 \in Groups /\ blk[g] \in Nat
  BY GroupSet, BlkNat DEF TypeInv
<1>2. Gate(g) = Gate(0) /\ Gate(g) = NextGate(launch, pc[g], blk[g])
  BY <1>1 DEF GateInv, Gate
<1>3. CASE pc[g] = "read" /\ blk[g] > 0
  <2>1. Gate(0) = <<blk[g], "full">>
    BY <1>2, <1>3, Gates
  <2>2. blk[0] = blk[g] /\ (IF Blocked(0) THEN pc[0] = "full" ELSE pc[0] = "read")
    BY <1>1, <1>3, <2>1, Back
  <2>3. pc[0] \in {"read", "full"}
    BY <2>2
  <2>4. QED
    BY <1>3, <2>2, <2>3 DEF Voted
<1>4. CASE pc[g] = "full"
  <2>1. Gate(0) = <<blk[g], "soft">>
    BY <1>2, <1>4, Gates
  <2>2. blk[0] = blk[g] /\ (IF Blocked(0) THEN pc[0] = "soft" ELSE pc[0] = "full")
    BY <1>1, <2>1, Back
  <2>3. pc[0] \in {"soft", "full"}
    BY <2>2
  <2>4. QED
    BY <1>4, <2>2, <2>3 DEF Voted, After, IsAfter
<1>5. QED
  BY <1>3, <1>4

LEMMA GroupSkips ==
    ASSUME TypeInv, PlaceInv, TurnInv, BarInv, GateInv, DecisionInv, VoteInv, SkipInv,
           NEW g \in Groups, GroupStep(g), NEW label, NEW b, Moves(g, label, b)
    PROVE  SkipInv'
<1>0. /\ UNCHANGED launch /\ Running(g) /\ ~Blocked(g)
      /\ pc'[g] = label /\ blk'[g] = b
  BY StepAt, Runs DEF Moves, Moved
<1>1. /\ UNCHANGED launch /\ decision \in Seq(BOOLEAN) /\ rSkip \in [Groups -> BOOLEAN]
      /\ Len(decision) \in Nat
      /\ blk[g] \in Nat /\ 0 \in Groups /\ Groups' = Groups
      /\ pc'[g] = label /\ blk'[g] = b /\ Running(g) /\ ~Blocked(g)
  <2>1. decision \in Seq(BOOLEAN) /\ rSkip \in [Groups -> BOOLEAN]
    BY DEF TypeInv
  <2>2. blk[g] \in Nat /\ 0 \in Groups /\ Groups' = Groups
    BY <1>0, BlkNat, GroupSet, SameLaunch DEF TypeInv
  <2>3. QED
    BY <1>0, <2>1, <2>2
<1>2. Extends
  BY GroupDecides
<1>3. ASSUME NEW h \in Groups PROVE SkipOK(h)'
  <2>1. SkipOK(h) /\ blk[h] \in Nat
    BY BlkNat DEF SkipInv
  <2>2. CASE h # g
    <3>1. /\ pc'[h] = pc[h] /\ blk'[h] = blk[h] /\ rSkip'[h] = rSkip[h]
          /\ After(h)' = After(h) /\ Behind(h)' = Behind(h)
      BY <1>1, <2>2, OthersAt, OthersWords, OthersTally
    <3>2. Behind(h) => blk[h] > 0
      BY <1>1, <2>1, GroupSet DEF Behind, TypeInv
    <3>3. pc[h] = "full" /\ blk[h] = 0 => ~rSkip'[h]
      BY <2>1, <3>1 DEF SkipOK
    <3>4. After(h) \/ (pc[h] = "full" /\ blk[h] > 0) =>
            blk[h] < Len(decision') /\ rSkip'[h] = decision'[blk[h] + 1]
      BY <1>1, <1>2, <2>1, <3>1 DEF SkipOK, Extends
    <3>5. ASSUME Behind(h) PROVE blk[h] - 1 < Len(decision') /\ rSkip'[h] = decision'[blk[h]]
      <4>1. blk[h] \in 1 .. Len(decision) /\ rSkip[h] = decision[blk[h]]
        BY <1>1, <2>1, <3>2, <3>5 DEF SkipOK
      <4>2. QED
        BY <1>1, <1>2, <2>1, <3>1, <4>1 DEF Extends
    <3>6. QED
      BY <3>1, <3>3, <3>4, <3>5 DEF SkipOK
  <2>3. CASE h = g
    <3>1. /\ After(g)' => \/ After(g) /\ b = blk[g]
                          \/ pc[g] = "full" /\ label = "soft" /\ b = blk[g]
          /\ Behind(g)' => \/ Behind(g) /\ b = blk[g]
                           \/ After(g) /\ b = blk[g] + 1
          /\ label = "full" =>
                b = blk[g] /\ ((b = 0 /\ pc[g] = "vote") \/ (b > 0 /\ pc[g] = "read"))
      BY <1>1, Remembers
    <3>2. Behind(g) => blk[g] > 0
      BY <1>1, GroupSet DEF Behind, TypeInv
    <3>3. After(g) \/ Behind(g) => rSkip' = rSkip
      BY Frames DEF After, IsAfter, Behind
    <3>4. After(g) => blk[g] < Len(decision') /\ rSkip'[g] = decision'[blk[g] + 1]
      BY <1>1, <1>2, <2>1, <2>3, <3>3 DEF SkipOK, Extends
    <3>5. Behind(g) => blk[g] - 1 < Len(decision') /\ rSkip'[g] = decision'[blk[g]]
      BY <1>1, <1>2, <2>1, <2>3, <3>2, <3>3 DEF SkipOK, Extends
    <3>6. CASE pc[g] = "full"
      <4>1. UNCHANGED <<rSkip, decision>>
        BY <3>6, Frames
      <4>2. Len(decision) = blk[g] + 1
        BY <1>1, <3>6, FirstHasVoted DEF DecisionInv
      <4>3. rSkip[g] = decision[blk[g] + 1]
        <5>1. CASE blk[g] = 0
          <6>1. ~rSkip[g] /\ ~decision[1]
            BY <2>1, <2>3, <3>6, <4>2, <5>1 DEF SkipOK, DecisionInv
          <6>2. rSkip[g] \in BOOLEAN /\ decision[1] \in BOOLEAN
            <7>1. 1 \in 1 .. Len(decision)
              BY <4>2, <5>1
            <7>2. QED
              BY <1>1, <7>1
          <6>3. QED
            BY <5>1, <6>1, <6>2
        <5>2. CASE blk[g] > 0
          BY <2>1, <2>3, <3>6, <5>2 DEF SkipOK
        <5>3. QED
          BY <1>1, <5>1, <5>2
      <4>4. label = "soft" /\ b = blk[g]
        BY <3>6 DEF Moves, Finishes
      <4>5. ~Behind(g)'
        BY <1>1, <4>4 DEF Behind
      <4>6. QED
        BY <1>1, <2>3, <4>1, <4>2, <4>3, <4>4, <4>5 DEF SkipOK
    <3>7. CASE pc[g] = "read" /\ label = "full"
      <4>1. b = blk[g] /\ blk[g] > 0 /\ UNCHANGED decision
        BY <3>1, <3>7, Frames
      <4>2. PICK flag \in Flags(sSkip[0]) : rSkip' = [rSkip EXCEPT ![g] = flag]
        BY <3>7, StepAt, Zenon DEF ReadVote
      <4>3. /\ blk[0] = blk[g] /\ Len(decision) = blk[g] + 1
            /\ pc[0] \in {"read", "full"}
        BY <1>1, <3>7, <4>1, FirstHasVoted DEF DecisionInv
      <4>4. sSkip[0] = Vote(decision[blk[g] + 1])
        BY <4>3 DEF VoteInv
      <4>5. rSkip'[g] = decision[blk[g] + 1]
        BY <1>1, <4>2, <4>4, FlagsOf
      <4>6. ~Behind(g)' /\ ~After(g)'
        BY <1>1, <3>7 DEF Behind, After, IsAfter
      <4>7. QED
        BY <1>1, <2>3, <3>7, <4>1, <4>3, <4>5, <4>6 DEF SkipOK
    <3>8. CASE pc[g] = "vote" /\ label = "full"
      <4>1. b = 0 /\ blk[g] = 0
        BY <1>1, <3>1, <3>8
      <4>2. rSkip' = [rSkip EXCEPT ![g] = FALSE]
        BY <3>8, <4>1, SaysFirst
      <4>3. ~rSkip'[g]
        BY <1>1, <4>2
      <4>4. ~Behind(g)' /\ ~After(g)'
        BY <1>1, <3>8 DEF Behind, After, IsAfter
      <4>5. QED
        BY <1>1, <2>3, <3>8, <4>1, <4>3, <4>4 DEF SkipOK
    <3>9. CASE pc[g] # "full" /\ label # "full"
      <4>1. After(g)' => b < Len(decision') /\ rSkip'[g] = decision'[b + 1]
        BY <3>1, <3>4, <3>9
      <4>2. Behind(g)' => b - 1 < Len(decision') /\ rSkip'[g] = decision'[b]
        BY <1>1, <3>1, <3>4, <3>5, <3>9
      <4>3. QED
        BY <1>1, <2>3, <3>9, <4>1, <4>2 DEF SkipOK
    <3>10. QED
      BY <3>1, <3>6, <3>7, <3>8, <3>9
  <2>4. QED
    BY <2>2, <2>3
<1>4. QED
  BY <1>1, <1>3 DEF SkipInv

-----------------------------------------------------------------------------
(* What a group's step does to the counts of its own. *)

LEMMA GroupCounts ==
    ASSUME TypeInv, PlaceInv, CountInv, NEW g \in Groups, GroupStep(g),
           NEW label, NEW b, Moves(g, label, b)
    PROVE  CountInv' /\ kTaken' \in [Groups' -> Nat]
<1>1. UNCHANGED launch /\ Groups' = Groups /\ kTaken \in [Groups -> Nat]
  BY Frames, SameLaunch DEF TypeInv
<1>2. kTaken' = IF pc[g] \in {"qk", "mma"} THEN [kTaken EXCEPT ![g] = @ + 1] ELSE kTaken
  BY Frames
<1>3. ASSUME NEW h \in Groups PROVE kTaken'[h] = Scored(h)'
  <2>1. kTaken[h] = Scored(h)
    BY DEF CountInv
  <2>2. CASE h = g
    <3>1. Scored(g)' = Scored(g) + (IF pc[g] \in {"qk", "mma"} THEN 1 ELSE 0)
      BY <1>1, Tallies
    <3>2. QED
      BY <1>1, <1>2, <2>1, <2>2, <3>1
  <2>3. CASE h # g
    <3>1. Scored(h)' = Scored(h)
      BY <1>1, <2>3, OthersAt, OthersTally
    <3>2. QED
      BY <1>1, <1>2, <2>1, <2>3, <3>1
  <2>4. QED
    BY <2>2, <2>3
<1>4. QED
  BY <1>1, <1>2, <1>3 DEF CountInv

(* The block that is multiplied with, and its outcome. *)
LEMMA NowMultiplied ==
    ASSUME TypeInv, PlaceInv, SkipInv, DecisionInv, NEW g \in Groups,
           pc[g] = "pvrest" \/ Finishes(g)
    PROVE  /\ PVBlock(g) = Multiplied(g) /\ Multiplied(g) \in 0 .. NumBlocks - 1
           /\ Multiplied(g) < Len(decision) /\ rSkip[g] = decision[Multiplied(g) + 1]
<1>1. /\ blk[g] \in 0 .. NumBlocks - 1 /\ blk[g] \in Nat /\ NumBlocks \in Nat
      /\ PlaceOK(g) /\ SkipOK(g) /\ 0 \in Starts
  BY BlkNat, GroupSet DEF PlaceInv, SkipInv, TypeInv
<1>2. CASE pc[g] = "pvrest"
  <2>1. Overlap /\ Behind(g) /\ blk[g] > 0
    BY <1>1, <1>2 DEF PlaceOK, Behind
  <2>2. PVBlock(g) = blk[g] - 1 /\ Multiplied(g) = blk[g] - 1
    BY <1>1, <1>2, <2>1 DEF PVBlock, Ahead, Multiplied, Released
  <2>3. blk[g] - 1 < Len(decision) /\ rSkip[g] = decision[blk[g]]
    BY <1>1, <2>1 DEF SkipOK
  <2>4. blk[g] - 1 \in 0 .. NumBlocks - 1 /\ (blk[g] - 1) + 1 = blk[g]
    BY <1>1, <2>1
  <2>5. QED
    BY <2>2, <2>3, <2>4
<1>3. CASE Finishes(g)
  <2>1. After(g) /\ ~Behind(g) /\ ~Ahead(g)
    BY <1>3 DEF Finishes, After, IsAfter, Behind, Ahead, Overlap
  <2>2. PVBlock(g) = blk[g] /\ Multiplied(g) = blk[g]
    BY <1>1, <1>3, <2>1 DEF PVBlock, Multiplied, Released, Finishes
  <2>3. QED
    BY <1>1, <2>1, <2>2 DEF SkipOK
<1>4. QED
  BY <1>2, <1>3

(* Nobody has multiplied with a block that is not decided. *)
LEMMA Enough ==
    ASSUME TypeInv, VFullInv, VEmptyInv, ProducerInv, NEW h \in Groups
    PROVE  /\ Multiplied(h) \in Nat /\ Multiplied(h) <= Waited(h)
           /\ Waited(h) <= vfull.phase /\ vfull.phase \in Nat /\ vfull.phase <= Len(decision)
           /\ Len(decision) \in Nat /\ Multiplied(h) <= Len(decision)
<1>1. /\ blk[h] \in Nat /\ vq \in Nat /\ Len(decision) \in Nat /\ 0 \in Starts
  BY BlkNat, GroupSet DEF TypeInv
<1>2. Behind(h) => blk[h] > 0
  BY <1>1 DEF Behind
<1>3. Released(h) \in Nat
  BY <1>1, <1>2 DEF Released
<1>4. Multiplied(h) \in Nat /\ Waited(h) \in Nat /\ Multiplied(h) <= Waited(h)
  BY <1>3 DEF Multiplied, Waited
<1>5. vfull.phase \in Nat /\ vfull.phase <= vq + (IF ppc = "load" THEN 1 ELSE 0)
  BY <1>1 DEF VFullInv
<1>6. Waited(h) <= vfull.phase
  BY DEF VEmptyInv
<1>7. vq + (IF ppc = "load" THEN 1 ELSE 0) <= Len(decision)
  BY <1>1 DEF ProducerInv
<1>8. QED
  BY <1>1, <1>4, <1>5, <1>6, <1>7

LEMMA Accumulates ==
    ASSUME TypeInv, NEW g \in Groups, GroupStep(g), pc[g] = "pvrest" \/ Finishes(g)
    PROVE  Accumulate(g) /\ UNCHANGED <<decision, rSkip, ver>>
<1>1. CASE pc[g] = "pvrest"
  BY <1>1, StepAt DEF FinishMma
<1>2. CASE Finishes(g)
  <2>1. FinishPV(g)
    BY <1>2, StepAt
  <2>2. QED
    BY <2>1 DEF FinishPV
<1>3. QED
  BY <1>1, <1>2

LEMMA GroupAccs ==
    ASSUME TypeInv, PlaceInv, BarInv, GateInv, DecisionInv, VoteInv, SkipInv, AccInv,
           VFullInv, VEmptyInv, ProducerInv,
           NEW g \in Groups, GroupStep(g), NEW label, NEW b, Moves(g, label, b)
    PROVE  AccInv' /\ acc' \in [Groups' -> SUBSET Blocks']
<1>1. /\ UNCHANGED launch /\ Groups' = Groups /\ Blocks' = Blocks
      /\ acc \in [Groups -> SUBSET Blocks] /\ Len(decision) \in Nat
      /\ Blocks = 0 .. NumBlocks - 1
  <2>1. UNCHANGED launch
    BY Frames
  <2>2. acc \in [Groups -> SUBSET Blocks] /\ Len(decision) \in Nat /\ launch \in Launches
    BY DEF TypeInv
  <2>3. QED
    BY <2>1, <2>2, SameLaunch, GroupSet
<1>2. Extends
  BY GroupDecides
<1>3. \A h \in Groups : acc[h] = {c \in 0 .. Multiplied(h) - 1 : ~decision[c + 1]}
  BY DEF AccInv
<1>4. ASSUME NEW h \in Groups, acc'[h] = acc[h], Multiplied(h)' = Multiplied(h)
      PROVE  acc'[h] = {c \in 0 .. Multiplied(h)' - 1 : ~decision'[c + 1]}
  <2>1. Multiplied(h) \in Nat /\ Multiplied(h) <= Len(decision)
    BY <1>1, Enough
  <2>2. \A c \in 0 .. Multiplied(h) - 1 : decision'[c + 1] = decision[c + 1]
    BY <1>1, <1>2, <2>1 DEF Extends
  <2>3. QED
    BY <1>3, <1>4, <2>2
<1>5. CASE pc[g] = "pvrest" \/ Finishes(g)
  <2>1. /\ Accumulate(g) /\ decision' = decision
    BY <1>5, Accumulates
  <2>2. /\ PVBlock(g) = Multiplied(g) /\ Multiplied(g) \in 0 .. NumBlocks - 1
        /\ rSkip[g] = decision[Multiplied(g) + 1]
    BY <1>5, NowMultiplied
  <2>3. Multiplied(g)' = Multiplied(g) + 1
    BY <1>1, <1>5, <2>2, Tallies
  <2>4. acc' = IF rSkip[g] THEN acc ELSE [acc EXCEPT ![g] = @ \union {Multiplied(g)}]
    BY <2>1, <2>2 DEF Accumulate
  <2>5. acc' \in [Groups' -> SUBSET Blocks']
    BY <1>1, <2>2, <2>4
  <2>6. acc'[g] = {c \in 0 .. Multiplied(g)' - 1 : ~decision'[c + 1]}
    <3>1. acc'[g] = IF rSkip[g] THEN acc[g] ELSE acc[g] \union {Multiplied(g)}
      BY <1>1, <2>4
    <3>2. 0 .. Multiplied(g)' - 1 = (0 .. Multiplied(g) - 1) \union {Multiplied(g)}
      BY <2>2, <2>3
    <3>3. QED
      BY <1>3, <2>1, <2>2, <3>1, <3>2
  <2>7. ASSUME NEW h \in Groups \ {g}
        PROVE  acc'[h] = {c \in 0 .. Multiplied(h)' - 1 : ~decision'[c + 1]}
    <3>1. acc'[h] = acc[h]
      BY <1>1, <2>4
    <3>2. Multiplied(h)' = Multiplied(h)
      BY <1>1, OthersAt, OthersTally
    <3>3. QED
      BY <1>4, <3>1, <3>2
  <2>8. QED
    BY <1>1, <2>5, <2>6, <2>7 DEF AccInv
<1>6. CASE ~(pc[g] = "pvrest" \/ Finishes(g))
  <2>1. acc' = acc
    BY <1>6, Frames
  <2>2. ASSUME NEW h \in Groups PROVE Multiplied(h)' = Multiplied(h)
    <3>1. CASE h = g
      <4>1. Multiplied(g)' = Multiplied(g) + 0
        BY <1>1, <1>6, Tallies
      <4>2. Multiplied(g) \in Nat
        BY Enough
      <4>3. QED
        BY <3>1, <4>1, <4>2
    <3>2. CASE h # g
      BY <1>1, <3>2, OthersAt, OthersTally
    <3>3. QED
      BY <3>1, <3>2
  <2>3. QED
    BY <1>1, <1>4, <2>1, <2>2 DEF AccInv
<1>7. QED
  BY <1>5, <1>6

(* A group's step keeps what it knows of the row maximum and of acc_O. *)
LEMMA ScaleStep ==
    ASSUME TypeInv, PlaceInv, ScaleInv, NEW g \in Groups, GroupStep(g),
           NEW label, NEW b, Moves(g, label, b)
    PROVE  /\ ver'[g] \in Nat /\ over'[g] \in Nat
           /\ ver'[g] = over'[g] + (IF Lagging(g)' THEN 1 ELSE 0)
           /\ ver'[g] <= Softened(g)'
<1>1. /\ UNCHANGED launch /\ blk[g] \in Nat /\ 0 \in Starts /\ PlaceOK(g)
      /\ ver \in [Groups -> Nat] /\ over \in [Groups -> Nat] /\ pc[g] \in Labels
      /\ launch.wide \in BOOLEAN /\ Overlap \in BOOLEAN /\ rSkip[g] \in BOOLEAN
  BY Frames, BlkNat, GroupSet DEF TypeInv, PlaceInv
<1>2. /\ pc'[g] = label /\ blk'[g] = b /\ Starts' = Starts /\ Overlap' = Overlap
      /\ launch'.wide = launch.wide
  BY <1>1, SameLaunch DEF Moves, Moved
<1>3. /\ ver[g] = over[g] + (IF Lagging(g) THEN 1 ELSE 0)
      /\ ver[g] <= Softened(g)
  BY DEF ScaleInv
<1>4. Softened(g)' = Softened(g) + (IF pc[g] = "soft" THEN 1 ELSE 0) /\ Softened(g) \in Nat
  BY <1>1, Tallies DEF Softened
<1>5. Lagging(g)' <=>
        /\ Overlap /\ ~rSkip'[g]
        /\ IF launch.wide
           THEN \/ label = "lastv"
                \/ Overlap /\ b \notin Starts /\ label \in {"k", "sched"}
           ELSE \/ label \in {"lastv", "lastpv"} /\ b = 0
                \/ /\ Overlap /\ b \notin Starts /\ b = 1
                   /\ label \in {"k", "sched", "v", "pv", "mma", "pvrest"}
  BY <1>2 DEF Lagging, Behind
<1>6. Lagging(g) <=>
        /\ Overlap /\ ~rSkip[g]
        /\ IF launch.wide
           THEN \/ pc[g] = "lastv"
                \/ Overlap /\ blk[g] \notin Starts /\ pc[g] \in {"k", "sched"}
           ELSE \/ pc[g] \in {"lastv", "lastpv"} /\ blk[g] = 0
                \/ /\ Overlap /\ blk[g] \notin Starts /\ blk[g] = 1
                   /\ pc[g] \in {"k", "sched", "v", "pv", "mma", "pvrest"}
  BY DEF Lagging, Behind
<1>7. CASE pc[g] \in {"turn", "k", "qk", "mma", "v", "vrel", "yield", "full"}
                    \/ (pc[g] = "pv" /\ Overlap)
  <2>1. ver' = ver /\ over' = over /\ rSkip' = rSkip
    BY <1>7, Frames DEF Finishes
  <2>2. Lagging(g)' <=> Lagging(g)
    BY <1>1, <1>5, <1>6, <1>7, <2>1 DEF Moves, Finishes, PlaceOK
  <2>3. QED
    BY <1>1, <1>3, <1>4, <1>7, <2>1, <2>2
<1>8. CASE pc[g] \in {"vote", "reduce", "read"}
  <2>1. ver' = ver /\ over' = over
    BY <1>8, Frames DEF Finishes
  <2>2. ~Lagging(g)' /\ ~Lagging(g)
    BY <1>5, <1>6, <1>8 DEF Moves, Finishes
  <2>3. QED
    BY <1>1, <1>3, <1>4, <1>8, <2>1, <2>2
<1>9. CASE pc[g] \in {"sched", "lastv"}
  <2>1. /\ over' = IF RescaleBefore /\ ~rSkip[g] THEN [over EXCEPT ![g] = @ + 1] ELSE over
        /\ ver' = ver /\ rSkip' = rSkip
    <3>1. CASE pc[g] = "sched"
      BY <3>1, StepAt DEF TakeTurn
    <3>2. CASE pc[g] = "lastv"
      BY <3>2, StepAt DEF WaitLastV
    <3>3. QED
      BY <1>9, <3>1, <3>2
  <2>2. over'[g] = over[g] + (IF RescaleBefore /\ ~rSkip[g] THEN 1 ELSE 0)
    BY <1>1, <2>1
  <2>3. CASE RescaleBefore /\ ~rSkip[g]
    <3>1. Lagging(g) /\ ~Lagging(g)'
      BY <1>1, <1>5, <1>6, <1>9, <2>1, <2>3 DEF RescaleBefore, Moves, Finishes, PlaceOK
    <3>2. QED
      BY <1>1, <1>3, <1>4, <1>9, <2>1, <2>2, <2>3, <3>1
  <2>4. CASE ~(RescaleBefore /\ ~rSkip[g])
    <3>1. Lagging(g)' <=> Lagging(g)
      BY <1>1, <1>5, <1>6, <1>9, <2>1, <2>4 DEF RescaleBefore, Moves, Finishes, PlaceOK
    <3>2. QED
      BY <1>1, <1>3, <1>4, <1>9, <2>1, <2>2, <2>4, <3>1
  <2>5. QED
    BY <2>3, <2>4
<1>10. CASE pc[g] = "soft"
  <2>1. /\ ver' = IF rSkip[g] THEN ver ELSE [ver EXCEPT ![g] = @ + 1]
        /\ over' = IF rSkip[g] \/ RescaleBefore \/ (Overlap /\ blk[g] = 0) THEN over
                   ELSE [over EXCEPT ![g] = @ + 1]
        /\ rSkip' = rSkip
    BY <1>10, StepAt DEF OnlineSoftmax
  <2>2. ~Lagging(g)
    BY <1>6, <1>10
  <2>3. Lagging(g)' <=> ~rSkip[g] /\ (RescaleBefore \/ (Overlap /\ blk[g] = 0))
    BY <1>1, <1>5, <1>10, <2>1 DEF RescaleBefore, Moves, Finishes, PlaceOK
  <2>4. /\ ver'[g] = ver[g] + (IF rSkip[g] THEN 0 ELSE 1)
        /\ over'[g] = over[g] +
              (IF rSkip[g] \/ RescaleBefore \/ (Overlap /\ blk[g] = 0) THEN 0 ELSE 1)
    BY <1>1, <2>1
  <2>5. QED
    BY <1>1, <1>3, <1>4, <1>10, <2>2, <2>3, <2>4
<1>11. CASE pc[g] = "pvrest" \/ Finishes(g)
  <2>1. Accumulate(g) /\ ver' = ver /\ rSkip' = rSkip
    BY <1>11, Accumulates
  <2>2. over'[g] = IF ~rSkip[g] /\ PVBlock(g) = 0 THEN ver[g] ELSE over[g]
    BY <1>1, <2>1 DEF Accumulate
  <2>3. ~Lagging(g)'
    BY <1>1, <1>5, <1>11, <2>1 DEF Moves, Finishes, PlaceOK
  <2>4. Lagging(g) => ~rSkip[g] /\ PVBlock(g) = 0
    BY <1>1, <1>6, <1>11 DEF PVBlock, Ahead, Finishes, PlaceOK
  <2>5. pc[g] # "soft"
    BY <1>11 DEF Finishes
  <2>6. QED
    BY <1>1, <1>3, <1>4, <2>1, <2>2, <2>3, <2>4, <2>5
<1>12. QED
  BY <1>1, <1>7, <1>8, <1>9, <1>10, <1>11, StepAt DEF Labels, Finishes

(* The scales of another group stay. *)
LEMMA OthersScales ==
    ASSUME TypeInv, NEW g \in Groups, GroupStep(g), NEW h \in Groups \ {g}
    PROVE  ver'[h] = ver[h] /\ over'[h] = over[h]
<1>1. ver \in [Groups -> Nat] /\ over \in [Groups -> Nat]
  BY DEF TypeInv
<1>2. CASE pc[g] \in {"sched", "lastv"}
  BY <1>1, <1>2, StepAt DEF TakeTurn, WaitLastV
<1>3. CASE pc[g] = "soft"
  BY <1>1, <1>3, StepAt DEF OnlineSoftmax
<1>4. CASE pc[g] = "pvrest" \/ Finishes(g)
  <2>1. Accumulate(g) /\ ver' = ver
    BY <1>4, Accumulates
  <2>2. QED
    BY <1>1, <2>1 DEF Accumulate
<1>5. QED
  BY <1>2, <1>3, <1>4, Frames

LEMMA GroupScales ==
    ASSUME TypeInv, PlaceInv, ScaleInv, NEW g \in Groups, GroupStep(g),
           NEW label, NEW b, Moves(g, label, b)
    PROVE  ScaleInv'
<1>1. UNCHANGED launch /\ Groups' = Groups
  BY Frames, SameLaunch
<1>2. ASSUME NEW h \in Groups
      PROVE  /\ ver'[h] = over'[h] + (IF Lagging(h)' THEN 1 ELSE 0)
             /\ ver'[h] <= Softened(h)'
  <2>1. CASE h = g
    BY <2>1, ScaleStep
  <2>2. CASE h # g
    <3>1. /\ pc'[h] = pc[h] /\ blk'[h] = blk[h] /\ rSkip'[h] = rSkip[h]
          /\ ver'[h] = ver[h] /\ over'[h] = over[h]
          /\ Softened(h)' = Softened(h) /\ Behind(h)' = Behind(h)
      BY <1>1, <2>2, OthersAt, OthersWords, OthersTally, OthersScales
    <3>2. Lagging(h)' <=> Lagging(h)
      BY <1>1, <3>1, SameLaunch DEF Lagging
    <3>3. QED
      BY <3>1, <3>2 DEF ScaleInv
  <2>3. QED
    BY <2>1, <2>2
<1>3. QED
  BY <1>1, <1>2 DEF ScaleInv

-----------------------------------------------------------------------------
(* What a group's step does to the pipeline of V. *)

LEMMA VPhase ==
    ASSUME TypeInv, VFullInv
    PROVE  /\ vfull.phase \in Nat /\ vfull.phase \in {vq - 1, vq, vq + 1}
           /\ ppc = "load" => \/ vfull.phase = vq /\ ~pskip
                              \/ vfull.phase = vq + 1 /\ pskip
           /\ ppc = "done" => vfull.phase = vq
           /\ ppc \notin {"load", "done"} => \/ vfull.phase = vq /\ vflight = {}
                                             \/ /\ vfull.phase = vq - 1 /\ vq > 0
                                                /\ ~decision[vq] /\ vflight = {vq - 1}
<1>1. vq \in Nat
  BY GroupSet DEF TypeInv
<1>2. CASE /\ vfull = [phase |-> vq + (IF ppc = "load" THEN 1 ELSE 0), pending |-> 1, tx |-> 0]
           /\ vflight = {} /\ ppc # "done"
           /\ ppc = "load" => pskip
  BY <1>1, <1>2
<1>3. CASE /\ ppc = "load" /\ ~pskip
           /\ vfull = [phase |-> vq, pending |-> 0, tx |-> 1] /\ vflight = {}
  BY <1>1, <1>3
<1>4. CASE /\ ppc \notin {"load", "done"} /\ vq > 0 /\ ~decision[vq]
           /\ vfull = [phase |-> vq - 1, pending |-> 0, tx |-> 1] /\ vflight = {vq - 1}
  BY <1>1, <1>4
<1>5. CASE /\ ppc = "done"
           /\ vfull = [phase |-> vq, pending |-> 0, tx |-> 1] /\ vflight = {}
  BY <1>1, <1>5
<1>6. QED
  BY <1>2, <1>3, <1>4, <1>5 DEF VFullInv

(* V is never more than one block ahead of the groups. *)
LEMMA VAhead ==
    ASSUME TypeInv, VFullInv, VEmptyInv
    PROVE  /\ vfull.phase \in Nat /\ vempty.phase \in Nat /\ vfull.phase <= vempty.phase + 1
           /\ vq \in Nat
<1>1. /\ vq \in Nat /\ vempty.phase \in Nat
      /\ vq <= vempty.phase + (IF ppc = "load" THEN 0 ELSE 1)
  BY GroupSet DEF TypeInv, VEmptyInv
<1>2. QED
  BY <1>1, VPhase

LEMMA Parity ==
    ASSUME NEW t \in Nat
    PROVE  (t % 2) % 2 = t % 2 /\ (t + 1) % 2 # t % 2
OBVIOUS

LEMMA Progress ==
    ASSUME TypeInv, NEW h \in Groups
    PROVE  /\ Released(h) \in Nat /\ Waited(h) \in Nat
           /\ Released(h) <= Waited(h) /\ Waited(h) <= Released(h) + 1
<1>1. blk[h] \in Nat /\ 0 \in Starts
  BY BlkNat, GroupSet DEF TypeInv
<1>2. Behind(h) => blk[h] > 0
  BY <1>1 DEF Behind
<1>3. Released(h) \in Nat
  BY <1>1, <1>2 DEF Released
<1>4. QED
  BY <1>3 DEF Waited

(* A group that waits for V, waits for the one after those it released. *)
LEMMA WaitsV ==
    ASSUME TypeInv, PlaceInv, VFullInv, VEmptyInv, NEW g \in Groups, GroupStep(g),
           pc[g] \in {"v", "lastv"}
    PROVE  vfull.phase = Waited(g) + 1
<1>1. /\ blk[g] \in Nat /\ PlaceOK(g) /\ Overlap \in BOOLEAN
      /\ vfull.phase \in Nat /\ vempty.phase \in Nat /\ vfull.phase <= vempty.phase + 1
      /\ Released(g) \in {vempty.phase, vempty.phase + 1} /\ Waited(g) <= vfull.phase
  BY BlkNat, GroupSet, VAhead DEF TypeInv, PlaceInv, VEmptyInv
<1>2. Released(g) \in Nat /\ Waited(g) = Released(g)
  <2>1. Released(g) \in Nat
    BY Progress
  <2>2. QED
    BY <1>1, <2>1 DEF Waited
<1>3. Passed(vfull, Waited(g) % 2)
  <2>1. CASE pc[g] = "v"
    <3>1. Passed(vfull, ConsumerPhase(PVBlock(g)))
      BY <2>1, StepAt DEF WaitV
    <3>2. PVBlock(g) = Released(g)
      BY <1>1, <2>1 DEF PVBlock, Ahead, Released, Behind, PlaceOK
    <3>3. QED
      BY <1>2, <3>1, <3>2 DEF ConsumerPhase
  <2>2. CASE pc[g] = "lastv"
    <3>1. Passed(vfull, ConsumerPhase(blk[g]))
      BY <2>2, StepAt DEF WaitLastV
    <3>2. blk[g] = Released(g)
      BY <1>1, <2>2 DEF Released, Behind
    <3>3. QED
      BY <1>2, <3>1, <3>2 DEF ConsumerPhase
  <2>3. QED
    BY <2>1, <2>2
<1>4. vfull.phase # Waited(g)
  <2>1. vfull.phase % 2 # (Waited(g) % 2) % 2
    BY <1>3 DEF Passed
  <2>2. QED
    BY <1>2, <2>1, Parity
<1>5. QED
  BY <1>1, <1>2, <1>4

LEMMA GroupVFull ==
    ASSUME TypeInv, ProducerInv, VFullInv, Extends,
           UNCHANGED <<vq, ppc, pskip, vfull, vflight>>
    PROVE  VFullInv'
<1>1. vq \in Nat /\ vq <= Len(decision) /\ Len(decision) \in Nat
  BY GroupSet DEF TypeInv, ProducerInv
<1>2. vq > 0 => decision'[vq] = decision[vq]
  BY <1>1 DEF Extends
<1>3. QED
  BY <1>1, <1>2 DEF VFullInv

LEMMA GroupProducer ==
    ASSUME TypeInv, ProducerInv, Extends, UNCHANGED <<launch, vq, ppc, pskip>>,
           sSkip'[Producer] = sSkip[Producer]
    PROVE  ProducerInv'
<1>1. vq \in Nat /\ vq <= Len(decision) /\ Len(decision) \in Nat
  BY GroupSet DEF TypeInv, ProducerInv
<1>2. vq < Len(decision) => decision'[vq + 1] = decision[vq + 1]
  BY <1>1 DEF Extends
<1>3. NumBlocks' = NumBlocks /\ Producer' = Producer
  BY SameLaunch
<1>4. vq <= Len(decision') /\ (vq < Len(decision) => vq < Len(decision'))
  BY <1>1 DEF Extends
<1>5. QED
  BY <1>1, <1>2, <1>3, <1>4 DEF ProducerInv

(* No group writes the word of the producer. *)
LEMMA ProducersWord ==
    ASSUME TypeInv, BarInv, GateInv, VoteInv, NEW g \in Groups, GroupStep(g)
    PROVE  /\ sSkip'[Producer] = sSkip[Producer] /\ sSkip' \in [Words' -> WordSet']
           /\ vote' \in [Groups' -> BOOLEAN]
<1>1. /\ 0 \in Groups /\ Groups \subseteq Words /\ Producer \in Words /\ Producer \notin Groups
      /\ sSkip \in [Words -> WordSet] /\ blk[g] \in Nat /\ vote \in [Groups -> BOOLEAN]
      /\ Words' = Words /\ WordSet' = WordSet /\ Groups' = Groups
  <2>1. launch \in Launches /\ sSkip \in [Words -> WordSet] /\ vote \in [Groups -> BOOLEAN]
    BY DEF TypeInv
  <2>2. UNCHANGED launch
    BY Frames
  <2>3. QED
    BY <2>1, <2>2, GroupSet, BlkNat, SameLaunch
<1>2. \A f \in BOOLEAN : Vote(f) \in WordSet
  BY DEF WordSet
<1>3. CASE pc[g] = "vote" /\ blk[g] = 0
  <2>1. /\ sSkip' = (IF g = 0 THEN [sSkip EXCEPT ![0] = Vote(FALSE)] ELSE sSkip)
        /\ UNCHANGED vote
    BY <1>3, SaysFirst
  <2>2. Vote(FALSE) \in WordSet
    BY <1>2
  <2>3. QED
    BY <1>1, <2>1, <2>2
<1>4. CASE pc[g] = "vote" /\ blk[g] > 0
  <2>1. PICK flag \in BOOLEAN : /\ vote' = [vote EXCEPT ![g] = flag]
                                /\ sSkip' = [sSkip EXCEPT ![g] = Vote(flag)]
    BY <1>4, Casts
  <2>2. Vote(flag) \in WordSet
    BY <1>2
  <2>3. QED
    BY <1>1, <2>1, <2>2
<1>5. CASE pc[g] = "reduce" /\ g = 0
  <2>1. PICK x \in BOOLEAN : sSkip' = [sSkip EXCEPT ![0] = Vote(x)] /\ UNCHANGED vote
    BY <1>5, Reduces
  <2>2. Vote(x) \in WordSet
    BY <1>2
  <2>3. QED
    BY <1>1, <2>1, <2>2
<1>6. CASE pc[g] # "vote" /\ (pc[g] = "reduce" => g # 0)
  BY <1>1, <1>6, JustWatches
<1>7. QED
  BY <1>1, <1>3, <1>4, <1>5, <1>6

LEMMA GroupVEmpty ==
    ASSUME TypeInv, PlaceInv, VFullInv, VEmptyInv,
           NEW g \in Groups, GroupStep(g), NEW label, NEW b, Moves(g, label, b)
    PROVE  VEmptyInv'
<1>1. /\ UNCHANGED <<launch, vq, ppc, vfull>> /\ Groups' = Groups /\ NumGroups' = NumGroups
      /\ NumGroups \in Nat \ {0} /\ IsFiniteSet(Groups) /\ Cardinality(Groups) = NumGroups
  <2>1. UNCHANGED <<launch, vq, ppc, vfull>>
    BY Frames
  <2>2. QED
    BY <2>1, SameLaunch, GroupSet DEF TypeInv
<1>2. vfull.phase \in Nat /\ vfull.phase <= vempty.phase + 1 /\ vq \in Nat
  BY VAhead
<1>3. /\ \A h \in Groups : /\ Released(h) \in {vempty.phase, vempty.phase + 1}
                           /\ Waited(h) <= vfull.phase
      /\ vempty = [phase |-> vempty.phase, pending |-> vempty.pending, tx |-> 0]
      /\ vempty.phase \in Nat /\ vempty.pending \in 1 .. NumGroups
      /\ vempty.pending =
            NumGroups - Cardinality({h \in Groups : Released(h) = vempty.phase + 1})
      /\ vq <= vempty.phase + (IF ppc = "load" THEN 0 ELSE 1)
  BY DEF VEmptyInv
<1>4. \A h \in Groups \ {g} : Released(h)' = Released(h) /\ Waited(h)' = Waited(h)
  BY <1>1, OthersAt, OthersTally
<1>5. Released(g) \in Nat /\ Waited(g) \in Nat
  BY Progress
<1>6. Waited(g)' <= vfull.phase
  <2>1. Waited(g)' = Waited(g) + (IF pc[g] \in {"v", "lastv"} THEN 1 ELSE 0)
    BY <1>1, Tallies
  <2>2. pc[g] \in {"v", "lastv"} => vfull.phase = Waited(g) + 1
    BY WaitsV
  <2>3. QED
    BY <1>2, <1>3, <1>5, <2>1, <2>2
<1>7. \A h \in Groups : Waited(h)' <= vfull.phase
  BY <1>3, <1>4, <1>6
<1>8. CASE pc[g] = "vrel" \/ Finishes(g)
  <2>1. Released(g)' = Released(g) + 1
    BY <1>1, <1>8, Tallies
  <2>2. vempty' = Arrive(vempty, NumGroups)
    BY <1>8, Frames
  <2>3. Released(g) = vempty.phase
    <3>1. Waited(g) = Released(g) + 1
      BY <1>5, <1>8 DEF Waited, Finishes
    <3>2. QED
      BY <1>2, <1>3, <1>5, <3>1
  <2> DEFINE n == vempty.phase
             R == {h \in Groups : Released(h) = n + 1}
  <2>4. n \in Nat /\ g \notin R /\ R \subseteq Groups
    BY <1>3, <2>3
  <2>5. /\ Cardinality(R) \in Nat /\ Cardinality(R \union {g}) = Cardinality(R) + 1
        /\ Cardinality(R) + 1 <= NumGroups
        /\ Cardinality(R) + 1 = NumGroups => R \union {g} = Groups
    BY <1>1, <2>4, Crowd
  <2>6. vempty.pending = NumGroups - Cardinality(R) /\ vempty.tx = 0
    BY <1>3
  <2>7. \A h \in Groups : Released(h)' = n + 1 <=> h \in R \union {g}
    BY <1>4, <2>1, <2>3
  <2>8. \A h \in Groups : Released(h)' \in {n, n + 1}
    BY <1>3, <1>4, <2>1, <2>3
  <2> HIDE DEF R
  <2>9. CASE Cardinality(R) + 1 = NumGroups
    <3>1. vempty' = [phase |-> n + 1, pending |-> NumGroups, tx |-> 0]
      <4>1. vempty.pending - 1 = 0
        BY <1>1, <2>5, <2>6, <2>9
      <4>2. QED
        BY <2>2, <2>6, <4>1 DEF Arrive, Settle
    <3>2. \A h \in Groups : Released(h)' = n + 1
      BY <2>5, <2>7, <2>9
    <3>3. {h \in Groups : Released(h)' = n + 1 + 1} = {}
      BY <2>4, <3>2
    <3>4. Cardinality({}) = 0
      BY FS_EmptySet
    <3>5. vempty'.phase = n + 1 /\ vempty'.pending = NumGroups
      BY <3>1
    <3>6. vempty'.pending =
             NumGroups' - Cardinality({h \in Groups' : Released(h)' = vempty'.phase + 1})
      BY <1>1, <3>3, <3>4, <3>5
    <3>7. \A h \in Groups : Released(h)' \in {vempty'.phase, vempty'.phase + 1}
      BY <3>2, <3>5
    <3>8. vq <= vempty'.phase + (IF ppc = "load" THEN 0 ELSE 1)
      BY <1>2, <1>3, <2>4, <3>5
    <3>9. vempty' = [phase |-> vempty'.phase, pending |-> vempty'.pending, tx |-> 0]
      BY <3>1
    <3>10. vempty'.phase \in Nat /\ vempty'.pending \in 1 .. NumGroups
      BY <1>1, <2>4, <3>5
    <3>11. QED
      BY <1>1, <1>7, <3>6, <3>7, <3>8, <3>9, <3>10 DEF VEmptyInv
  <2>10. CASE Cardinality(R) + 1 # NumGroups
    <3>1. vempty' = [phase |-> n, pending |-> vempty.pending - 1, tx |-> 0]
      <4>1. vempty.pending - 1 # 0
        BY <1>1, <2>5, <2>6, <2>10
      <4>2. QED
        BY <2>2, <2>6, <4>1 DEF Arrive, Settle
    <3>2. vempty'.phase = n /\ vempty'.pending = vempty.pending - 1
      BY <3>1
    <3>3. {h \in Groups : Released(h)' = n + 1} = R \union {g}
      BY <2>4, <2>7
    <3>4. vempty'.pending =
             NumGroups' - Cardinality({h \in Groups' : Released(h)' = vempty'.phase + 1})
      <4>1. {h \in Groups' : Released(h)' = vempty'.phase + 1} = R \union {g}
        BY <1>1, <3>2, <3>3
      <4>2. vempty.pending - 1 = NumGroups - Cardinality(R \union {g})
        BY <1>1, <2>5, <2>6
      <4>3. QED
        BY <1>1, <3>2, <4>1, <4>2
    <3>5. vempty' = [phase |-> vempty'.phase, pending |-> vempty'.pending, tx |-> 0]
      BY <3>1
    <3>6. vempty'.phase \in Nat /\ vempty'.pending \in 1 .. NumGroups
      BY <1>1, <2>4, <2>5, <2>6, <2>10, <3>2
    <3>7. QED
      BY <1>1, <1>3, <1>7, <2>8, <3>2, <3>4, <3>5, <3>6 DEF VEmptyInv
  <2>11. QED
    BY <2>9, <2>10
<1>9. CASE ~(pc[g] = "vrel" \/ Finishes(g))
  <2>1. vempty' = vempty /\ Released(g)' = Released(g) + 0
    BY <1>1, <1>9, Frames, Tallies
  <2>2. \A h \in Groups : Released(h)' = Released(h)
    BY <1>4, <1>5, <2>1
  <2>3. {h \in Groups : Released(h)' = vempty.phase + 1} = {h \in Groups : Released(h) = vempty.phase + 1}
    BY <2>2
  <2>4. QED
    BY <1>1, <1>3, <1>7, <2>1, <2>2, <2>3 DEF VEmptyInv
<1>10. QED
  BY <1>8, <1>9

-----------------------------------------------------------------------------
(* A group's step keeps V, and the types. *)

(* Where the producer is when the groups meet it behind its look at a vote. *)
LEMMA ProducerAt ==
    ASSUME TypeInv, BarInv, NEW t \in Nat, NEW l, ProducerGate = <<t, l>>
    PROVE  /\ l = "soft" => vq = t /\ (IF Blocked(Producer) THEN ppc = "empty" ELSE ppc = "full")
           /\ l # "soft" => /\ l = "full"
                            /\ \/ vq = t /\ ppc \in {"next", "full", "done"}
                               \/ vq + 1 = t /\ ppc \in {"empty", "load"} /\ ~Blocked(Producer)
<1>1. vq \in Nat /\ ppc \in {"next", "full", "empty", "load", "done"}
  BY GroupSet DEF TypeInv
<1>2. CASE Blocked(Producer)
  <2>1. ppc \in {"full", "empty"}
    BY <1>2, WhoIsBlocked, GroupSet DEF Blocked, TypeInv
  <2>2. <<vq, IF ppc = "full" THEN "full" ELSE "soft">> = <<t, l>>
    BY <1>2 DEF ProducerGate
  <2>3. QED
    BY <1>1, <1>2, <2>1, <2>2
<1>3. CASE ~Blocked(Producer)
  <2>1. NextProducerGate(ppc, vq) = <<t, l>>
    BY <1>3 DEF ProducerGate
  <2>2. QED
    BY <1>1, <1>3, <2>1 DEF NextProducerGate
<1>4. QED
  BY <1>2, <1>3

LEMMA GroupIntact ==
    ASSUME TypeInv, PlaceInv, TurnInv, BarInv, GateInv, DecisionInv, VoteInv, ProducerInv,
           VFullInv, VEmptyInv, IntactInv,
           NEW g \in Groups, GroupStep(g), NEW label, NEW b, Moves(g, label, b)
    PROVE  IntactInv'
<1>1. /\ UNCHANGED <<launch, vfull, sV>> /\ Overlap' = Overlap /\ Starts' = Starts
      /\ NumBlocks' = NumBlocks /\ Words' = Words
  <2>1. UNCHANGED <<launch, vfull, sV>>
    BY Frames
  <2>2. QED
    BY <2>1, SameLaunch
<1>2. /\ 0 \in Groups /\ blk[g] \in Nat /\ ~Blocked(g) /\ NumBlocks \in Nat /\ pc[g] \in Labels
      /\ vfull.phase \in Nat /\ vfull.phase <= Len(decision) /\ Len(decision) \in Nat
  BY GroupSet, BlkNat, StepAt, Runs, Enough DEF TypeInv
<1>3. Extends
  BY GroupDecides
<1>4. ASSUME Overlap, Starts = {0}, NEW t \in 1 .. NumBlocks, Gate(0)' = <<t, "vrel">>,
             vfull.phase >= t, ~decision'[t]
      PROVE  sV = t - 1 /\ sSkip' = [w \in Words |-> VBytes(t - 1)]
  <2>1. ~decision[t]
    BY <1>2, <1>3, <1>4 DEF Extends
  <2>2. CASE Gate(0) = <<t, "vrel">>
    <3>1. NextGate(launch, pc[g], blk[g]) = <<t, "vrel">>
      BY <1>2, <2>2 DEF GateInv, Gate
    <3>2. pc[g] \notin {"vote", "reduce"}
      BY <3>1, Gates
    <3>3. sSkip' = sSkip
      BY <3>2, JustWatches
    <3>4. sV = t - 1 /\ sSkip = [w \in Words |-> VBytes(t - 1)]
      BY <1>4, <2>1, <2>2 DEF IntactInv
    <3>5. QED
      BY <3>3, <3>4
  <2>3. CASE Gate(0) # <<t, "vrel">>
    <3>1. /\ pc[g] \in Meeting /\ Gate(0) = <<blk[g], label>>
          /\ NextGate(launch, label, blk[g]) = <<t, "vrel">>
      BY <1>2, <1>4, <2>3, GroupMeets
    <3>2. label \in {"vrel", "full", "reduce", "read", "soft"}
      BY <3>1 DEF Moves, Meeting, Finishes
    <3>3. label = "soft"
      BY <3>1, <3>2, Gates
    <3>4. t = blk[g] + 1
      <4>1. FirstGate(launch, blk[g] + 1) = <<t, "vrel">>
        BY <3>1, <3>3, Gates
      <4>2. QED
        BY <4>1, FirstGates
    <3>5. ProducerGate = <<blk[g], "soft">>
      BY <3>1, <3>3 DEF GateInv, Follows
    <3>6. vq = blk[g] /\ ppc \in {"full", "empty"}
      BY <1>2, <3>5, ProducerAt
    <3>7. vfull.phase = vq \/ vfull.phase = vq - 1
      BY <3>6, VPhase
    <3>8. QED
      BY <1>2, <1>4, <3>4, <3>6, <3>7
  <2>4. QED
    BY <2>2, <2>3
<1>5. QED
  BY <1>1, <1>4 DEF IntactInv

LEMMA GroupFunctions ==
    ASSUME TypeInv, PlaceInv, NEW g \in Groups, GroupStep(g),
           NEW label \in Labels, NEW b \in Blocks, Moves(g, label, b)
    PROVE  pc' \in [Groups -> Labels] /\ blk' \in [Groups -> Blocks]
<1>1. pc \in [Groups -> Labels] /\ blk \in [Groups -> Blocks] /\ pc'[g] = label /\ blk'[g] = b
  BY DEF TypeInv, Moves, Moved
<1>2. ASSUME NEW l, Goto(g, l) PROVE pc' \in [Groups -> Labels]
  BY <1>1, <1>2 DEF Goto
<1>3. ASSUME NEW l, NextBlock(g, l) PROVE pc' \in [Groups -> Labels] /\ blk' \in [Groups -> Blocks]
  <2>1. pc' \in [Groups -> Labels]
    BY <1>2, <1>3 DEF NextBlock
  <2>2. QED
    BY <1>1, <1>3, <2>1 DEF NextBlock
<1>4. CASE pc[g] \in {"turn", "k", "qk", "mma", "sched", "v", "lastv"}
  BY <1>1, <1>2, <1>4, StepAt DEF FirstTurn, WaitK, FinishScores, TakeTurn, WaitV, WaitLastV
<1>5. CASE pc[g] \in {"pvrest", "vrel", "yield"} \/ (pc[g] = "pv" /\ Overlap)
  BY <1>1, <1>2, <1>5, StepAt DEF PassTurn, FinishMma, ReleaseV, LastTurn
<1>6. CASE Finishes(g)
  BY <1>1, <1>3, <1>6, StepAt DEF FinishPV
<1>7. CASE pc[g] = "vote"
  <2>1. blk[g] = 0 \/ blk[g] > 0
    BY BlkNat
  <2>2. FirstVote(g) \/ CastVote(g)
    BY <1>7, <2>1, StepAt
  <2>3. Goto(g, "full") \/ Goto(g, "reduce")
    BY <2>2 DEF FirstVote, CastVote
  <2>4. UNCHANGED blk
    BY <2>2 DEF FirstVote, CastVote
  <2>5. QED
    BY <1>1, <1>2, <2>3, <2>4
<1>8. CASE pc[g] = "reduce"
  BY <1>1, <1>2, <1>8, StepAt DEF ReduceVotes
<1>9. CASE pc[g] \in {"read", "full"}
  BY <1>1, <1>2, <1>9, StepAt DEF ReadVote, AwaitProducer
<1>10. CASE pc[g] = "soft"
  BY <1>1, <1>2, <1>3, <1>10, StepAt DEF OnlineSoftmax
<1>11. QED
  BY <1>1, <1>4, <1>5, <1>6, <1>7, <1>8, <1>9, <1>10, StepAt DEF Labels, Finishes

LEMMA GroupRegisters ==
    ASSUME TypeInv, PlaceInv, ScaleInv, NEW g \in Groups, GroupStep(g),
           NEW label, NEW b, Moves(g, label, b)
    PROVE  ver' \in [Groups -> Nat] /\ over' \in [Groups -> Nat]
<1>1. ver \in [Groups -> Nat] /\ over \in [Groups -> Nat]
  BY DEF TypeInv
<1>2. ver'[g] \in Nat /\ over'[g] \in Nat
  BY ScaleStep
<1>3. CASE pc[g] \in {"sched", "lastv"}
  BY <1>1, <1>2, <1>3, StepAt DEF TakeTurn, WaitLastV
<1>4. CASE pc[g] = "soft"
  BY <1>1, <1>2, <1>4, StepAt DEF OnlineSoftmax
<1>5. CASE pc[g] = "pvrest" \/ Finishes(g)
  <2>1. Accumulate(g) /\ ver' = ver
    BY <1>5, Accumulates
  <2>2. QED
    BY <1>1, <1>2, <2>1 DEF Accumulate
<1>6. QED
  BY <1>1, <1>3, <1>4, <1>5, Frames

LEMMA GroupOutcome ==
    ASSUME TypeInv, NEW g \in Groups, GroupStep(g)
    PROVE  rSkip' \in [Groups -> BOOLEAN]
<1>1. rSkip \in [Groups -> BOOLEAN] /\ sSkip \in [Words -> WordSet] /\ 0 \in Words
      /\ blk[g] \in Nat
  BY GroupSet, BlkNat DEF TypeInv
<1>2. CASE pc[g] = "read"
  <2>1. PICK flag \in Flags(sSkip[0]) : rSkip' = [rSkip EXCEPT ![g] = flag]
    BY <1>2, StepAt, Zenon DEF ReadVote
  <2>2. sSkip[0] \in WordSet
    BY <1>1
  <2>3. flag \in BOOLEAN
    <3>1. CASE \E f \in BOOLEAN : sSkip[0] = Vote(f)
      BY <2>1, <3>1, FlagsOf
    <3>2. CASE \E c : sSkip[0] = VBytes(c)
      <4>1. "vote" \notin DOMAIN sSkip[0]
        BY <3>2 DEF VBytes
      <4>2. Flags(sSkip[0]) = BOOLEAN
        BY <4>1 DEF Flags
      <4>3. QED
        BY <2>1, <4>2
    <3>3. QED
      BY <2>2, <3>1, <3>2 DEF WordSet
  <2>4. QED
    BY <1>1, <2>1, <2>3
<1>3. CASE pc[g] = "vote" /\ blk[g] = 0
  BY <1>1, <1>3, SaysFirst
<1>4. CASE pc[g] = "vote" /\ blk[g] > 0
  BY <1>1, <1>4, Casts
<1>5. QED
  BY <1>1, <1>2, <1>3, <1>4, Frames

LEMMA GroupTyped ==
    ASSUME TypeInv, PlaceInv, TurnInv, BarInv, GateInv, CountInv, DecisionInv, VoteInv, SkipInv,
           ProducerInv, VFullInv, VEmptyInv, ScaleInv, AccInv,
           NEW g \in Groups, GroupStep(g), NEW label, NEW b, Moves(g, label, b)
    PROVE  TypeInv'
<1>1. UNCHANGED <<launch, kq, vq, ppc, pskip, kLanded, sV>>
  BY Frames
<1>2. /\ Groups' = Groups /\ Blocks' = Blocks /\ NumBlocks' = NumBlocks
      /\ BlocksOr(Garbage)' = BlocksOr(Garbage)
  BY <1>1, SameLaunch
<1>3. /\ launch \in Launches /\ kq \in 0 .. NumBlocks /\ vq \in 0 .. NumBlocks /\ pskip \in BOOLEAN
      /\ ppc \in {"next", "full", "empty", "load", "done"}
      /\ kLanded \subseteq Blocks /\ sV \in BlocksOr(Garbage)
  BY DEF TypeInv
<1>4. kTaken' \in [Groups' -> Nat]
  BY GroupCounts
<1>5. sSkip' \in [Words' -> WordSet'] /\ vote' \in [Groups' -> BOOLEAN]
  BY ProducersWord
<1>6. bar' = [c \in Barriers' |-> bar'[c]]
  BY GroupMeets
<1>7. pc' \in [Groups -> Labels] /\ blk' \in [Groups -> Blocks]
  <2>1. label \in Labels /\ b \in Blocks
    BY <1>1, GroupPlaces
  <2>2. QED
    BY <2>1, GroupFunctions
<1>8. ver' \in [Groups -> Nat] /\ over' \in [Groups -> Nat] /\ rSkip' \in [Groups -> BOOLEAN]
  BY GroupRegisters, GroupOutcome
<1>9. decision' \in Seq(BOOLEAN) /\ acc' \in [Groups' -> SUBSET Blocks']
  <2>1. Extends
    BY GroupDecides
  <2>2. QED
    BY <2>1, GroupAccs DEF Extends
<1>10. QED
  BY <1>1, <1>2, <1>3, <1>4, <1>5, <1>6, <1>7, <1>8, <1>9 DEF TypeInv

LEMMA GroupKeeps ==
    ASSUME IInv, NEW g \in Groups, GroupStep(g)
    PROVE  IInv'
<1>1. /\ TypeInv /\ BarInv /\ TurnInv /\ GateInv /\ PlaceInv /\ CountInv
      /\ DecisionInv /\ ProducerInv /\ SkipInv /\ VoteInv
      /\ VFullInv /\ VEmptyInv /\ ScaleInv /\ AccInv /\ IntactInv
  BY DEF IInv
<1>2. PICK label, b : Moves(g, label, b)
  BY <1>1, GroupMoves
<1>3. UNCHANGED <<launch, vq, ppc, pskip, vfull, vflight>>
  BY <1>1, Frames
<1>4. TypeInv'
  BY <1>1, <1>2, GroupTyped
<1>5. BarInv' /\ TurnInv' /\ GateInv'
  BY <1>1, <1>2, GroupMeets
<1>6. PlaceInv' /\ CountInv'
  BY <1>1, <1>2, <1>3, GroupPlaces, GroupCounts
<1>7. Extends /\ DecisionInv' /\ SkipInv' /\ VoteInv'
  BY <1>1, <1>2, GroupDecides, GroupSkips, GroupVotes
<1>8. ProducerInv' /\ VFullInv'
  BY <1>1, <1>3, <1>7, ProducersWord, GroupProducer, GroupVFull
<1>9. VEmptyInv' /\ ScaleInv' /\ AccInv' /\ IntactInv'
  BY <1>1, <1>2, GroupVEmpty, GroupScales, GroupAccs, GroupIntact
<1>10. QED
  BY <1>4, <1>5, <1>6, <1>7, <1>8, <1>9 DEF IInv

-----------------------------------------------------------------------------
(* The steps that are not of a group. *)

Still == UNCHANGED <<launch, pc, blk, vote, rSkip, ver, over, decision, acc, kTaken>>

LEMMA StillPlaced ==
    ASSUME IInv, Still
    PROVE  PlaceInv' /\ CountInv' /\ DecisionInv' /\ SkipInv' /\ ScaleInv' /\ AccInv'
<1>1. /\ UNCHANGED <<launch, pc, blk, rSkip, ver, over, decision, acc, kTaken>>
      /\ Groups' = Groups
      /\ PlaceInv /\ CountInv /\ DecisionInv /\ SkipInv /\ ScaleInv /\ AccInv
  BY SameLaunch DEF Still, IInv
<1>2. \A h : /\ Scored(h)' = Scored(h) /\ Voted(h)' = Voted(h) /\ Softened(h)' = Softened(h)
             /\ Multiplied(h)' = Multiplied(h) /\ Behind(h)' = Behind(h) /\ After(h)' = After(h)
             /\ PlaceOK(h)' = PlaceOK(h)
  BY <1>1, OthersTally
<1>3. PlaceInv'
  BY <1>1, <1>2 DEF PlaceInv
<1>4. CountInv'
  BY <1>1, <1>2 DEF CountInv
<1>5. DecisionInv'
  BY <1>1, <1>2 DEF DecisionInv
<1>6. SkipInv'
  BY <1>1, <1>2 DEF SkipInv, SkipOK
<1>7. ScaleInv'
  <2>1. \A h : Lagging(h)' = Lagging(h)
    BY <1>1, <1>2, SameLaunch DEF Lagging
  <2>2. QED
    BY <1>1, <1>2, <2>1 DEF ScaleInv
<1>8. AccInv'
  BY <1>1, <1>2 DEF AccInv
<1>9. QED
  BY <1>3, <1>4, <1>5, <1>6, <1>7, <1>8

LEMMA Parts ==
    ASSUME IInv
    PROVE  /\ TypeInv /\ BarInv /\ TurnInv /\ GateInv /\ PlaceInv /\ CountInv
           /\ DecisionInv /\ ProducerInv /\ SkipInv /\ VoteInv
           /\ VFullInv /\ VEmptyInv /\ ScaleInv /\ AccInv /\ IntactInv
           /\ launch \in Launches /\ kq \in 0 .. NumBlocks /\ vq \in 0 .. NumBlocks
           /\ vq \in Nat /\ NumBlocks \in Nat /\ pskip \in BOOLEAN
           /\ ppc \in {"next", "full", "empty", "load", "done"} /\ kLanded \subseteq Blocks
           /\ sV \in BlocksOr(Garbage) /\ sSkip \in [Words -> WordSet]
           /\ bar = [c \in Barriers |-> bar[c]] /\ decision \in Seq(BOOLEAN)
           /\ Len(decision) \in Nat
           /\ 0 \in Groups /\ Groups \subseteq Words /\ Producer \in Words
           /\ Producer \notin Groups /\ Blocks = 0 .. NumBlocks - 1
<1>1. TypeInv
  BY DEF IInv
<1>2. /\ launch \in Launches /\ kq \in 0 .. NumBlocks /\ vq \in 0 .. NumBlocks
      /\ pskip \in BOOLEAN
      /\ ppc \in {"next", "full", "empty", "load", "done"} /\ kLanded \subseteq Blocks
      /\ sV \in BlocksOr(Garbage) /\ sSkip \in [Words -> WordSet]
      /\ bar = [c \in Barriers |-> bar[c]] /\ decision \in Seq(BOOLEAN)
  BY <1>1 DEF TypeInv
<1>3. Len(decision) \in Nat /\ vq \in Nat
  BY <1>2
<1>4. /\ 0 \in Groups /\ Groups \subseteq Words /\ Producer \in Words
      /\ Producer \notin Groups /\ Blocks = 0 .. NumBlocks - 1 /\ NumBlocks \in Nat
  BY <1>2, GroupSet
<1>5. QED
  BY <1>1, <1>2, <1>3, <1>4 DEF IInv

LEMMA StillTyped ==
    ASSUME IInv, Still, kq' \in 0 .. NumBlocks, vq' \in 0 .. NumBlocks, pskip' \in BOOLEAN,
           ppc' \in {"next", "full", "empty", "load", "done"}, kLanded' \subseteq Blocks,
           sV' \in BlocksOr(Garbage), sSkip' \in [Words -> WordSet],
           bar' = [c \in Barriers |-> bar'[c]]
    PROVE  TypeInv'
<1>1. UNCHANGED <<launch, pc, blk, vote, rSkip, ver, over, decision, acc, kTaken>>
  BY DEF Still
<1>2. /\ launch \in Launches /\ kTaken \in [Groups -> Nat]
      /\ pc \in [Groups -> Labels] /\ blk \in [Groups -> Blocks]
      /\ vote \in [Groups -> BOOLEAN] /\ rSkip \in [Groups -> BOOLEAN]
      /\ ver \in [Groups -> Nat] /\ over \in [Groups -> Nat]
      /\ decision \in Seq(BOOLEAN) /\ acc \in [Groups -> SUBSET Blocks]
  BY DEF IInv, TypeInv
<1>3. QED
  BY <1>1, <1>2, SameLaunch DEF TypeInv

(* A step that reaches no barrier. *)
LEMMA StillPasses ==
    ASSUME IInv, Still, UNCHANGED bar,
           Blocked(Producer) => UNCHANGED <<ppc, vq>>,
           ~Blocked(Producer) => NextProducerGate(ppc', vq') = NextProducerGate(ppc, vq)
    PROVE  /\ BarInv' /\ GateInv' /\ TurnInv' /\ \A h : Blocked(h)' <=> Blocked(h)
           /\ Gate(0)' = Gate(0)
<1>1. UNCHANGED <<launch, pc, blk>>
  BY DEF Still
<1>2. BarInv' /\ GateInv' /\ (\A h : Blocked(h)' <=> Blocked(h)) /\ \A h \in Groups : Gate(h)' = Gate(h)
  BY <1>1, Parts, Passes
<1>3. TurnInv'
  BY <1>1, Parts, TurnsStay
<1>4. QED
  BY <1>2, <1>3, Parts

(* The pipeline of V and the words stay. *)
LEMMA StillVoted ==
    ASSUME IInv, Still, \A h \in Groups : Blocked(h)' => Blocked(h),
           \A h \in Groups : sSkip'[h] = sSkip[h]
    PROVE  VoteInv'
<1>1. UNCHANGED <<launch, pc, blk, vote, decision>> /\ Groups' = Groups /\ 0 \in Groups
  BY SameLaunch, Parts DEF Still
<1>2. VoteInv
  BY Parts
<1>3. QED
  BY <1>1, <1>2 DEF VoteInv, CastOK

LEMMA StillEmpties ==
    ASSUME IInv, Still, UNCHANGED vempty, vfull'.phase \in Nat, vfull.phase <= vfull'.phase,
           vq' <= vempty.phase + (IF ppc' = "load" THEN 0 ELSE 1)
    PROVE  VEmptyInv'
<1>1. UNCHANGED <<launch, pc, blk, vempty>> /\ Groups' = Groups /\ NumGroups' = NumGroups
  BY SameLaunch DEF Still
<1>2. \A h : Released(h)' = Released(h) /\ Waited(h)' = Waited(h)
  BY <1>1, OthersTally
<1>3. VEmptyInv
  BY Parts
<1>4. \A h \in Groups : Waited(h) <= vfull'.phase
  <2>1. vfull.phase \in Nat /\ \A h \in Groups : Waited(h) \in Nat
    BY Parts, VAhead, Progress
  <2>2. QED
    BY <1>3, <2>1 DEF VEmptyInv
<1>5. {h \in Groups : Released(h)' = vempty.phase + 1} = {h \in Groups : Released(h) = vempty.phase + 1}
  BY <1>2
<1>6. QED
  BY <1>1, <1>2, <1>3, <1>4, <1>5 DEF VEmptyInv

LEMMA StillIntact ==
    ASSUME IInv, Still, UNCHANGED <<vfull, sV, sSkip>>,
           \/ Gate(0)' = Gate(0)
           \/ \E t, l : Gate(0)' = <<t, l>> /\ l # "vrel"
    PROVE  IntactInv'
<1>1. /\ UNCHANGED <<launch, decision>> /\ Overlap' = Overlap /\ Starts' = Starts
      /\ NumBlocks' = NumBlocks /\ Words' = Words /\ IntactInv
  BY SameLaunch, Parts DEF Still
<1>2. \A t : Gate(0)' = <<t, "vrel">> => Gate(0) = <<t, "vrel">>
  OBVIOUS
<1>3. QED
  BY <1>1, <1>2 DEF IntactInv

(* Nobody but the producer's own look at a vote waits for it. *)
LEMMA ProducerFree ==
    ASSUME IInv, ppc \in {"next", "load", "done"} \/ Running(Producer)
    PROVE  ~Blocked(Producer)
<1>1. CASE ppc \in {"next", "load", "done"}
  <2>1. \A c \in CTABarriers : Producer \notin bar[c].blocked
    BY <1>1, Parts DEF BarInv
  <2>2. QED
    BY <2>1 DEF Blocked
<1>2. CASE Running(Producer)
  BY <1>2, Runs
<1>3. QED
  BY <1>1, <1>2

LEMMA LoadsK ==
    ASSUME IInv, ProducerLoadK, UNCHANGED launch
    PROVE  IInv'
<1>1. /\ Still /\ kq < NumBlocks /\ kq' = kq + 1
      /\ UNCHANGED <<vq, ppc, pskip, kLanded, vfull, vempty, vflight, sV, sSkip, bar>>
  BY DEF ProducerLoadK, KComesNext, Still, kVars, vVars, memVars, softVars, histVars
<1>2. /\ BarInv' /\ GateInv' /\ TurnInv' /\ (\A h : Blocked(h)' <=> Blocked(h))
      /\ Gate(0)' = Gate(0)
  BY <1>1, StillPasses
<1>3. PlaceInv' /\ CountInv' /\ DecisionInv' /\ SkipInv' /\ ScaleInv' /\ AccInv'
  BY <1>1, StillPlaced
<1>4. TypeInv'
  BY <1>1, Parts, StillTyped
<1>5. VoteInv' /\ IntactInv'
  BY <1>1, <1>2, StillVoted, StillIntact
<1>6. ProducerInv' /\ VFullInv'
  BY <1>1, Parts, SameLaunch DEF ProducerInv, VFullInv, Still
<1>7. VEmptyInv'
  BY <1>1, Parts, VAhead, StillEmpties DEF VEmptyInv
<1>8. QED
  BY <1>2, <1>3, <1>4, <1>5, <1>6, <1>7 DEF IInv

LEMMA AwaitsVote ==
    ASSUME IInv, ProducerAwaitVote, UNCHANGED launch
    PROVE  IInv'
<1>1. /\ Still /\ ppc = "next" /\ ppc' = "full" /\ vq < NumBlocks /\ Sync(PFull, Producer)
      /\ UNCHANGED <<kq, vq, pskip, kLanded, vfull, vempty, vflight, sV, sSkip>>
  BY Parts DEF ProducerAwaitVote, Still, kVars, vVars, memVars, softVars, histVars
<1>2. ~Blocked(Producer) /\ PFull \in CTABarriers
  BY <1>1, ProducerFree DEF CTABarriers
<1>3. /\ BarInv' /\ GateInv' /\ OthersStay
      /\ \A h \in Groups : Blocked(h)' => Blocked(h)
      /\ Gate(0)' \in {Gate(0), NextGate(launch, "full", vq)}
  BY <1>1, <1>2, Parts, ProducerArrives DEF Still
<1>4. TurnInv' /\ bar' = [c \in Barriers |-> bar'[c]]
  BY <1>1, <1>3, Parts, TurnsStay, SameLaunch DEF OthersStay, Still
<1>5. PlaceInv' /\ CountInv' /\ DecisionInv' /\ SkipInv' /\ ScaleInv' /\ AccInv'
  BY <1>1, StillPlaced
<1>6. TypeInv'
  BY <1>1, <1>4, Parts, StillTyped
<1>7. VoteInv'
  BY <1>1, <1>3, StillVoted
<1>8. IntactInv'
  <2>1. NextGate(launch, "full", vq) = <<vq, "soft">>
    BY Gates
  <2>2. QED
    BY <1>1, <1>3, <2>1, StillIntact
<1>9. ProducerInv' /\ VFullInv'
  BY <1>1, Parts, SameLaunch DEF ProducerInv, VFullInv, Still
<1>10. VEmptyInv'
  BY <1>1, Parts, VAhead, StillEmpties DEF VEmptyInv
<1>11. QED
  BY <1>3, <1>4, <1>5, <1>6, <1>7, <1>8, <1>9, <1>10 DEF IInv

LEMMA Paired ==
    ASSUME NEW h
    PROVE  \E t, l : Gate(h) = <<t, l>>
<1>1. CASE Blocked(h)
  BY <1>1 DEF Gate
<1>2. CASE ~Blocked(h)
  BY <1>2, FirstGates DEF Gate, NextGate
<1>3. QED
  BY <1>1, <1>2

(* What the producer looks at is the outcome of its next block. *)
LEMMA ReadsVote ==
    ASSUME IInv, ProducerReadVote, UNCHANGED launch
    PROVE  IInv'
<1>1. /\ Still /\ ppc = "full" /\ ppc' = "empty" /\ Sync(PEmpty, Producer) /\ Running(Producer)
      /\ pskip' \in Flags(sSkip[0])
      /\ sSkip' = [sSkip EXCEPT ![Producer] = Vote(pskip')]
      /\ UNCHANGED <<kq, vq, kLanded, vfull, vempty, vflight, sV>>
  BY DEF ProducerReadVote, Still, kVars, vVars, memVars, softVars, histVars
<1>2. ~Blocked(Producer) /\ PEmpty \in CTABarriers
  BY <1>1, ProducerFree DEF CTABarriers
<1>3. /\ BarInv' /\ GateInv' /\ OthersStay
      /\ \A h \in Groups : Blocked(h)' => Blocked(h)
      /\ Gate(0)' \in {Gate(0), NextGate(launch, "soft", vq)}
  <2>1. PEmpty # PFull
    BY Bars
  <2>2. QED
    BY <1>1, <1>2, <2>1, Parts, ProducerArrives DEF Still
<1>4. TurnInv' /\ bar' = [c \in Barriers |-> bar'[c]]
  BY <1>1, <1>3, Parts, TurnsStay, SameLaunch DEF OthersStay, Still
<1>5. PlaceInv' /\ CountInv' /\ DecisionInv' /\ SkipInv' /\ ScaleInv' /\ AccInv'
  BY <1>1, StillPlaced
<1>6. Gate(0) = <<vq, "soft">>
  <2>1. Follows(Gate(0)) = <<vq, "soft">>
    BY <1>1, <1>2, Parts DEF GateInv, ProducerGate, NextProducerGate
  <2>2. PICK t, l : Gate(0) = <<t, l>>
    BY Paired
  <2>3. t = vq /\ l = "soft"
    BY <2>1, <2>2 DEF Follows
  <2>4. QED
    BY <2>2, <2>3
<1>7. /\ blk[0] = vq /\ (IF Blocked(0) THEN pc[0] = "soft" ELSE pc[0] = "full")
  BY <1>6, Parts, Back
<1>8. sSkip[0] = Vote(decision[vq + 1])
  BY <1>7, Parts DEF VoteInv
<1>9. vq < Len(decision) /\ pskip' = decision[vq + 1] /\ pskip' \in BOOLEAN
  <2>1. pskip' = decision[vq + 1]
    BY <1>1, <1>8, FlagsOf
  <2>2. Len(decision) = vq + 1
    BY <1>7, Parts DEF DecisionInv, Voted, After, IsAfter
  <2>3. vq + 1 \in 1 .. Len(decision)
    BY <2>2, Parts
  <2>4. decision[vq + 1] \in BOOLEAN
    BY <2>3, Parts
  <2>5. QED
    BY <2>1, <2>2, <2>4, Parts
<1>10. /\ sSkip' \in [Words -> WordSet] /\ sSkip'[Producer] = Vote(pskip')
       /\ \A h \in Groups : sSkip'[h] = sSkip[h]
  <2>1. Vote(pskip') \in WordSet
    BY <1>9 DEF WordSet
  <2>2. QED
    BY <1>1, <2>1, Parts
<1>11. TypeInv'
  BY <1>1, <1>4, <1>9, <1>10, Parts, StillTyped
<1>12. VoteInv'
  BY <1>1, <1>3, <1>10, StillVoted
<1>13. ProducerInv' /\ VFullInv'
  BY <1>1, <1>9, <1>10, Parts, SameLaunch DEF ProducerInv, VFullInv, Still
<1>14. VEmptyInv'
  BY <1>1, Parts, VAhead, StillEmpties DEF VEmptyInv
<1>15. IntactInv'
  <2>1. vfull.phase <= vq /\ vfull.phase \in Nat
    BY <1>1, Parts, VPhase
  <2>2. ASSUME NEW t \in 1 .. NumBlocks, Gate(0)' = <<t, "vrel">>, vfull.phase >= t PROVE FALSE
    <3>1. NextGate(launch, "soft", vq) = <<t, "vrel">>
      BY <1>3, <1>6, <2>2
    <3>2. t = vq + 1
      <4>1. FirstGate(launch, vq + 1) = <<t, "vrel">>
        BY <3>1, Gates
      <4>2. QED
        BY <4>1, FirstGates
    <3>3. QED
      BY <2>1, <2>2, <3>2, Parts
  <2>3. QED
    BY <1>1, <2>2, SameLaunch DEF IntactInv, Still
<1>16. QED
  BY <1>3, <1>4, <1>5, <1>11, <1>12, <1>13, <1>14, <1>15 DEF IInv

(* The buffer the producer waited for is free, and nothing is under way. *)
LEMMA Freed ==
    ASSUME IInv, ppc \in {"next", "empty"}, Passed(vempty, ProducerPhase(vq))
    PROVE  /\ vempty.phase = vq /\ vflight = {}
           /\ vfull = [phase |-> vq, pending |-> 1, tx |-> 0]
<1>1. /\ vempty.phase \in Nat /\ vfull.phase \in Nat /\ vq \in Nat
      /\ vq <= vempty.phase + 1 /\ Waited(0) <= vfull.phase
      /\ Released(0) \in {vempty.phase, vempty.phase + 1}
      /\ Released(0) \in Nat /\ Waited(0) \in Nat /\ Released(0) <= Waited(0)
  BY Parts, VAhead, Progress DEF VEmptyInv
<1>2. \/ vfull.phase = vq /\ vflight = {}
      \/ vfull.phase = vq - 1 /\ vq > 0 /\ vflight = {vq - 1}
  BY Parts, VPhase
<1>3. vempty.phase # vq - 1
  <2>1. vempty.phase % 2 # ((vq + 1) % 2) % 2
    BY DEF Passed, ProducerPhase
  <2>2. SUFFICES ASSUME vempty.phase = vq - 1 PROVE FALSE
    OBVIOUS
  <2>3. vq + 1 = vempty.phase + 2
    BY <1>1, <2>2
  <2>4. (vempty.phase + 2) % 2 = vempty.phase % 2
    BY <1>1
  <2>5. (vempty.phase % 2) % 2 = vempty.phase % 2
    BY <1>1, Parity
  <2>6. QED
    BY <2>1, <2>3, <2>4, <2>5
<1>4. vempty.phase = vq /\ vfull.phase = vq /\ vflight = {}
  BY <1>1, <1>2, <1>3
<1>5. vfull # [phase |-> vq - 1, pending |-> 0, tx |-> 1]
  BY <1>1, <1>4
<1>6. vfull = [phase |-> vq, pending |-> 1, tx |-> 0]
  BY <1>5, Parts DEF VFullInv
<1>7. QED
  BY <1>4, <1>6

LEMMA AcquiresV ==
    ASSUME IInv, ProducerAcquireV, UNCHANGED launch
    PROVE  IInv'
<1>1. /\ Still /\ ppc = "empty" /\ ppc' = "load" /\ Running(Producer)
      /\ Passed(vempty, ProducerPhase(vq))
      /\ vfull' = IF pskip THEN Arrive(vfull, 1) ELSE ArriveExpectTx(vfull, 1, 1)
      /\ UNCHANGED <<kq, vq, pskip, kLanded, vempty, vflight, sV, sSkip, bar>>
  BY DEF ProducerAcquireV, Still, kVars, memVars, softVars, histVars
<1>2. /\ vempty.phase = vq /\ vflight = {}
      /\ vfull = [phase |-> vq, pending |-> 1, tx |-> 0]
  BY <1>1, Freed
<1>3. vfull' = IF pskip THEN [phase |-> vq + 1, pending |-> 1, tx |-> 0]
               ELSE [phase |-> vq, pending |-> 0, tx |-> 1]
  <2>1. vfull.phase = vq /\ vfull.pending - 1 = 0 /\ vfull.tx = 0 /\ vfull.tx + 1 = 1
    BY <1>2
  <2>2. Arrive(vfull, 1) = [phase |-> vq + 1, pending |-> 1, tx |-> 0]
    BY <2>1 DEF Arrive, Settle
  <2>3. ArriveExpectTx(vfull, 1, 1) = [phase |-> vq, pending |-> 0, tx |-> 1]
    BY <2>1 DEF ArriveExpectTx, Settle
  <2>4. QED
    BY <1>1, <2>2, <2>3
<1>4. ~Blocked(Producer)
  BY <1>1, ProducerFree
<1>5. /\ BarInv' /\ GateInv' /\ TurnInv' /\ (\A h : Blocked(h)' <=> Blocked(h))
      /\ Gate(0)' = Gate(0)
  BY <1>1, <1>4, StillPasses DEF NextProducerGate
<1>6. PlaceInv' /\ CountInv' /\ DecisionInv' /\ SkipInv' /\ ScaleInv' /\ AccInv'
  BY <1>1, StillPlaced
<1>7. TypeInv'
  BY <1>1, Parts, StillTyped
<1>8. VoteInv'
  BY <1>1, <1>5, StillVoted
<1>9. ProducerInv'
  BY <1>1, Parts, SameLaunch DEF ProducerInv, Still
<1>10. VFullInv'
  BY <1>1, <1>2, <1>3, Parts DEF VFullInv
<1>11. vfull'.phase = (IF pskip THEN vq + 1 ELSE vq) /\ vfull.phase = vq
  BY <1>2, <1>3
<1>12. VEmptyInv'
  BY <1>1, <1>2, <1>11, Parts, StillEmpties
<1>13. IntactInv'
  <2>1. /\ Overlap' = Overlap /\ Starts' = Starts /\ NumBlocks' = NumBlocks /\ Words' = Words
        /\ UNCHANGED <<decision, sV, sSkip>>
    BY <1>1, SameLaunch DEF Still
  <2>2. ASSUME NEW t \in 1 .. NumBlocks, vfull'.phase >= t, ~decision[t] PROVE vfull.phase >= t
    <3>1. pskip => decision[vq + 1]
      BY <1>1, Parts DEF ProducerInv
    <3>2. QED
      BY <1>11, <2>2, <3>1, Parts
  <2>3. QED
    BY <1>5, <2>1, <2>2, Parts DEF IntactInv
<1>14. QED
  BY <1>5, <1>6, <1>7, <1>8, <1>9, <1>10, <1>12, <1>13 DEF IInv

LEMMA LoadsV ==
    ASSUME IInv, ProducerLoadV, UNCHANGED launch
    PROVE  IInv'
<1>1. /\ Still /\ ppc = "load" /\ ppc' = "next" /\ vq' = vq + 1
      /\ UNCHANGED <<kq, pskip, kLanded, vfull, vempty, sV, sSkip, bar>>
  BY DEF ProducerLoadV, Still, kVars, memVars, softVars, histVars
<1>2. /\ vq < NumBlocks /\ vq < Len(decision) /\ pskip = decision[vq + 1]
      /\ sSkip[Producer] = Vote(pskip)
  BY <1>1, Parts DEF ProducerInv
<1>3. vflight' = IF pskip THEN vflight ELSE vflight \union {vq}
  <2>1. PICK skip \in Flags(sSkip[Producer]) :
            vflight' = IF skip THEN vflight ELSE vflight \union {vq}
    BY DEF ProducerLoadV
  <2>2. skip = pskip
    BY <1>2, <2>1, FlagsOf
  <2>3. QED
    BY <2>1, <2>2
<1>4. ~Blocked(Producer)
  BY <1>1, ProducerFree
<1>5. /\ BarInv' /\ GateInv' /\ TurnInv' /\ (\A h : Blocked(h)' <=> Blocked(h))
      /\ Gate(0)' = Gate(0)
  BY <1>1, <1>4, StillPasses DEF NextProducerGate
<1>6. PlaceInv' /\ CountInv' /\ DecisionInv' /\ SkipInv' /\ ScaleInv' /\ AccInv'
  BY <1>1, StillPlaced
<1>7. vq' \in 0 .. NumBlocks /\ vq' \in Nat /\ vq' > 0 /\ vq' <= Len(decision)
  BY <1>1, <1>2, Parts
<1>8. TypeInv'
  BY <1>1, <1>7, Parts, StillTyped
<1>9. VoteInv' /\ IntactInv'
  BY <1>1, <1>5, StillVoted, StillIntact
<1>10. ProducerInv'
  BY <1>1, <1>7, Parts, SameLaunch DEF ProducerInv, Still
<1>11. VFullInv'
  <2>1. CASE pskip
    <3>1. vfull = [phase |-> vq + 1, pending |-> 1, tx |-> 0] /\ vflight = {}
      BY <1>1, <2>1, Parts DEF VFullInv
    <3>2. QED
      BY <1>1, <1>3, <2>1, <3>1, Parts DEF VFullInv
  <2>2. CASE ~pskip
    <3>1. vfull = [phase |-> vq, pending |-> 0, tx |-> 1] /\ vflight = {}
      BY <1>1, <2>2, Parts DEF VFullInv
    <3>2. vflight' = {vq' - 1} /\ vq' - 1 = vq
      BY <1>1, <1>3, <2>2, <3>1, Parts
    <3>3. ~decision'[vq']
      BY <1>1, <1>2, <2>2, Parts DEF Still
    <3>4. QED
      BY <1>1, <1>7, <3>1, <3>2, <3>3 DEF VFullInv
  <2>3. QED
    BY <2>1, <2>2
<1>12. VEmptyInv'
  <2>1. vq <= vempty.phase /\ vempty.phase \in Nat /\ vfull.phase \in Nat
    BY <1>1, Parts, VAhead DEF VEmptyInv
  <2>2. QED
    BY <1>1, <2>1, Parts, StillEmpties
<1>13. QED
  BY <1>5, <1>6, <1>8, <1>9, <1>10, <1>11, <1>12 DEF IInv

LEMMA Tails ==
    ASSUME IInv, ProducerTail, UNCHANGED launch
    PROVE  IInv'
<1>1. /\ Still /\ ppc = "next" /\ ppc' = "done" /\ vq = NumBlocks
      /\ Passed(vempty, ProducerPhase(vq)) /\ vfull' = ArriveExpectTx(vfull, 1, 1)
      /\ UNCHANGED <<kq, vq, pskip, kLanded, vempty, vflight, sV, sSkip, bar>>
  BY DEF ProducerTail, Still, kVars, memVars, softVars, histVars
<1>2. /\ vempty.phase = vq /\ vflight = {}
      /\ vfull = [phase |-> vq, pending |-> 1, tx |-> 0]
  BY <1>1, Freed
<1>3. vfull' = [phase |-> vq, pending |-> 0, tx |-> 1]
  <2>1. vfull.phase = vq /\ vfull.pending - 1 = 0 /\ vfull.tx + 1 = 1
    BY <1>2
  <2>2. QED
    BY <1>1, <2>1 DEF ArriveExpectTx, Settle
<1>4. ~Blocked(Producer)
  BY <1>1, ProducerFree
<1>5. /\ BarInv' /\ GateInv' /\ TurnInv' /\ (\A h : Blocked(h)' <=> Blocked(h))
      /\ Gate(0)' = Gate(0)
  BY <1>1, <1>4, StillPasses DEF NextProducerGate
<1>6. PlaceInv' /\ CountInv' /\ DecisionInv' /\ SkipInv' /\ ScaleInv' /\ AccInv'
  BY <1>1, StillPlaced
<1>7. TypeInv'
  BY <1>1, Parts, StillTyped
<1>8. VoteInv'
  BY <1>1, <1>5, StillVoted
<1>9. ProducerInv'
  BY <1>1, Parts, SameLaunch DEF ProducerInv, Still
<1>10. VFullInv'
  BY <1>1, <1>2, <1>3 DEF VFullInv
<1>11. vfull'.phase = vfull.phase /\ vfull'.phase \in Nat
  BY <1>2, <1>3, Parts
<1>12. VEmptyInv'
  BY <1>1, <1>2, <1>11, Parts, StillEmpties
<1>13. IntactInv'
  <2>1. /\ Overlap' = Overlap /\ Starts' = Starts /\ NumBlocks' = NumBlocks /\ Words' = Words
        /\ UNCHANGED <<decision, sV, sSkip>>
    BY <1>1, SameLaunch DEF Still
  <2>2. QED
    BY <1>5, <1>11, <2>1, Parts DEF IntactInv
<1>14. QED
  BY <1>5, <1>6, <1>7, <1>8, <1>9, <1>10, <1>12, <1>13 DEF IInv

LEMMA KLanding ==
    ASSUME IInv, KStep
    PROVE  IInv'
<1>1. PICK c \in Blocks : KLands(c)
  BY DEF KStep
<1>2. /\ Still /\ kLanded' = kLanded \union {c}
      /\ UNCHANGED <<kq, vq, ppc, pskip, vfull, vempty, vflight, sV, sSkip, bar>>
  BY <1>1 DEF KStep, KLands, Still, producerVars, vVars, memVars, softVars, histVars
<1>3. /\ BarInv' /\ GateInv' /\ TurnInv' /\ (\A h : Blocked(h)' <=> Blocked(h))
      /\ Gate(0)' = Gate(0)
  BY <1>2, StillPasses
<1>4. PlaceInv' /\ CountInv' /\ DecisionInv' /\ SkipInv' /\ ScaleInv' /\ AccInv'
  BY <1>2, StillPlaced
<1>5. TypeInv'
  BY <1>1, <1>2, Parts, StillTyped
<1>6. VoteInv' /\ IntactInv'
  BY <1>2, <1>3, StillVoted, StillIntact
<1>7. ProducerInv' /\ VFullInv'
  BY <1>2, Parts, SameLaunch DEF ProducerInv, VFullInv, Still
<1>8. VEmptyInv'
  BY <1>2, Parts, VAhead, StillEmpties DEF VEmptyInv
<1>9. QED
  BY <1>3, <1>4, <1>5, <1>6, <1>7, <1>8 DEF IInv

(* While a load of V is under way no vote word is in use: a group that     *)
(* votes on the next block has waited for the load.                        *)
UnderWay == vq > 0 /\ vfull.phase = vq - 1 /\ ppc \in {"next", "full", "empty"}

LEMMA NotVoting ==
    ASSUME IInv, UnderWay, NEW h \in Groups,
           pc[h] \in {"reduce", "read", "full"} \/ (pc[h] = "soft" /\ Blocked(h))
    PROVE  FALSE
<1>1. /\ blk[h] \in Nat /\ vq \in Nat /\ Waited(h) \in Nat /\ Released(h) <= Waited(h)
      /\ Waited(h) <= vq - 1 /\ Gate(h) = Gate(0)
  BY Parts, BlkNat, Progress DEF VEmptyInv, UnderWay, GateInv
<1>2. PICK l \in {"reduce", "read", "full", "soft"} : Gate(h) = <<blk[h], l>>
  <2>1. CASE Blocked(h)
    BY <2>1 DEF Gate
  <2>2. CASE ~Blocked(h)
    BY <2>2, Gates DEF Gate
  <2>3. QED
    BY <2>1, <2>2
<1>3. PICK k : ProducerGate = <<blk[h], k>>
  BY <1>1, <1>2, Parts DEF GateInv, Follows
<1>4. vq <= blk[h]
  BY <1>1, <1>3, Parts, ProducerAt
<1>5. Released(h) = blk[h]
  BY <1>1 DEF Released, Behind
<1>6. QED
  BY <1>1, <1>4, <1>5

LEMMA NotEmpty ==
    ASSUME IInv, UnderWay, ppc = "empty"
    PROVE  FALSE
<1>1. /\ blk[0] \in Nat /\ vq \in Nat /\ Waited(0) \in Nat /\ Released(0) <= Waited(0)
      /\ Waited(0) <= vq - 1 /\ 0 \in Groups
  BY Parts, BlkNat, Progress DEF VEmptyInv, UnderWay
<1>2. PICK t, l : Gate(0) = <<t, l>>
  BY Paired
<1>3. Follows(Gate(0)) = IF Blocked(Producer) THEN <<vq, "soft">> ELSE <<vq + 1, "full">>
  BY Parts DEF GateInv, ProducerGate, NextProducerGate
<1>4. CASE Blocked(Producer)
  <2>1. t = vq /\ l = "soft"
    BY <1>2, <1>3, <1>4 DEF Follows
  <2>2. blk[0] = vq /\ (IF Blocked(0) THEN pc[0] = "soft" ELSE pc[0] = "full")
    BY <1>1, <1>2, <2>1, Parts, Back
  <2>3. Released(0) = vq
    BY <1>1, <2>2 DEF Released, Behind
  <2>4. QED
    BY <1>1, <2>3
<1>5. CASE ~Blocked(Producer)
  <2>1. t = vq + 1 /\ l # "soft"
    BY <1>2, <1>3, <1>5 DEF Follows
  <2>2. blk[0] \in {vq + 1, vq} /\ (Blocked(0) => blk[0] = vq + 1)
    BY <1>1, <1>2, <2>1, Parts, Back
  <2>3. CASE blk[0] = vq + 1
    <3>1. Released(0) >= vq
      BY <1>1, <2>3 DEF Released
    <3>2. QED
      BY <1>1, <3>1, Progress, Parts
  <2>4. CASE blk[0] = vq /\ ~Blocked(0)
    <3>1. NextGate(launch, pc[0], vq) = <<vq + 1, l>>
      BY <1>2, <2>1, <2>4 DEF Gate
    <3>2. After(0)
      <4>1. SUFFICES ASSUME ~After(0) PROVE FALSE
        OBVIOUS
      <4>2. NextGate(launch, pc[0], vq)[1] = vq
        BY <4>1, FirstGates DEF NextGate, After
      <4>3. QED
        BY <1>1, <3>1, <4>2
    <3>3. Released(0) >= vq
      BY <1>1, <2>4, <3>2 DEF Released, Behind, After, IsAfter, Overlap
    <3>4. QED
      BY <1>1, <3>3, Progress, Parts
  <2>5. QED
    BY <1>1, <2>2, <2>3, <2>4
<1>6. QED
  BY <1>4, <1>5

LEMMA VLanding ==
    ASSUME IInv, VStep
    PROVE  IInv'
<1>1. PICK c \in vflight : VLands(c)
  BY DEF VStep
<1>2. /\ Still /\ sV' = c /\ sSkip' = [w \in Words |-> VBytes(c)]
      /\ vfull' = CompleteTx(vfull, 1) /\ vflight' = vflight \ {c}
      /\ UNCHANGED <<kq, vq, ppc, pskip, kLanded, vempty, bar>>
  BY <1>1 DEF VStep, VLands, Still, producerVars, kVars, softVars, histVars
<1>3. /\ ppc \notin {"load", "done"} /\ vq > 0 /\ ~decision[vq]
      /\ vfull = [phase |-> vq - 1, pending |-> 0, tx |-> 1] /\ vflight = {vq - 1}
  BY <1>1, Parts DEF VFullInv
<1>4. c = vq - 1 /\ vflight' = {} /\ vfull.phase = vq - 1 /\ UnderWay
  <2>1. c = vq - 1 /\ vflight' = {} /\ vfull.phase = vq - 1
    BY <1>1, <1>2, <1>3
  <2>2. QED
    BY <1>3, <2>1, Parts DEF UnderWay
<1>5. vfull' = [phase |-> vq, pending |-> 1, tx |-> 0]
  <2>1. vfull.phase + 1 = vq /\ vfull.pending = 0 /\ vfull.tx - 1 = 0
    BY <1>3, Parts
  <2>2. QED
    BY <1>2, <2>1 DEF CompleteTx, Settle
<1>6. ppc # "empty"
  BY <1>4, NotEmpty
<1>7. /\ BarInv' /\ GateInv' /\ TurnInv' /\ (\A h : Blocked(h)' <=> Blocked(h))
      /\ Gate(0)' = Gate(0)
  BY <1>2, StillPasses
<1>8. PlaceInv' /\ CountInv' /\ DecisionInv' /\ SkipInv' /\ ScaleInv' /\ AccInv'
  BY <1>2, StillPlaced
<1>9. c \in BlocksOr(Garbage) /\ VBytes(c) \in WordSet
  <2>1. c \in Blocks
    BY <1>3, <1>4, Parts
  <2>2. QED
    BY <2>1 DEF BlocksOr, WordSet
<1>10. TypeInv'
  BY <1>2, <1>9, Parts, StillTyped
<1>11. VoteInv'
  <2>1. UNCHANGED <<pc, blk>> /\ Groups' = Groups
    BY <1>2, SameLaunch DEF Still
  <2>2. \A h \in Groups : CastOK(h)'
    BY <1>4, <1>7, <2>1, NotVoting DEF CastOK
  <2>3. ~(pc'[0] \in {"read", "full"} \/ (pc'[0] = "soft" /\ Blocked(0)'))
    BY <1>4, <1>7, <2>1, NotVoting, Parts
  <2>4. QED
    BY <2>1, <2>2, <2>3 DEF VoteInv
<1>12. ProducerInv'
  BY <1>2, <1>3, <1>6, Parts, SameLaunch DEF ProducerInv, Still
<1>13. VFullInv'
  BY <1>2, <1>3, <1>4, <1>5, Parts DEF VFullInv
<1>14. vfull'.phase = vq
  BY <1>5
<1>15. VEmptyInv'
  BY <1>2, <1>4, <1>14, Parts, StillEmpties DEF VEmptyInv
<1>16. IntactInv'
  <2>1. /\ Overlap' = Overlap /\ Starts' = Starts /\ NumBlocks' = NumBlocks /\ Words' = Words
    BY <1>2, SameLaunch DEF Still
  <2>2. ASSUME NEW t \in 1 .. NumBlocks, Gate(0)' = <<t, "vrel">>, vfull'.phase >= t
        PROVE  sV' = t - 1 /\ sSkip' = [w \in Words |-> VBytes(t - 1)]
    <3>1. ProducerGate = <<t, "full">>
      BY <1>7, <2>2, Parts DEF GateInv, Follows
    <3>2. vq = t
      BY <1>3, <1>6, <3>1, Parts, ProducerAt
    <3>3. QED
      BY <1>2, <1>4, <3>2
  <2>3. QED
    BY <2>1, <2>2 DEF IntactInv
<1>17. QED
  BY <1>7, <1>8, <1>10, <1>11, <1>12, <1>13, <1>15, <1>16 DEF IInv

LEMMA Stutters ==
    ASSUME IInv, UNCHANGED vars
    PROVE  IInv'
<1>1. /\ Still
      /\ UNCHANGED <<kq, vq, ppc, pskip, kLanded, vfull, vempty, vflight, sV, sSkip, bar>>
  BY DEF vars, Still, producerVars, kVars, vVars, memVars, softVars, histVars
<1>2. /\ BarInv' /\ GateInv' /\ TurnInv' /\ (\A h : Blocked(h)' <=> Blocked(h))
      /\ Gate(0)' = Gate(0)
  BY <1>1, StillPasses
<1>3. PlaceInv' /\ CountInv' /\ DecisionInv' /\ SkipInv' /\ ScaleInv' /\ AccInv'
  BY <1>1, StillPlaced
<1>4. TypeInv'
  BY <1>1, Parts, StillTyped
<1>5. VoteInv' /\ IntactInv'
  BY <1>1, <1>2, StillVoted, StillIntact
<1>6. ProducerInv' /\ VFullInv'
  BY <1>1, Parts, SameLaunch DEF ProducerInv, VFullInv, Still
<1>7. VEmptyInv'
  BY <1>1, Parts, VAhead, StillEmpties DEF VEmptyInv
<1>8. QED
  BY <1>2, <1>3, <1>4, <1>5, <1>6, <1>7 DEF IInv

LEMMA Steps ==
    ASSUME IInv, [Next]_vars
    PROVE  IInv'
<1>1. CASE ProducerStep
  BY <1>1, LoadsK, AwaitsVote, ReadsVote, AcquiresV, LoadsV, Tails DEF ProducerStep
<1>2. CASE KStep
  BY <1>2, KLanding
<1>3. CASE VStep
  BY <1>3, VLanding
<1>4. CASE \E g \in Groups : GroupStep(g)
  BY <1>4, GroupKeeps
<1>5. CASE UNCHANGED vars
  BY <1>5, Stutters
<1>6. QED
  BY <1>1, <1>2, <1>3, <1>4, <1>5 DEF Next

-----------------------------------------------------------------------------
(* The initial states. *)

LEMMA Begins ==
    ASSUME Init
    PROVE  IInv
<1>1. /\ launch \in Launches /\ NumGroups \in Nat \ {0} /\ NumBlocks \in Nat \ {0}
      /\ 0 \in Groups /\ 0 \in Blocks /\ Producer \notin Groups /\ Groups \subseteq Nat
      /\ 0 \in Starts /\ Overlap \in BOOLEAN /\ Groups \subseteq Words
  BY GroupSet DEF Init
<1>2. \A g \in Groups : /\ pc[g] = (IF Overlap THEN "k" ELSE "turn") /\ blk[g] = 0
                        /\ ver[g] = 0 /\ over[g] = 0 /\ kTaken[g] = 0 /\ acc[g] = {}
  BY DEF Init
<1>3. \A c \in CTABarriers : bar[c] = [count |-> 0, blocked |-> {}]
  <2>1. \A c \in CTABarriers : c \in Barriers /\ c # WarpScheduler(0)
    BY Bars
  <2>2. QED
    BY <2>1 DEF Init, NoOne
<1>4. \A a : ~Blocked(a)
  BY <1>3 DEF Blocked
<1>5. /\ vq = 0 /\ kq = 0 /\ ppc = "next" /\ pskip = FALSE /\ vflight = {} /\ decision = <<>>
      /\ vfull = [phase |-> 0, pending |-> 1, tx |-> 0]
      /\ vempty = [phase |-> 0, pending |-> NumGroups, tx |-> 0]
      /\ kLanded = {} /\ sV = Garbage /\ Len(decision) = 0
  BY DEF Init, MbarInit
<1>6. \A g \in Groups : ~Behind(g) /\ ~After(g)
  BY <1>1, <1>2 DEF Behind, After, IsAfter, Overlap
<1>7. \A g \in Groups : /\ Scored(g) = 0 /\ Voted(g) = 0 /\ Softened(g) = 0 /\ Released(g) = 0
                        /\ Waited(g) = 0 /\ Multiplied(g) = 0
  <2>1. ASSUME NEW g \in Groups
        PROVE  /\ Scored(g) = 0 /\ Voted(g) = 0 /\ Softened(g) = 0
               /\ Released(g) = 0 /\ Waited(g) = 0 /\ Multiplied(g) = 0
    <3>1. pc[g] \in {"k", "turn"} /\ blk[g] = 0 /\ ~Behind(g) /\ ~After(g)
      BY <1>2, <1>6
    <3>2. Scored(g) = 0 /\ Voted(g) = 0 /\ Softened(g) = 0 /\ Released(g) = 0
      BY <3>1 DEF Scored, Voted, Softened, Released
    <3>3. Waited(g) = 0 /\ Multiplied(g) = 0
      BY <3>1, <3>2 DEF Waited, Multiplied
    <3>4. QED
      BY <3>2, <3>3
  <2>2. QED
    BY <2>1
<1>8. \A g \in Groups : Gate(g) = <<0, "full">>
  <2>1. ASSUME NEW g \in Groups PROVE Gate(g) = <<0, "full">>
    <3>1. Gate(g) = FirstGate(launch, 0)
      BY <1>1, <1>2, <1>4, Gates DEF Gate
    <3>2. QED
      BY <3>1, FirstGates
  <2>2. QED
    BY <2>1
<1>9. TypeInv
  <2>1. sSkip \in [Words -> WordSet]
    <3>1. VBytes(Garbage) \in WordSet
      BY DEF WordSet, BlocksOr
    <3>2. QED
      BY <3>1 DEF Init
  <2>2. bar = [c \in Barriers |-> bar[c]]
    BY DEF Init
  <2>3. /\ pc \in [Groups -> Labels] /\ blk \in [Groups -> Blocks] /\ kTaken \in [Groups -> Nat]
        /\ vote \in [Groups -> BOOLEAN] /\ rSkip \in [Groups -> BOOLEAN]
        /\ ver \in [Groups -> Nat] /\ over \in [Groups -> Nat] /\ acc \in [Groups -> SUBSET Blocks]
    BY <1>1 DEF Init, Labels
  <2>4. decision \in Seq(BOOLEAN) /\ sV \in BlocksOr(Garbage)
    BY <1>5 DEF BlocksOr
  <2>5. /\ kq \in 0 .. NumBlocks /\ vq \in 0 .. NumBlocks /\ pskip \in BOOLEAN
        /\ ppc \in {"next", "full", "empty", "load", "done"} /\ kLanded \subseteq Blocks
    <3>1. pskip \in BOOLEAN
      BY DEF Init
    <3>2. QED
      BY <1>1, <1>5, <3>1
  <2>6. QED
    BY <1>1, <2>1, <2>2, <2>3, <2>4, <2>5 DEF TypeInv
<1>10. BarInv
  <2>1. ASSUME NEW c \in CTABarriers
        PROVE  /\ bar[c] = [count |-> Cardinality(bar[c].blocked), blocked |-> bar[c].blocked]
               /\ bar[c].blocked = {} /\ bar[c].count < Cardinality(Parties(c))
    <3>1. bar[c].blocked = {} /\ bar[c].count = 0 /\ Cardinality({}) = 0
      BY <1>3, FS_EmptySet
    <3>2. Cardinality(Parties(c)) \in Nat \ {0}
      BY <1>1, Party
    <3>3. QED
      BY <1>3, <3>1, <3>2
  <2>2. QED
    BY <2>1 DEF BarInv
<1>11. TurnInv
  <2>1. ASSUME NEW g \in Groups PROVE TurnOK(bar[WarpScheduler(g)])
    <3>1. \/ bar[WarpScheduler(g)] = [count |-> 0, blocked |-> {}]
          \/ bar[WarpScheduler(g)] = [count |-> 1, blocked |-> {}]
      <4>1. WarpScheduler(g) \in Barriers
        BY Bars
      <4>2. QED
        BY <4>1 DEF Init, NoOne
    <3>2. Cardinality({}) = 0
      BY FS_EmptySet
    <3>3. QED
      BY <3>1, <3>2 DEF TurnOK, BarrierOK
  <2>2. QED
    BY <2>1 DEF TurnInv
<1>12. GateInv
  <2>1. ProducerGate = <<0, "full">>
    BY <1>4, <1>5 DEF ProducerGate, NextProducerGate
  <2>2. QED
    BY <1>1, <1>8, <2>1 DEF GateInv, Follows
<1>13. PlaceInv
  BY <1>1, <1>2 DEF PlaceInv, PlaceOK
<1>14. CountInv /\ DecisionInv /\ ProducerInv /\ VFullInv
  BY <1>1, <1>2, <1>5, <1>7 DEF CountInv, DecisionInv, ProducerInv, VFullInv
<1>15. SkipInv /\ VoteInv
  BY <1>1, <1>2, <1>4, <1>6 DEF SkipInv, SkipOK, VoteInv, CastOK
<1>16. VEmptyInv
  <2>1. {g \in Groups : Released(g) = vempty.phase + 1} = {} /\ Cardinality({}) = 0
    BY <1>5, <1>7, FS_EmptySet
  <2>2. QED
    <3>1. vempty.phase = 0 /\ vempty.pending = NumGroups /\ vfull.phase = 0
      BY <1>5
    <3>2. vempty = [phase |-> vempty.phase, pending |-> vempty.pending, tx |-> 0]
      BY <1>5
    <3>3. vempty.pending =
            NumGroups - Cardinality({g \in Groups : Released(g) = vempty.phase + 1})
      BY <1>1, <2>1, <3>1
    <3>4. QED
      BY <1>1, <1>5, <1>7, <3>1, <3>2, <3>3 DEF VEmptyInv
<1>17. ScaleInv
  <2>1. \A g \in Groups : ~Lagging(g)
    BY <1>1, <1>2, <1>6 DEF Lagging
  <2>2. QED
    BY <1>2, <1>7, <2>1 DEF ScaleInv
<1>18. AccInv
  BY <1>2, <1>7 DEF AccInv
<1>19. IntactInv
  BY <1>1, <1>8 DEF IntactInv
<1>20. QED
  BY <1>9, <1>10, <1>11, <1>12, <1>13, <1>14, <1>15, <1>16, <1>17, <1>18, <1>19 DEF IInv

-----------------------------------------------------------------------------
(* The invariant holds, for every number of blocks and segments, all       *)
(* launches and all outcomes of the votes: the groups and the producer     *)
(* meet the same barriers of the CTA in the same order, and what each has  *)
(* done to the votes, to pipeline_v and to its accumulator is what its     *)
(* place in the code says.                                                 *)
THEOREM Invariant == Spec => []IInv
<1>1. Init => IInv
  BY Begins
<1>2. IInv /\ [Next]_vars => IInv'
  BY Steps
<1>3. QED
  BY <1>1, <1>2, PTL DEF Spec

-----------------------------------------------------------------------------
(* What the invariant says of types, outcomes, scales and V. *)

LEMMA BarriersOK ==
    ASSUME IInv, NEW b \in Barriers
    PROVE  BarrierOK(bar[b], 0 .. NumGroups, NumberOfThreads(b))
<1>1. /\ launch \in Launches /\ NumGroups \in Nat \ {0} /\ Groups = 0 .. NumGroups - 1
      /\ Producer = NumGroups
  BY Parts, GroupSet
<1>2. Groups \subseteq 0 .. NumGroups /\ Producer \in 0 .. NumGroups
  BY <1>1
<1>3. CASE b \in CTABarriers
  <2>1. /\ bar[b] = [count |-> Cardinality(bar[b].blocked), blocked |-> bar[b].blocked]
        /\ bar[b].blocked \subseteq Parties(b)
        /\ bar[b].count < Cardinality(Parties(b))
    BY <1>3, Parts DEF BarInv
  <2>2. /\ IsFiniteSet(Parties(b)) /\ Cardinality(Parties(b)) \in Nat
        /\ NumberOfThreads(b) = Cardinality(Parties(b))
    BY <1>1, <1>3, Party
  <2>3. Cardinality(bar[b].blocked) \in Nat
    BY <2>1, <2>2, FS_Subset, FS_CardinalityType
  <2>4. bar[b].count = Cardinality(bar[b].blocked)
    BY <2>1
  <2>5. bar[b].count \in 0 .. NumberOfThreads(b) - 1
    BY <2>1, <2>2, <2>3, <2>4
  <2>6. bar[b].blocked \subseteq 0 .. NumGroups
    BY <1>2, <2>1 DEF Parties
  <2>7. QED
    BY <2>3, <2>4, <2>5, <2>6 DEF BarrierOK
<1>4. CASE b \notin CTABarriers
  <2>1. PICK g \in Groups : b = WarpScheduler(g)
    BY <1>4, Bars
  <2>2. BarrierOK(bar[b], Groups, 2) /\ NumberOfThreads(b) = 2
    BY <2>1, Parts, Bars DEF TurnInv, TurnOK
  <2>3. QED
    BY <1>2, <2>2 DEF BarrierOK
<1>5. QED
  BY <1>3, <1>4

(* Every variable has its type. *)
LEMMA Typed ==
    ASSUME IInv
    PROVE  TypeOK
<1>1. /\ TypeInv /\ NumBlocks \in Nat \ {0} /\ NumGroups \in Nat \ {0}
      /\ Blocks = 0 .. NumBlocks - 1 /\ vq \in Nat /\ vq <= NumBlocks
  <2>1. TypeInv /\ launch \in Launches /\ vq \in 0 .. NumBlocks /\ vq \in Nat
    BY Parts
  <2>2. QED
    BY <2>1, GroupSet
<1>2. ASSUME NEW g \in Groups
      PROVE  /\ kTaken[g] \in 0 .. NumBlocks /\ ver[g] \in 0 .. NumBlocks
             /\ over[g] \in 0 .. NumBlocks
  <2>1. PICK n \in 0 .. NumBlocks - 1 : blk[g] = n
    BY <1>1, BlkNat
  <2>2. Scored(g) \in 0 .. NumBlocks /\ Softened(g) \in 0 .. NumBlocks
    BY <1>1, <2>1 DEF Scored, Softened
  <2>3. kTaken[g] = Scored(g)
    BY Parts DEF CountInv
  <2>4. ver[g] \in Nat /\ over[g] \in Nat
    BY <1>1 DEF TypeInv
  <2>5. ver[g] <= Softened(g) /\ ver[g] = over[g] + (IF Lagging(g) THEN 1 ELSE 0)
    BY Parts DEF ScaleInv
  <2>6. over[g] <= ver[g]
    BY <2>4, <2>5
  <2>7. QED
    BY <1>1, <2>2, <2>3, <2>4, <2>5, <2>6
<1>3. /\ kTaken \in [Groups -> 0 .. NumBlocks] /\ ver \in [Groups -> 0 .. NumBlocks]
      /\ over \in [Groups -> 0 .. NumBlocks]
  <2>1. /\ kTaken = [g \in Groups |-> kTaken[g]] /\ ver = [g \in Groups |-> ver[g]]
        /\ over = [g \in Groups |-> over[g]]
    BY <1>1 DEF TypeInv
  <2>2. QED
    BY <1>2, <2>1
<1>4. /\ vfull.phase \in Nat /\ vfull.pending + vfull.tx = 1 /\ vfull.tx \in 0 .. 1
      /\ vflight \subseteq Blocks /\ Cardinality(vflight) <= vfull.tx
  <2>1. Cardinality({}) = 0 /\ Cardinality({vq - 1}) = 1
    BY FS_EmptySet, FS_Singleton
  <2>2. CASE /\ vfull = [phase |-> vq + (IF ppc = "load" THEN 1 ELSE 0), pending |-> 1, tx |-> 0]
             /\ vflight = {}
    BY <1>1, <2>1, <2>2
  <2>3. CASE vfull = [phase |-> vq, pending |-> 0, tx |-> 1] /\ vflight = {}
    BY <1>1, <2>1, <2>3
  <2>4. CASE /\ vq > 0 /\ vfull = [phase |-> vq - 1, pending |-> 0, tx |-> 1]
             /\ vflight = {vq - 1}
    <3>1. vq - 1 \in Nat /\ vq - 1 \in Blocks
      BY <1>1, <2>4
    <3>2. QED
      BY <2>1, <2>4, <3>1
  <2>5. QED
    BY <2>2, <2>3, <2>4, Parts DEF VFullInv
<1>5. vempty.phase \in Nat /\ vempty.pending \in 1 .. NumGroups /\ vempty.tx = 0
  BY Parts DEF VEmptyInv
<1>6. \A b \in Barriers : BarrierOK(bar[b], 0 .. NumGroups, NumberOfThreads(b))
  BY BarriersOK
<1>7. /\ sV \in Blocks \union {Garbage}
      /\ sSkip \in [Words -> {Vote(f) : f \in BOOLEAN}
                             \union {VBytes(b) : b \in Blocks \union {Garbage}}]
  BY <1>1 DEF TypeInv, WordSet, BlocksOr
<1>8. /\ kq \in 0 .. NumBlocks /\ vq \in 0 .. NumBlocks /\ pskip \in BOOLEAN
      /\ ppc \in {"next", "full", "empty", "load", "done"} /\ kLanded \subseteq Blocks
      /\ pc \in [Groups -> Labels] /\ blk \in [Groups -> Blocks]
      /\ vote \in [Groups -> BOOLEAN] /\ rSkip \in [Groups -> BOOLEAN]
      /\ decision \in Seq(BOOLEAN) /\ acc \in [Groups -> SUBSET Blocks]
  BY <1>1 DEF TypeInv
<1>9. QED
  BY <1>3, <1>4, <1>5, <1>6, <1>7, <1>8 DEF TypeOK

(* Everybody acts on one outcome. *)
LEMMA Agreed ==
    ASSUME IInv
    PROVE  SkipAgreement
<1>1. ASSUME NEW g \in Groups, HoldsOutcome(g)
      PROVE  rSkip[g] = decision[VotedBlock(g) + 1]
  <2>1. PICK n \in Nat : blk[g] = n
    BY Parts, BlkNat
  <2>2. SkipOK(g) /\ PlaceOK(g)
    BY Parts DEF SkipInv, PlaceInv
  <2>3. CASE At(g, "full")
    <3>1. pc[g] = "full" /\ ~Blocked(g) /\ VotedBlock(g) = n
      BY <2>1, <2>3, Runs DEF At, VotedBlock
    <3>2. CASE n > 0
      BY <2>1, <2>2, <3>1, <3>2 DEF SkipOK
    <3>3. CASE n = 0
      <4>1. ~rSkip[g]
        BY <2>1, <2>2, <3>1, <3>3 DEF SkipOK
      <4>2. Len(decision) = 1
        BY <2>1, <3>1, <3>3, Parts, FirstHasVoted DEF DecisionInv
      <4>3. ~decision[1]
        BY <4>2, Parts DEF DecisionInv
      <4>4. decision[1] \in BOOLEAN
        BY <4>2, Parts
      <4>5. rSkip[g] \in BOOLEAN
        BY Parts DEF TypeInv
      <4>6. rSkip[g] = decision[0 + 1]
        BY <4>1, <4>3, <4>4, <4>5
      <4>7. QED
        BY <3>1, <3>3, <4>6
    <3>4. QED
      BY <2>1, <3>2, <3>3
  <2>4. CASE pc[g] \in {"soft", "lastv", "lastpv"} \/ (~Overlap /\ pc[g] \in {"v", "sched", "pv"})
    <3>1. After(g) /\ VotedBlock(g) = n
      BY <2>1, <2>4 DEF After, IsAfter, VotedBlock, Overlap
    <3>2. QED
      BY <2>1, <2>2, <3>1 DEF SkipOK
  <2>5. CASE Overlap /\ blk[g] \notin Starts
             /\ pc[g] \in {"k", "sched", "v", "pv", "mma", "pvrest", "vrel"}
    <3>1. Behind(g) /\ VotedBlock(g) = n - 1 /\ n - 1 + 1 = n
      BY <2>1, <2>5 DEF Behind, VotedBlock
    <3>2. QED
      BY <2>1, <2>2, <3>1 DEF SkipOK
  <2>6. QED
    BY <1>1, <2>3, <2>4, <2>5 DEF HoldsOutcome
<1>2. ppc \in {"empty", "load"} => pskip = decision[vq + 1]
  BY Parts DEF ProducerInv
<1>3. QED
  BY <1>1, <1>2 DEF SkipAgreement

(* A group that multiplies with V has scaled acc_O. *)
LEMMA Scaled ==
    ASSUME IInv
    PROVE  ScalesAgree
<1>1. ASSUME NEW g \in Groups, (ReadsV(g) /\ PVBlock(g) > 0) \/ pc[g] = "done"
      PROVE  over[g] = ver[g]
  <2>1. blk[g] \in Nat /\ over[g] \in Nat
    BY Parts, BlkNat DEF TypeInv
  <2>2. ver[g] = over[g] + (IF Lagging(g) THEN 1 ELSE 0)
    BY Parts DEF ScaleInv
  <2>3. ~Lagging(g)
    <3>1. CASE pc[g] = "done"
      BY <3>1 DEF Lagging, Behind
    <3>2. CASE ReadsV(g) /\ PVBlock(g) > 0
      <4>1. pc[g] \in {"pv", "mma", "pvrest", "lastpv"}
        BY <3>2 DEF ReadsV
      <4>2. Overlap /\ pc[g] = "lastpv" => blk[g] # 0
        BY <2>1, <3>2 DEF PVBlock, Ahead
      <4>3. Behind(g) => blk[g] # 1
        BY <2>1, <3>2 DEF PVBlock, Ahead, Behind
      <4>4. QED
        BY <4>1, <4>2, <4>3 DEF Lagging
    <3>3. QED
      BY <1>1, <3>1, <3>2
  <2>4. QED
    BY <2>1, <2>2, <2>3
<1>2. QED
  BY <1>1 DEF ScalesAgree

(* V of a tile of one segment is intact. *)
LEMMA Intact ==
    ASSUME IInv
    PROVE  OneSegmentIntactV
<1>1. SUFFICES ASSUME Overlap, Starts = {0}, NEW g \in Groups, ReadsV(g)
               PROVE  sV = PVBlock(g) /\ \A w \in Words : sSkip[w] = VBytes(PVBlock(g))
  BY DEF OneSegmentIntactV, ReadsIntactV
<1>2. PICK n \in 0 .. NumBlocks - 1 : blk[g] = n
  BY Parts, BlkNat
<1>3. /\ pc[g] \in {"pv", "mma", "pvrest", "lastpv"} /\ ~rSkip[g]
      /\ n \in Nat /\ NumBlocks \in Nat /\ 0 \in Groups
      /\ PlaceOK(g) /\ SkipOK(g) /\ Waited(g) <= vfull.phase /\ vfull.phase \in Nat
  <2>1. Waited(g) <= vfull.phase /\ vfull.phase \in Nat
    BY Parts, Enough
  <2>2. QED
    BY <1>1, <1>2, <2>1, Parts DEF ReadsV, PlaceInv, SkipInv
<1>4. Gate(g) = NextGate(launch, pc[g], n)
  <2>1. ~Blocked(g)
    <3>1. SUFFICES ASSUME NEW c \in CTABarriers, g \in bar[c].blocked PROVE FALSE
      BY DEF Blocked
    <3>2. g # Producer
      BY Parts
    <3>3. pc[g] \in ArrivesAt
      BY <3>1, <3>2, Parts, WhoIsBlocked
    <3>4. QED
      BY <1>3, <3>3 DEF ArrivesAt
  <2>2. QED
    BY <1>2, <2>1 DEF Gate
<1>5. ASSUME NEW t \in 1 .. NumBlocks, Gate(g) = <<t, "vrel">>, PVBlock(g) = t - 1,
             Waited(g) = t, ~decision[t]
      PROVE  sV = PVBlock(g) /\ \A w \in Words : sSkip[w] = VBytes(PVBlock(g))
  <2>1. Gate(0) = <<t, "vrel">>
    BY <1>3, <1>5, Parts DEF GateInv
  <2>2. vfull.phase >= t
    BY <1>3, <1>5
  <2>3. sV = t - 1 /\ sSkip = [w \in Words |-> VBytes(t - 1)]
    BY <1>1, <1>5, <2>1, <2>2, Parts DEF IntactInv
  <2>4. QED
    BY <1>5, <2>3
<1>6. CASE pc[g] = "lastpv"
  <2>1. n + 1 \in 1 .. NumBlocks /\ n + 1 # 0 /\ n + 1 \notin Starts /\ PVBlock(g) = n + 1 - 1
    BY <1>1, <1>2, <1>3, <1>6 DEF PVBlock, Ahead
  <2>2. Gate(g) = <<n + 1, "vrel">>
    <3>1. Gate(g) = FirstGate(launch, n + 1)
      BY <1>4, <1>6, Gates
    <3>2. QED
      BY <1>1, <2>1, <3>1 DEF FirstGate, Overlap, Starts
  <2>3. Waited(g) = n + 1
    BY <1>2, <1>3, <1>6 DEF Waited, Released, Behind
  <2>4. ~decision[n + 1]
    BY <1>2, <1>3, <1>6 DEF SkipOK, After, IsAfter
  <2>5. QED
    BY <1>5, <2>1, <2>2, <2>3, <2>4
<1>7. CASE pc[g] # "lastpv"
  <2>1. n \notin Starts /\ n # 0 /\ pc[g] \in {"pv", "mma", "pvrest"} /\ Behind(g)
    BY <1>1, <1>2, <1>3, <1>7 DEF PlaceOK, Behind
  <2>2. n \in 1 .. NumBlocks /\ PVBlock(g) = n - 1
    BY <1>1, <1>2, <1>3, <2>1 DEF PVBlock, Ahead
  <2>3. Gate(g) = <<n, "vrel">>
    <3>1. Gate(g) = FirstGate(launch, n)
      BY <1>1, <1>4, <2>1, Gates DEF Overlap
    <3>2. QED
      BY <1>1, <2>1, <3>1 DEF FirstGate, Overlap, Starts
  <2>4. Waited(g) = n
    BY <1>2, <1>3, <2>1 DEF Waited, Released
  <2>5. ~decision[n]
    BY <1>2, <1>3, <2>1 DEF SkipOK
  <2>6. QED
    BY <1>5, <2>2, <2>3, <2>4, <2>5
<1>8. QED
  BY <1>6, <1>7

-----------------------------------------------------------------------------
(* The refinement of SkipFold: a group's steps decide, accumulate, or are  *)
(* none of its steps; those of the producer and of the hardware are none.  *)

LEMMA FoldInit ==
    ASSUME Init
    PROVE  Fold!Init
BY DEF Init, Fold!Init, Fold!Groups, Groups, NumGroups

LEMMA FoldStutters ==
    ASSUME ProducerStep \/ KStep \/ VStep \/ UNCHANGED vars
    PROVE  UNCHANGED <<launch, decision, acc>>
<1>1. CASE ProducerStep
  BY <1>1 DEF ProducerStep, ProducerLoadK, ProducerAwaitVote, ProducerReadVote,
              ProducerAcquireV, ProducerLoadV, ProducerTail, histVars
<1>2. CASE KStep
  BY <1>2 DEF KStep, KLands, histVars
<1>3. CASE VStep
  BY <1>3 DEF VStep, VLands, histVars
<1>4. CASE UNCHANGED vars
  BY <1>4 DEF vars, histVars
<1>5. QED
  BY <1>1, <1>2, <1>3, <1>4

(* The first group records an outcome. *)
LEMMA FoldDecides ==
    ASSUME IInv, GroupStep(0), NEW label, NEW b, Moves(0, label, b),
           pc[0] = "reduce" \/ (pc[0] = "vote" /\ blk[0] = 0)
    PROVE  \E skip \in BOOLEAN : Fold!Decide(skip)
<1>1. /\ blk[0] \in 0 .. NumBlocks - 1 /\ NumBlocks \in Nat
      /\ UNCHANGED <<launch, acc>> /\ NumBlocks = launch.blocks
  BY Parts, BlkNat, Frames DEF Finishes, NumBlocks
<1>2. CASE pc[0] = "vote" /\ blk[0] = 0
  <2>1. Len(decision) = 0 /\ decision' = Append(decision, FALSE)
    BY <1>2, Parts, GroupDecides, SaysFirst
  <2>2. Fold!Decide(FALSE)
    BY <1>1, <1>2, <2>1 DEF Fold!Decide
  <2>3. QED
    BY <2>2
<1>3. CASE pc[0] = "reduce"
  <2>1. Len(decision) = blk[0] /\ blk[0] > 0
    BY <1>3, Parts, GroupDecides
  <2>2. PICK x \in BOOLEAN : decision' = Append(decision, x)
    BY <1>3, Parts, Reduces
  <2>3. Fold!Decide(x)
    BY <1>1, <2>1, <2>2 DEF Fold!Decide
  <2>4. QED
    BY <2>3
<1>4. QED
  BY <1>2, <1>3

(* A group completes P V. *)
LEMMA FoldAccumulates ==
    ASSUME IInv, NEW g \in Groups, GroupStep(g), pc[g] = "pvrest" \/ Finishes(g)
    PROVE  \/ UNCHANGED <<launch, decision, acc>>
           \/ \E b \in Fold!Kept : Fold!Accumulate(g, b)
<1>1. /\ Accumulate(g) /\ UNCHANGED <<launch, decision>>
  BY Parts, Accumulates, Frames
<1>2. PICK n \in 0 .. NumBlocks - 1 : Multiplied(g) = n
  BY Parts, NowMultiplied
<1>3. /\ PVBlock(g) = n /\ n < Len(decision) /\ rSkip[g] = decision[n + 1] /\ n \in Nat
      /\ Len(decision) \in Nat
  BY <1>2, Parts, NowMultiplied
<1>4. CASE rSkip[g]
  BY <1>1, <1>4 DEF Accumulate
<1>5. CASE ~rSkip[g]
  <2>1. acc' = [acc EXCEPT ![g] = @ \union {n}]
    BY <1>1, <1>3, <1>5 DEF Accumulate
  <2>2. acc[g] = {b \in 0 .. n - 1 : ~decision[b + 1]}
    BY <1>2, Parts DEF AccInv
  <2>3. n \in Fold!Kept
    BY <1>3, <1>5 DEF Fold!Kept
  <2>4. n \notin acc[g]
    BY <1>3, <2>2
  <2>5. \A earlier \in Fold!Kept : earlier < n => earlier \in acc[g]
    BY <1>3, <2>2 DEF Fold!Kept
  <2>6. Fold!Accumulate(g, n)
    BY <1>1, <2>1, <2>3, <2>4, <2>5 DEF Fold!Accumulate
  <2>7. QED
    BY <2>3, <2>6
<1>6. QED
  BY <1>4, <1>5

LEMMA FoldStep ==
    ASSUME IInv, NEW g \in Groups, GroupStep(g)
    PROVE  Fold!Next \/ UNCHANGED <<launch, decision, acc>>
<1>1. PICK label, b : Moves(g, label, b)
  BY Parts, GroupMoves
<1>2. CASE g = 0 /\ (pc[g] = "reduce" \/ (pc[g] = "vote" /\ blk[g] = 0))
  <2>1. \E skip \in BOOLEAN : Fold!Decide(skip)
    BY <1>1, <1>2, FoldDecides
  <2>2. QED
    BY <2>1 DEF Fold!Next
<1>3. CASE pc[g] = "pvrest" \/ Finishes(g)
  <2>1. g \in Fold!Groups
    BY DEF Fold!Groups, Groups, NumGroups
  <2>2. QED
    BY <1>3, <2>1, FoldAccumulates DEF Fold!Next
<1>4. CASE /\ ~(pc[g] = "pvrest" \/ Finishes(g))
           /\ ~(g = 0 /\ (pc[g] = "reduce" \/ (pc[g] = "vote" /\ blk[g] = 0)))
  <2>1. UNCHANGED <<launch, acc>>
    BY <1>4, Parts, Frames
  <2>2. decision' = decision
    <3>1. CASE pc[g] = "vote" /\ blk[g] = 0
      BY <1>4, <3>1, Parts, SaysFirst
    <3>2. CASE pc[g] = "vote" /\ blk[g] > 0
      BY <3>2, Parts, Casts
    <3>3. CASE pc[g] # "vote"
      BY <1>4, <3>3, Parts, JustWatches
    <3>4. blk[g] = 0 \/ blk[g] > 0
      BY Parts, BlkNat
    <3>5. QED
      BY <3>1, <3>2, <3>3, <3>4
  <2>3. QED
    BY <2>1, <2>2
<1>5. QED
  BY <1>2, <1>3, <1>4

-----------------------------------------------------------------------------
(* Every variable keeps its type: no named barrier or mbarrier takes more  *)
(* arrivals than a phase has, and no more than one V is under way.         *)
THEOREM TypeCorrect == Spec => []TypeOK
<1>1. IInv => TypeOK
  BY Typed
<1>2. QED
  BY Invariant, <1>1, PTL

(* Softmax.skip: all groups and the producer act on one outcome of every   *)
(* block, which the first group has recorded.                              *)
THEOREM OneOutcome == Spec => []SkipAgreement
<1>1. IInv => SkipAgreement
  BY Agreed
<1>2. QED
  BY Invariant, <1>1, PTL

(* online_softmax, rescale_O: whenever a group adds P V, and at the end,   *)
(* acc_O is scaled for every block merged into row_max and row_sum.        *)
THEOREM AccumulatorScaled == Spec => []ScalesAgree
<1>1. IInv => ScalesAgree
  BY Scaled
<1>2. QED
  BY Invariant, <1>1, PTL

(* On a tile of one segment, with intra-warp-group overlap, no vote word   *)
(* and no later load is written over a V block that a group still reads.   *)
THEOREM SegmentIntact == Spec => []OneSegmentIntactV
<1>1. IInv => OneSegmentIntactV
  BY Intact
<1>2. QED
  BY Invariant, <1>1, PTL

(* The mainloop implements the fold: outcomes are recorded one after the   *)
(* other, and every group accumulates the kept blocks, each once and in    *)
(* order, whatever the interleaving of loads, votes and warp groups.       *)
THEOREM MainloopImplementsFold == Spec => ImplementsFold
<1>1. Init => Fold!Init
  BY FoldInit
<1>2. IInv /\ [Next]_vars => [Fold!Next]_(Fold!foldVars)
  <2> SUFFICES ASSUME IInv, [Next]_vars
               PROVE  Fold!Next \/ UNCHANGED <<launch, decision, acc>>
    BY DEF Fold!foldVars
  <2>1. CASE ProducerStep \/ KStep \/ VStep \/ UNCHANGED vars
    BY <2>1, FoldStutters
  <2>2. ASSUME NEW g \in Groups, GroupStep(g)
        PROVE  Fold!Next \/ UNCHANGED <<launch, decision, acc>>
    BY <2>2, FoldStep
  <2>3. QED
    BY <2>1, <2>2 DEF Next
<1>3. QED
  BY <1>1, <1>2, Invariant, PTL DEF Spec, ImplementsFold, Fold!Spec

-----------------------------------------------------------------------------
(* The ring of K, for every number of stages, consumers and blocks. *)

(* Every block is Item(SlotOf(b), RoundOf(b)), in one way only; two blocks *)
(* of one slot are at least a lap apart.                                   *)
LEMMA ItemOfBlock ==
    ASSUME NEW b \in Nat
    PROVE  /\ SlotOf(b) \in Slots
           /\ RoundOf(b) \in Nat
           /\ b = Item(SlotOf(b), RoundOf(b))
BY StagesAssumption DEF SlotOf, RoundOf, Slots, Item

LEMMA ItemType ==
    ASSUME NEW s \in Slots, NEW k \in Nat
    PROVE  /\ Item(s, k) \in Nat
           /\ Item(s, k + 1) = Item(s, k) + Stages
           /\ k > 0 => Item(s, k - 1) = Item(s, k) - Stages
BY StagesAssumption DEF Slots, Item

LEMMA ItemGap ==
    ASSUME NEW s \in Slots, NEW j \in Nat, NEW k \in Nat
    PROVE  /\ Item(s, j) < Item(s, k) <=> j < k
           /\ Item(s, j) < Item(s, k) => Item(s, j) + Stages <= Item(s, k)
           /\ Item(s, j) = Item(s, k) => j = k
BY StagesAssumption DEF Slots, Item

LEMMA ItemMod ==
    ASSUME NEW s \in Slots, NEW k \in Nat
    PROVE  Item(s, k) % Stages = s
BY StagesAssumption DEF Item, Slots

LEMMA ItemSlot ==
    ASSUME NEW s \in Slots, NEW t \in Slots, NEW j \in Nat, NEW k \in Nat, s # t
    PROVE  Item(s, j) # Item(t, k) /\ Item(s, j) # Item(t, k) + Stages
BY StagesAssumption DEF Slots, Item

(* PipelineStateSimple's index and phase are the slot and the lap of the   *)
(* block; the producer's phase is one lap ahead, which only its parity     *)
(* shows.                                                                  *)
LEMMA ProducerIndexPhase ==
    ASSUME NEW b \in Nat
    PROVE  /\ Index(ProducerStateOf(b)) = SlotOf(b)
           /\ Phase(ProducerStateOf(b)) % 2 = (RoundOf(b) + 1) % 2
           /\ Advance(ProducerStateOf(b)) = ProducerStateOf(b + 1)
           /\ ProducerStateOf(b) \in Nat
<1>1. CASE Stages = 1
  BY <1>1 DEF Index, Phase, Advance, ProducerStateOf, SlotOf, RoundOf
<1>2. CASE Stages # 1
  <2>1. /\ (b + Stages) % Stages = b % Stages
        /\ (b + Stages) \div Stages = (b \div Stages) + 1
    BY StagesAssumption
  <2>2. QED
    BY <1>2, <2>1, StagesAssumption
    DEF Index, Phase, Advance, ProducerStateOf, SlotOf, RoundOf
<1>3. QED
  BY <1>1, <1>2

LEMMA ConsumerIndexPhase ==
    ASSUME NEW b \in Nat
    PROVE  /\ Index(ConsumerStateOf(b)) = SlotOf(b)
           /\ Phase(ConsumerStateOf(b)) % 2 = RoundOf(b) % 2
           /\ Advance(ConsumerStateOf(b)) = ConsumerStateOf(b + 1)
           /\ ConsumerStateOf(b) \in Nat
BY StagesAssumption DEF Index, Phase, Advance, ConsumerStateOf, SlotOf, RoundOf

(* The life of a full barrier (armed, landed) and of an empty barrier.     *)
LEMMA RingBarriers ==
    ASSUME NEW k \in Nat, NEW p \in Nat, NEW n \in Nat
    PROVE  /\ ArriveExpectTx([phase |-> k, pending |-> 1, tx |-> 0], 1, 1)
                = [phase |-> k, pending |-> 0, tx |-> 1]
           /\ CompleteTx([phase |-> k, pending |-> 0, tx |-> 1], 1)
                = [phase |-> k + 1, pending |-> 1, tx |-> 0]
           /\ p > 1 => Arrive([phase |-> k, pending |-> p, tx |-> 0], n)
                        = [phase |-> k, pending |-> p - 1, tx |-> 0]
           /\ Arrive([phase |-> k, pending |-> 1, tx |-> 0], n)
                = [phase |-> k + 1, pending |-> n, tx |-> 0]
BY DEF ArriveExpectTx, CompleteTx, Arrive, Settle

LEMMA NumConsumersType == NumConsumers \in Nat \ {0}
BY ConsumersAssumption, FS_CardinalityType, FS_EmptySet DEF NumConsumers
-----------------------------------------------------------------------------
(* Type correctness is proved together with RingInv: that a slot is not    *)
(* armed twice, and that a barrier never sees an arrival too many, follow  *)
(* from the laps and not from the types.                                   *)
PipelineInv == RingTypeOK /\ RingInv

LEMMA PipelineStarts == RingInit => PipelineInv
<1> SUFFICES ASSUME RingInit PROVE PipelineInv
  OBVIOUS
<1> USE DEF RingInit
<1>1. 0 \in Nat /\ 0 % Stages = 0 /\ 1 % 2 = 1
  BY StagesAssumption
<1>2. RingTypeOK
  BY <1>1, NumRingBlocksAssumption, NumConsumersType, StagesAssumption
  DEF RingTypeOK, MbarType, MbarInit, ProducerStart, ConsumerStart, RingBlocks
<1>3. StateInv
  BY <1>1, StagesAssumption
  DEF StateInv, ProducerStateOf, ConsumerStateOf, ProducerStart, ConsumerStart
<1>4. WindowInv /\ InflightInv /\ ContentInv /\ ReadInv
  BY StagesAssumption
  DEF WindowInv, InflightInv, ContentInv, ReadInv, Acquired, MbarInit
<1>5. \A s \in Slots : NextToLand(s) = s /\ NextToRelease(s) = s /\ ~Armed(s)
  BY StagesAssumption DEF NextToLand, NextToRelease, Armed, Item, MbarInit, Slots
<1>6. FullInv
  BY <1>5, StagesAssumption DEF FullInv, Acquired, Slots
<1>7. ASSUME NEW s \in Slots
      PROVE  empty[s].pending = Cardinality(Unreleased(s))
  <2>1. Unreleased(s) = Consumers
    BY <1>5 DEF Unreleased, Slots
  <2>2. QED
    BY <2>1 DEF MbarInit, NumConsumers
<1>8. EmptyInv
  BY <1>5, <1>7, StagesAssumption DEF EmptyInv, Acquired, Slots
<1>9. QED
  BY <1>2, <1>3, <1>4, <1>6, <1>8 DEF PipelineInv, RingInv

(* What RingTypeOK says of a slot, in the terms of RingInv. *)
LEMMA SlotTypes ==
    ASSUME RingTypeOK, NEW s \in Slots
    PROVE  /\ full[s].phase \in Nat /\ empty[s].phase \in Nat
           /\ NextToLand(s) \in Nat /\ NextToRelease(s) \in Nat
           /\ ~Armed(s) => full[s] = [phase |-> full[s].phase, pending |-> 1, tx |-> 0]
           /\ Armed(s) => full[s] = [phase |-> full[s].phase, pending |-> 0, tx |-> 1]
<1>1. full[s] \in MbarType(1) /\ empty[s].phase \in Nat
  BY DEF RingTypeOK
<1>2. /\ full[s].phase \in Nat
      /\ ~Armed(s) => full[s] = [phase |-> full[s].phase, pending |-> 1, tx |-> 0]
      /\ Armed(s) => full[s] = [phase |-> full[s].phase, pending |-> 0, tx |-> 1]
  BY <1>1 DEF MbarType, Armed
<1>3. QED
  BY <1>1, <1>2, ItemType DEF NextToLand, NextToRelease

(* producer_acquire only gets through once every consumer has released the *)
(* block a lap before, so the slot is idle.                                *)
LEMMA AcquireIsSafe ==
    ASSUME PipelineInv, ProducerAcquire
    PROVE  /\ Index(pstate) = SlotOf(pblock)
           /\ NextToRelease(SlotOf(pblock)) = pblock
           /\ NextToLand(SlotOf(pblock)) = pblock
           /\ ~Armed(SlotOf(pblock))
           /\ \A c \in Consumers : pblock < cblock[c] + Stages
<1> DEFINE s == SlotOf(pblock)
           r == RoundOf(pblock)
           E == empty[s].phase
           F == full[s].phase
<1>0. pblock \in Nat /\ Acquired = pblock /\ cblock \in [Consumers -> Nat]
  BY NumRingBlocksAssumption DEF PipelineInv, RingTypeOK, ProducerAcquire, Acquired
<1>1. s \in Slots /\ r \in Nat /\ pblock = Item(s, r)
  BY <1>0, ItemOfBlock
<1>2. /\ E \in Nat /\ F \in Nat
      /\ NextToRelease(s) = Item(s, E) /\ NextToLand(s) = Item(s, F)
      /\ NextToRelease(s) \in Nat /\ NextToLand(s) \in Nat
  BY <1>1, SlotTypes DEF PipelineInv, NextToLand, NextToRelease
<1>3. Index(pstate) = s /\ Phase(pstate) % 2 = (r + 1) % 2
  BY <1>0, ProducerIndexPhase DEF PipelineInv, RingInv, StateInv
<1>4. \A c \in Consumers : cblock[c] <= pblock /\ Item(s, E) < cblock[c] + Stages
  BY <1>1, <1>2 DEF PipelineInv, RingInv, WindowInv, EmptyInv
<1>5. PICK c \in Consumers : TRUE
  BY ConsumersAssumption
<1>6. Item(s, E) < pblock + Stages /\ pblock <= Item(s, E) + Stages
  <2>1. Item(s, E) < pblock + Stages
    BY <1>4, <1>5, <1>0, <1>2, StagesAssumption
  <2>2. QED
    BY <1>0, <1>1, <1>2, <2>1 DEF PipelineInv, RingInv, EmptyInv
<1>7. E = r \/ E + 1 = r
  <2>1. Item(s, E) < Item(s, r + 1) /\ Item(s, r) <= Item(s, E + 1)
    BY <1>1, <1>2, <1>6, ItemType
  <2>2. r + 1 \in Nat /\ E + 1 \in Nat
    BY <1>1, <1>2
  <2>3. E < r + 1
    BY <1>1, <1>2, <2>1, <2>2, ItemGap
  <2>4. ~(E + 1 < r)
    <3>1. E + 1 < r <=> Item(s, E + 1) < Item(s, r)
      BY <1>1, <2>2, ItemGap
    <3>2. Item(s, E + 1) \in Nat /\ Item(s, r) \in Nat
      BY <1>1, <2>2, ItemType
    <3>3. QED
      BY <2>1, <3>1, <3>2
  <2>5. QED
    BY <1>1, <1>2, <2>3, <2>4
<1>8. E % 2 # (r + 1) % 2
  BY <1>3, <1>1, <1>2 DEF ProducerAcquire, Passed
<1>9. E = r
  BY <1>7, <1>8, <1>1, <1>2
<1>10. \A d \in Consumers : pblock < cblock[d] + Stages
  BY <1>4, <1>9, <1>1
<1>11. ~Armed(s)
  <2>1. SUFFICES ASSUME Armed(s) PROVE FALSE
    OBVIOUS
  <2>2. Item(s, F) < pblock /\ cblock[c] <= Item(s, F)
    BY <2>1, <1>0, <1>1, <1>2, <1>5 DEF PipelineInv, RingInv, FullInv
  <2>3. Item(s, F) + Stages <= pblock
    BY <2>2, <1>1, <1>2, ItemGap
  <2>4. QED
    BY <2>2, <2>3, <1>10, <1>5, <1>0, <1>2, StagesAssumption
<1>12. NextToLand(s) = pblock
  <2>1. pblock <= Item(s, F) /\ Item(s, F) < pblock + Stages
    BY <1>11, <1>0, <1>1, <1>2 DEF PipelineInv, RingInv, FullInv
  <2>2. ~(pblock < Item(s, F))
    BY <2>1, <1>0, <1>1, <1>2, ItemGap, StagesAssumption
  <2>3. QED
    BY <2>1, <2>2, <1>0, <1>2
<1>13. QED
  BY <1>1, <1>2, <1>3, <1>9, <1>10, <1>11, <1>12

LEMMA PipelineAcquires ==
    ASSUME PipelineInv, ProducerAcquire
    PROVE  PipelineInv'
<1> DEFINE s == SlotOf(pblock)
<1>1. /\ pblock \in Nat /\ s \in Slots /\ pblock < NumRingBlocks
      /\ Acquired = pblock /\ Acquired' = pblock + 1 /\ pstep' = "load"
      /\ cblock \in [Consumers -> Nat]
  BY ItemOfBlock, NumRingBlocksAssumption
  DEF PipelineInv, RingTypeOK, ProducerAcquire, Acquired
<1>2. /\ Index(pstate) = s /\ NextToRelease(s) = pblock /\ NextToLand(s) = pblock
      /\ ~Armed(s) /\ \A c \in Consumers : pblock < cblock[c] + Stages
  BY AcquireIsSafe
<1>3. full' = [full EXCEPT ![s] = [phase |-> full[s].phase, pending |-> 0, tx |-> 1]]
  <2>1. full[s] = [phase |-> full[s].phase, pending |-> 1, tx |-> 0]
    BY <1>1, <1>2, SlotTypes DEF PipelineInv
  <2>2. ArriveExpectTx(full[s], 1, 1)
          = [phase |-> full[s].phase, pending |-> 0, tx |-> 1]
    BY <2>1, <1>1, SlotTypes, RingBarriers DEF PipelineInv
  <2>3. QED
    BY <1>2, <2>2 DEF ProducerAcquire
<1>4. full[s].phase \in Nat /\ full \in [Slots -> MbarType(1)]
  BY <1>1, SlotTypes DEF PipelineInv, RingTypeOK
<1>5. \A t \in Slots : /\ NextToLand(t)' = NextToLand(t)
                       /\ NextToRelease(t)' = NextToRelease(t)
                       /\ Unreleased(t)' = Unreleased(t)
                       /\ NextToLand(t) \in Nat /\ NextToRelease(t) \in Nat
  <2>1. \A t \in Slots : full'[t].phase = full[t].phase
    BY <1>3, <1>4
  <2>2. empty' = empty /\ cblock' = cblock
    BY DEF ProducerAcquire
  <2>3. QED
    BY <2>1, <2>2, SlotTypes DEF NextToLand, NextToRelease, Unreleased, PipelineInv
<1>6. /\ full'[s].tx = 1
      /\ \A t \in Slots : t # s => full'[t].tx = full[t].tx
  BY <1>1, <1>3, <1>4
<1>7. \A t \in Slots \ {s} : /\ pblock # NextToLand(t)
                             /\ pblock # NextToLand(t) + Stages
                             /\ pblock # NextToRelease(t) + Stages
  <2>1. RoundOf(pblock) \in Nat /\ pblock = Item(s, RoundOf(pblock))
    BY <1>1, ItemOfBlock
  <2>2. QED
    BY <2>1, <1>1, SlotTypes, ItemSlot DEF NextToLand, NextToRelease, PipelineInv
<1>8. RingTypeOK'
  <2>1. full' \in [Slots -> MbarType(1)]
    BY <1>1, <1>3, <1>4 DEF MbarType
  <2>2. QED
    BY <2>1, <1>1 DEF PipelineInv, RingTypeOK, ProducerAcquire
<1>9. StateInv'
  BY DEF PipelineInv, RingInv, StateInv, ProducerAcquire
<1>10. WindowInv'
  <2>1. \A c \in Consumers : pblock + 1 <= cblock[c] + Stages
    BY <1>1, <1>2, StagesAssumption
  <2>2. QED
    BY <2>1, <1>1, <1>6 DEF PipelineInv, RingInv, WindowInv, Armed, ProducerAcquire
<1>11. FullInv'
  <2> SUFFICES ASSUME NEW t \in Slots
               PROVE  /\ \A c \in Consumers : cblock[c] <= NextToLand(t)
                      /\ full'[t].tx = 1 => /\ NextToLand(t) < pblock + 1
                                            /\ pblock + 1 <= NextToLand(t) + Stages
                      /\ full'[t].tx # 1 => /\ pblock + 1 <= NextToLand(t)
                                            /\ NextToLand(t) < pblock + 1 + Stages
    BY <1>1, <1>5 DEF FullInv, Armed, ProducerAcquire
  <2>1. CASE t = s
    BY <2>1, <1>1, <1>2, <1>6, StagesAssumption DEF PipelineInv, RingInv, FullInv, Armed
  <2>2. CASE t # s
    BY <2>2, <1>1, <1>5, <1>6, <1>7, StagesAssumption DEF PipelineInv, RingInv, FullInv, Armed
  <2>3. QED
    BY <2>1, <2>2
<1>12. EmptyInv'
  <2> SUFFICES ASSUME NEW t \in Slots
               PROVE  /\ \A c \in Consumers : NextToRelease(t) < cblock[c] + Stages
                      /\ pblock + 1 <= NextToRelease(t) + Stages
                      /\ empty[t].pending = Cardinality(Unreleased(t))
    BY <1>1, <1>5 DEF EmptyInv, ProducerAcquire
  <2>1. CASE t = s
    BY <2>1, <1>1, <1>2, StagesAssumption DEF PipelineInv, RingInv, EmptyInv
  <2>2. CASE t # s
    BY <2>2, <1>1, <1>5, <1>7, StagesAssumption DEF PipelineInv, RingInv, EmptyInv
  <2>3. QED
    BY <2>1, <2>2
<1>13. InflightInv'
  BY <1>2, <1>5, <1>6 DEF PipelineInv, RingTypeOK, RingInv, InflightInv, Armed, ProducerAcquire
<1>14. ContentInv'
  BY <1>3, <1>4, <1>5, <1>6 DEF PipelineInv, RingInv, ContentInv, Armed, ProducerAcquire
<1>15. ReadInv'
  <2>1. \A c \in Consumers : SlotOf(cblock[c]) \in Slots
    BY <1>1, ItemOfBlock
  <2>2. QED
    BY <2>1, <1>5 DEF PipelineInv, RingInv, ReadInv, ProducerAcquire
<1>16. QED
  BY <1>8, <1>9, <1>10, <1>11, <1>12, <1>13, <1>14, <1>15 DEF PipelineInv, RingInv

LEMMA PipelineLoads ==
    ASSUME PipelineInv, ProducerLoad
    PROVE  PipelineInv'
<1> DEFINE s == SlotOf(pblock)
           F == full[s].phase
<1>1. /\ pblock \in Nat /\ s \in Slots /\ pblock < NumRingBlocks /\ Armed(s)
      /\ Acquired = pblock + 1 /\ Acquired' = pblock + 1
      /\ pblock' = pblock + 1 /\ pstep' = "acquire"
      /\ cblock \in [Consumers -> Nat]
  BY ItemOfBlock, NumRingBlocksAssumption
  DEF PipelineInv, RingTypeOK, RingInv, WindowInv, ProducerLoad, Acquired
<1>2. Index(pstate) = s /\ Advance(pstate) = ProducerStateOf(pblock + 1)
  BY <1>1, ProducerIndexPhase DEF PipelineInv, RingInv, StateInv
<1>3. NextToLand(s) = pblock
  <2>1. NextToLand(s) \in Nat /\ F \in Nat /\ NextToLand(s) = Item(s, F)
    BY <1>1, SlotTypes DEF PipelineInv, NextToLand
  <2>2. RoundOf(pblock) \in Nat /\ pblock = Item(s, RoundOf(pblock))
    BY <1>1, ItemOfBlock
  <2>3. Item(s, F) < pblock + 1 /\ pblock + 1 <= Item(s, F) + Stages
    BY <1>1, <2>1 DEF PipelineInv, RingInv, FullInv
  <2>4. ~(Item(s, F) < pblock)
    BY <2>1, <2>2, <2>3, ItemGap, <1>1, StagesAssumption
  <2>5. QED
    BY <2>1, <2>3, <2>4, <1>1
<1>4. /\ \A t \in Slots : /\ NextToLand(t)' = NextToLand(t)
                          /\ NextToRelease(t)' = NextToRelease(t)
                          /\ Unreleased(t)' = Unreleased(t)
      /\ full' = full /\ empty' = empty /\ slot' = slot
      /\ cblock' = cblock /\ cstate' = cstate /\ cstep' = cstep
  BY DEF ProducerLoad, NextToLand, NextToRelease, Unreleased
<1>5. inflight' = inflight \union {[slot |-> s, block |-> pblock]}
  BY <1>2 DEF ProducerLoad
<1>6. RingTypeOK'
  <2>1. pstate' \in Nat
    BY <1>1, <1>2, ProducerIndexPhase DEF ProducerLoad
  <2>2. inflight' \subseteq [slot : Slots, block : RingBlocks]
    BY <1>1, <1>5, NumRingBlocksAssumption DEF PipelineInv, RingTypeOK, RingBlocks
  <2>3. pblock' \in 0 .. NumRingBlocks
    BY <1>1, NumRingBlocksAssumption
  <2>4. QED
    BY <2>1, <2>2, <2>3, <1>1, <1>4 DEF PipelineInv, RingTypeOK
<1>7. StateInv'
  BY <1>1, <1>2, <1>4 DEF PipelineInv, RingInv, StateInv, ProducerLoad
<1>8. WindowInv'
  BY <1>1, <1>4 DEF PipelineInv, RingInv, WindowInv
<1>9. FullInv'
  BY <1>1, <1>4 DEF PipelineInv, RingInv, FullInv, Armed
<1>10. EmptyInv'
  BY <1>1, <1>4 DEF PipelineInv, RingInv, EmptyInv
<1>11. InflightInv'
  <2> SUFFICES ASSUME NEW load \in inflight'
               PROVE  /\ full[load.slot].tx = 1
                      /\ load.block = NextToLand(load.slot)
                      /\ load.slot \in Slots
                      /\ load.block < pblock + 1
    BY <1>1, <1>4 DEF InflightInv, Armed
  <2>1. CASE load \in inflight
    BY <2>1, <1>1 DEF PipelineInv, RingTypeOK, RingInv, InflightInv, Armed, RingBlocks
  <2>2. CASE load = [slot |-> s, block |-> pblock]
    BY <2>2, <1>1, <1>3 DEF Armed
  <2>3. QED
    BY <2>1, <2>2, <1>5
<1>12. ContentInv'
  BY <1>4 DEF PipelineInv, RingInv, ContentInv, Armed
<1>13. ReadInv'
  <2>1. \A c \in Consumers : SlotOf(cblock[c]) \in Slots
    BY <1>1, ItemOfBlock
  <2>2. QED
    BY <2>1, <1>1, <1>4 DEF PipelineInv, RingInv, ReadInv
<1>14. QED
  BY <1>6, <1>7, <1>8, <1>9, <1>10, <1>11, <1>12, <1>13 DEF PipelineInv, RingInv

(* A landing moves its slot on by one lap; no other load is under way into *)
(* that slot.                                                              *)
LEMMA PipelineCompletes ==
    ASSUME PipelineInv, NEW load \in inflight, TmaComplete(load)
    PROVE  PipelineInv'
<1> DEFINE s == load.slot
<1>1. /\ load \in [slot : Slots, block : RingBlocks] /\ s \in Slots
      /\ Armed(s) /\ load.block = NextToLand(s) /\ load.block < pblock
  BY DEF PipelineInv, RingTypeOK, RingInv, InflightInv
<1>2. full' = [full EXCEPT ![s] = [phase |-> full[s].phase + 1, pending |-> 1, tx |-> 0]]
  BY <1>1, SlotTypes, RingBarriers DEF PipelineInv, TmaComplete
<1>3. /\ full[s].phase \in Nat /\ full \in [Slots -> MbarType(1)]
      /\ pblock \in Nat /\ Acquired \in Nat /\ Acquired' = Acquired
      /\ cblock \in [Consumers -> Nat]
  BY <1>1, SlotTypes, NumRingBlocksAssumption
  DEF PipelineInv, RingTypeOK, TmaComplete, Acquired
<1>4. /\ slot' = [slot EXCEPT ![s] = load.block] /\ inflight' = inflight \ {load}
      /\ pblock' = pblock /\ pstate' = pstate /\ pstep' = pstep /\ empty' = empty
      /\ cblock' = cblock /\ cstate' = cstate /\ cstep' = cstep
  BY DEF TmaComplete
<1>5. \A t \in Slots : /\ NextToRelease(t)' = NextToRelease(t)
                       /\ Unreleased(t)' = Unreleased(t)
                       /\ NextToLand(t) \in Nat
  BY <1>4, SlotTypes DEF NextToRelease, Unreleased, PipelineInv
<1>6. /\ full'[s].tx = 0 /\ full'[s].phase = full[s].phase + 1
      /\ NextToLand(s)' = NextToLand(s) + Stages
  <2>1. full'[s].tx = 0 /\ full'[s].phase = full[s].phase + 1
    BY <1>1, <1>2, <1>3
  <2>2. QED
    BY <2>1, <1>1, <1>3, ItemType DEF NextToLand
<1>7. \A t \in Slots : t # s =>
          full'[t] = full[t] /\ slot'[t] = slot[t] /\ NextToLand(t)' = NextToLand(t)
  BY <1>1, <1>2, <1>3, <1>4 DEF NextToLand, PipelineInv, RingTypeOK
<1>8. RingTypeOK'
  <2>1. full' \in [Slots -> MbarType(1)]
    BY <1>1, <1>2, <1>3 DEF MbarType
  <2>2. slot' \in [Slots -> RingBlocks \union {Nothing}]
    BY <1>1, <1>4 DEF PipelineInv, RingTypeOK
  <2>3. inflight' \subseteq [slot : Slots, block : RingBlocks]
    BY <1>4 DEF PipelineInv, RingTypeOK
  <2>4. QED
    BY <2>1, <2>2, <2>3, <1>4 DEF PipelineInv, RingTypeOK
<1>9. StateInv'
  BY <1>4 DEF PipelineInv, RingInv, StateInv
<1>10. WindowInv'
  <2>1. pstep = "load" => s # SlotOf(pblock)
    <3>1. SUFFICES ASSUME pstep = "load", s = SlotOf(pblock) PROVE FALSE
      OBVIOUS
    <3>2. Acquired = pblock + 1 /\ pblock + 1 <= NextToLand(s) + Stages
      BY <3>1, <1>1 DEF Acquired, PipelineInv, RingInv, FullInv
    <3>3. PICK k \in Nat : NextToLand(s) = Item(s, k)
      BY <1>3 DEF NextToLand
    <3>4. RoundOf(pblock) \in Nat /\ pblock = Item(s, RoundOf(pblock))
      BY <3>1, <1>3, ItemOfBlock
    <3>5. NextToLand(s) + Stages <= pblock
      BY <3>3, <3>4, <1>1, ItemGap
    <3>6. QED
      BY <3>2, <3>5, <1>1, <1>3, <1>5, StagesAssumption
  <2>2. pstep = "load" => SlotOf(pblock) \in Slots
    BY <1>3, ItemOfBlock
  <2>3. QED
    BY <2>1, <2>2, <1>3, <1>4, <1>7 DEF PipelineInv, RingInv, WindowInv, Armed
<1>11. FullInv'
  <2> SUFFICES ASSUME NEW t \in Slots
               PROVE  /\ \A c \in Consumers : cblock[c] <= NextToLand(t)'
                      /\ full'[t].tx = 1 => /\ NextToLand(t)' < Acquired
                                            /\ Acquired <= NextToLand(t)' + Stages
                      /\ full'[t].tx # 1 => /\ Acquired <= NextToLand(t)'
                                            /\ NextToLand(t)' < Acquired + Stages
    BY <1>3, <1>4 DEF FullInv, Armed
  <2>1. CASE t = s
    <3>1. /\ \A c \in Consumers : cblock[c] <= NextToLand(s)
          /\ NextToLand(s) < Acquired /\ Acquired <= NextToLand(s) + Stages
      BY <1>1 DEF PipelineInv, RingInv, FullInv
    <3>2. /\ \A c \in Consumers : cblock[c] <= NextToLand(s)'
          /\ full'[s].tx # 1 /\ Acquired <= NextToLand(s)'
          /\ NextToLand(s)' < Acquired + Stages
      BY <3>1, <1>1, <1>3, <1>5, <1>6, StagesAssumption
    <3>3. QED
      BY <2>1, <3>2
  <2>2. CASE t # s
    BY <2>2, <1>7 DEF PipelineInv, RingInv, FullInv, Armed
  <2>3. QED
    BY <2>1, <2>2
<1>12. EmptyInv'
  BY <1>3, <1>4, <1>5 DEF PipelineInv, RingInv, EmptyInv
<1>13. InflightInv'
  <2> SUFFICES ASSUME NEW other \in inflight, other # load
               PROVE  /\ full'[other.slot].tx = 1
                      /\ other.block = NextToLand(other.slot)'
                      /\ other.block < pblock
    BY <1>4 DEF InflightInv, Armed
  <2>1. /\ other \in [slot : Slots, block : RingBlocks] /\ full[other.slot].tx = 1
        /\ other.block = NextToLand(other.slot) /\ other.block < pblock
    BY DEF PipelineInv, RingTypeOK, RingInv, InflightInv, Armed
  <2>2. other.slot # s
    BY <2>1, <1>1
  <2>3. QED
    BY <2>1, <2>2, <1>7
<1>14. ContentInv'
  <2> SUFFICES ASSUME NEW t \in Slots, full'[t].tx # 1, full'[t].phase > 0
               PROVE  slot'[t] = NextToLand(t)' - Stages
    BY DEF ContentInv, Armed
  <2>1. CASE t = s
    <3>1. slot'[s] = NextToLand(s)
      BY <1>1, <1>4 DEF PipelineInv, RingTypeOK
    <3>2. slot'[s] = NextToLand(s)' - Stages
      BY <3>1, <1>1, <1>5, <1>6, StagesAssumption
    <3>3. QED
      BY <2>1, <3>2
  <2>2. CASE t # s
    BY <2>2, <1>7 DEF PipelineInv, RingInv, ContentInv, Armed
  <2>3. QED
    BY <2>1, <2>2
<1>15. ReadInv'
  <2> SUFFICES ASSUME NEW c \in Consumers, cstep[c] = "read",
                      NEW t \in Slots, t = SlotOf(cblock[c])
               PROVE  cblock[c] < pblock /\ cblock[c] < NextToLand(t)'
    BY <1>3, <1>4, ItemOfBlock DEF ReadInv, NextToLand
  <2>1. /\ cblock[c] < pblock /\ cblock[c] < NextToLand(t) /\ cblock[c] \in Nat
    BY <1>3 DEF PipelineInv, RingInv, ReadInv
  <2>2. CASE t = s
    <3>1. cblock[c] < NextToLand(s)'
      BY <2>1, <2>2, <1>1, <1>5, <1>6, StagesAssumption
    <3>2. QED
      BY <2>1, <2>2, <3>1
  <2>3. CASE t # s
    BY <2>1, <2>3, <1>7
  <2>4. QED
    BY <2>2, <2>3
<1>16. QED
  BY <1>8, <1>9, <1>10, <1>11, <1>12, <1>13, <1>14, <1>15 DEF PipelineInv, RingInv

(* The parity consumer_wait sees is the one of the lap that has just       *)
(* landed: one lap earlier the parity differs, two laps apart cannot be.   *)
LEMMA WaitIsSafe ==
    ASSUME PipelineInv, NEW c \in Consumers, ConsumerWait(c)
    PROVE  /\ cblock[c] < pblock
           /\ cblock[c] < NextToLand(SlotOf(cblock[c]))
<1> DEFINE b == cblock[c]
           s == SlotOf(b)
           r == RoundOf(b)
           F == full[s].phase
<1>1. b \in Nat /\ s \in Slots /\ r \in Nat /\ b = Item(s, r) /\ pblock \in Nat
  BY ItemOfBlock, NumRingBlocksAssumption DEF PipelineInv, RingTypeOK
<1>2. F \in Nat /\ NextToLand(s) = Item(s, F) /\ NextToLand(s) \in Nat
  BY <1>1, SlotTypes DEF PipelineInv, NextToLand
<1>3. /\ b <= pblock /\ Acquired <= b + Stages /\ b <= NextToLand(s)
      /\ Armed(s) => NextToLand(s) < Acquired
      /\ ~Armed(s) => NextToLand(s) < Acquired + Stages
  BY <1>1 DEF PipelineInv, RingInv, WindowInv, FullInv
<1>4. Acquired = IF pstep = "load" THEN pblock + 1 ELSE pblock
  BY DEF Acquired
<1>5. r + 1 \in Nat /\ r + 2 \in Nat /\ Item(s, r + 1) = b + Stages
      /\ Item(s, r + 2) = b + Stages + Stages
  <2>1. r + 1 \in Nat /\ r + 2 \in Nat /\ r + 2 = (r + 1) + 1
    BY <1>1
  <2>2. Item(s, r + 1) = Item(s, r) + Stages
    BY <1>1, ItemType
  <2>3. Item(s, (r + 1) + 1) = Item(s, r + 1) + Stages
    BY <1>1, <2>1, ItemType
  <2>4. QED
    BY <2>1, <2>2, <2>3, <1>1
<1>6. F = r \/ F = r + 1
  <2>1. ~(F < r)
    BY <1>1, <1>2, <1>3, ItemGap
  <2>2. Item(s, F) < Item(s, r + 2)
    BY <1>1, <1>2, <1>3, <1>4, <1>5, StagesAssumption
  <2>3. F < r + 2
    BY <2>2, <1>1, <1>2, <1>5, ItemGap
  <2>4. QED
    BY <2>1, <2>3, <1>1, <1>2
<1>7. F % 2 # r % 2
  <2>1. cstate[c] = ConsumerStateOf(b)
    BY DEF PipelineInv, RingInv, StateInv
  <2>2. QED
    BY <2>1, <1>1, ConsumerIndexPhase DEF ConsumerWait, Passed
<1>8. NextToLand(s) = b + Stages
  BY <1>2, <1>5, <1>6, <1>7
<1>9. b < pblock
  <2>1. b # pblock
    <3>1. SUFFICES ASSUME b = pblock PROVE FALSE
      OBVIOUS
    <3>2. CASE pstep = "load"
      <4>1. Armed(s)
        BY <3>1, <3>2 DEF PipelineInv, RingInv, WindowInv
      <4>2. b + Stages < b + 1
        BY <4>1, <3>1, <3>2, <1>3, <1>4, <1>8
      <4>3. QED
        BY <4>2, <1>1, StagesAssumption
    <3>3. CASE pstep # "load"
      <4>1. b + Stages < b + Stages
        BY <3>1, <3>3, <1>1, <1>3, <1>4, <1>8, StagesAssumption
      <4>2. QED
        BY <4>1, <1>1, StagesAssumption
    <3>4. QED
      BY <3>2, <3>3
  <2>2. QED
    BY <2>1, <1>1, <1>3
<1>10. QED
  BY <1>1, <1>8, <1>9, StagesAssumption

LEMMA PipelineWaits ==
    ASSUME PipelineInv, NEW c \in Consumers, ConsumerWait(c)
    PROVE  PipelineInv'
<1>1. /\ UNCHANGED <<pblock, pstate, pstep, full, empty, inflight, slot, cblock, cstate>>
      /\ cstep' = [cstep EXCEPT ![c] = "read"]
  BY DEF ConsumerWait
<1>2. RingTypeOK' /\ StateInv' /\ WindowInv'
  BY <1>1
  DEF PipelineInv, RingTypeOK, RingInv, StateInv, WindowInv, Acquired, Armed
<1>3. \A t \in Slots : /\ NextToLand(t)' = NextToLand(t) /\ Acquired' = Acquired
                       /\ NextToRelease(t)' = NextToRelease(t)
                       /\ Unreleased(t)' = Unreleased(t)
  BY <1>1 DEF NextToLand, NextToRelease, Unreleased, Acquired
<1>4. FullInv' /\ EmptyInv' /\ ContentInv'
  BY <1>1, <1>3
  DEF PipelineInv, RingInv, FullInv, EmptyInv, ContentInv, Armed
<1>5. InflightInv'
  BY <1>1, <1>3 DEF PipelineInv, RingTypeOK, RingInv, InflightInv, Armed
<1>6. ReadInv'
  <2>1. \A d \in Consumers : NextToLand(SlotOf(cblock[d]))' = NextToLand(SlotOf(cblock[d]))
    BY <1>1 DEF NextToLand
  <2>2. \A d \in Consumers : d # c => cstep'[d] = cstep[d]
    BY <1>1 DEF PipelineInv, RingTypeOK
  <2>3. QED
    BY <2>1, <2>2, <1>1, WaitIsSafe DEF PipelineInv, RingInv, ReadInv
<1>7. QED
  BY <1>2, <1>4, <1>5, <1>6 DEF PipelineInv, RingInv

(* A consumer releases the block its slot is waiting to get back; with the *)
(* last release the empty barrier moves on by one lap.                     *)
LEMMA PipelineReleases ==
    ASSUME PipelineInv, NEW c \in Consumers, ConsumerRelease(c)
    PROVE  PipelineInv'
<1> DEFINE b == cblock[c]
<1>s. PICK s \in Slots : s = SlotOf(b)
  BY ItemOfBlock DEF PipelineInv, RingTypeOK
<1> DEFINE E == empty[s].phase
           P == empty[s].pending
           U == Unreleased(s)
<1>1. /\ b \in Nat /\ s \in Slots /\ pblock \in Nat /\ Acquired \in Nat
      /\ cblock \in [Consumers -> 0 .. NumRingBlocks] /\ b < pblock /\ b < NextToLand(s)
      /\ pblock <= Acquired /\ pblock <= NumRingBlocks
      /\ cstate[c] = ConsumerStateOf(b)
  BY <1>s, NumRingBlocksAssumption
  DEF PipelineInv, RingTypeOK, RingInv, StateInv, ReadInv, ConsumerRelease, Acquired
<1>2. \A t \in Slots : /\ NextToRelease(t) \in Nat /\ NextToLand(t) \in Nat
  BY SlotTypes DEF PipelineInv
<1>0. /\ empty[s] = [phase |-> E, pending |-> P, tx |-> 0]
      /\ E \in Nat /\ P \in 1 .. NumConsumers /\ NumConsumers \in Nat \ {0}
      /\ P \in Nat /\ NumConsumers \in Nat
  BY <1>1, NumConsumersType DEF PipelineInv, RingTypeOK
<1>3. /\ Index(cstate[c]) = s /\ Advance(cstate[c]) = ConsumerStateOf(b + 1)
      /\ ConsumerStateOf(b + 1) \in Nat
  BY <1>s, <1>1, ConsumerIndexPhase
<1>4. /\ cblock' = [cblock EXCEPT ![c] = b + 1]
      /\ cstate' = [cstate EXCEPT ![c] = ConsumerStateOf(b + 1)]
      /\ cstep' = [cstep EXCEPT ![c] = "wait"]
      /\ empty' = [empty EXCEPT ![s] = Arrive(empty[s], NumConsumers)]
      /\ UNCHANGED <<pblock, pstate, pstep, full, inflight, slot>>
      /\ Acquired' = Acquired
  BY <1>3 DEF ConsumerRelease, Acquired
<1>5. /\ cblock'[c] = b + 1
      /\ \A d \in Consumers : d # c => cblock'[d] = cblock[d]
      /\ \A d \in Consumers : cblock[d] \in Nat /\ cblock'[d] \in Nat
  BY <1>1, <1>4
<1>6. NextToRelease(s) = b
  <2>1. RoundOf(b) \in Nat /\ b = Item(s, RoundOf(b))
    BY <1>s, <1>1, ItemOfBlock
  <2>2. NextToRelease(s) = Item(s, E)
    BY DEF NextToRelease
  <2>3. Item(s, E) < b + Stages /\ b < Item(s, E) + Stages
    BY <1>1, <1>2, <2>2, StagesAssumption DEF PipelineInv, RingInv, EmptyInv
  <2>4. /\ Item(s, RoundOf(b)) < Item(s, E)
              => Item(s, RoundOf(b)) + Stages <= Item(s, E)
        /\ Item(s, E) < Item(s, RoundOf(b))
              => Item(s, E) + Stages <= Item(s, RoundOf(b))
    BY <2>1, <1>0, ItemGap
  <2>5. QED
    BY <2>1, <2>2, <2>3, <2>4, <1>1, <1>2, StagesAssumption
<1>7. \A t \in Slots : t # s => b # NextToRelease(t) /\ b # NextToLand(t)
  <2>1. RoundOf(b) \in Nat /\ b = Item(s, RoundOf(b))
    BY <1>s, <1>1, ItemOfBlock
  <2>2. \A t \in Slots : full[t].phase \in Nat /\ empty[t].phase \in Nat
    BY SlotTypes DEF PipelineInv
  <2>3. QED
    BY <2>1, <2>2, <1>1, ItemSlot DEF NextToLand, NextToRelease
<1>8. {d \in Consumers : cblock'[d] <= b} = U \ {c}
  BY <1>1, <1>5, <1>6 DEF Unreleased
<1>9. IsFiniteSet(U) /\ c \in U /\ Cardinality(U) = P
  <2>1. IsFiniteSet(U)
    BY ConsumersAssumption, FS_Subset DEF Unreleased
  <2>2. QED
    BY <2>1, <1>1, <1>6 DEF Unreleased, PipelineInv, RingInv, EmptyInv
<1>10. Cardinality(U \ {c}) = P - 1
  BY <1>9, FS_RemoveElement
<1>11. /\ \A d \in Consumers : cblock'[d] <= pblock
       /\ \A d \in Consumers : Acquired <= cblock'[d] + Stages
  BY <1>1, <1>5, StagesAssumption DEF PipelineInv, RingInv, WindowInv
<1>12. \A t \in Slots : t # s => /\ empty'[t] = empty[t]
                                /\ NextToRelease(t)' = NextToRelease(t)
                                /\ Unreleased(t)' = Unreleased(t)
  <2> SUFFICES ASSUME NEW t \in Slots, t # s
               PROVE  /\ empty'[t] = empty[t]
                      /\ NextToRelease(t)' = NextToRelease(t)
                      /\ Unreleased(t)' = Unreleased(t)
    OBVIOUS
  <2>1. empty'[t] = empty[t]
    BY <1>4 DEF PipelineInv, RingTypeOK
  <2>2. NextToRelease(t)' = NextToRelease(t)
    BY <2>1 DEF NextToRelease
  <2>3. \A d \in Consumers : cblock'[d] <= NextToRelease(t) <=> cblock[d] <= NextToRelease(t)
    BY <1>1, <1>2, <1>5, <1>7
  <2>4. QED
    BY <2>1, <2>2, <2>3 DEF Unreleased
<1>13. /\ empty'[s] \in [phase : Nat, pending : 1 .. NumConsumers, tx : {0}]
       /\ \A d \in Consumers : NextToRelease(s)' < cblock'[d] + Stages
       /\ Acquired <= NextToRelease(s)' + Stages
       /\ empty'[s].pending = Cardinality(Unreleased(s)')
  <2>0. /\ empty'[s] = Arrive(empty[s], NumConsumers)
        /\ Acquired <= b + Stages
        /\ Unreleased(s)' = {d \in Consumers : cblock'[d] <= NextToRelease(s)'}
        /\ NextToRelease(s)' = Item(s, empty'[s].phase)
        /\ Item(s, E) = b
    BY <1>1, <1>4, <1>6
    DEF PipelineInv, RingTypeOK, RingInv, EmptyInv, Unreleased, NextToRelease
  <2>1. CASE P > 1
    <3>1. empty'[s] = [phase |-> E, pending |-> P - 1, tx |-> 0]
      <4>1. Arrive([phase |-> E, pending |-> P, tx |-> 0], NumConsumers)
              = [phase |-> E, pending |-> P - 1, tx |-> 0]
        <5> HIDE DEF E, P
        <5>1. QED
          BY <2>1, <1>0, RingBarriers
      <4>2. QED
        BY <4>1, <2>0, <1>0
    <3>2. NextToRelease(s)' = b
      BY <2>0, <3>1
    <3>3. Unreleased(s)' = U \ {c}
      BY <2>0, <3>2, <1>8
    <3>4. \A d \in Consumers : b < cblock'[d] + Stages
      BY <1>1, <1>5, <1>6, StagesAssumption DEF PipelineInv, RingInv, EmptyInv
    <3>5. empty'[s].pending = P - 1
      BY <3>1
    <3>6. empty'[s] \in [phase : Nat, pending : 1 .. NumConsumers, tx : {0}]
      BY <2>1, <3>1, <1>0
    <3>7. QED
      BY <2>0, <3>2, <3>3, <3>4, <3>5, <3>6, <1>10
  <2>2. CASE P = 1
    <3>1. empty'[s] = [phase |-> E + 1, pending |-> NumConsumers, tx |-> 0]
      <4>1. Arrive([phase |-> E, pending |-> 1, tx |-> 0], NumConsumers)
              = [phase |-> E + 1, pending |-> NumConsumers, tx |-> 0]
        BY <1>0, RingBarriers
      <4>2. QED
        BY <4>1, <2>0, <2>2, <1>0
    <3>2. NextToRelease(s)' = b + Stages
      BY <2>0, <3>1, <1>0, <1>1, ItemType
    <3>3. \A d \in Consumers : b < cblock'[d]
      <4>1. U \ {c} = {}
        <5>1. IsFiniteSet(U \ {c}) /\ Cardinality(U \ {c}) = 0
          BY <2>2, <1>9, <1>10, FS_RemoveElement
        <5>2. QED
          BY <5>1, FS_EmptySet
      <4>2. QED
        BY <4>1, <1>1, <1>5, <1>8
    <3>4. Unreleased(s)' = Consumers
      BY <2>0, <3>2, <1>1, <1>5, <1>11, StagesAssumption
    <3>5. empty'[s].pending = NumConsumers
      BY <3>1
    <3>6. empty'[s] \in [phase : Nat, pending : 1 .. NumConsumers, tx : {0}]
      BY <3>1, <1>0
    <3>7. /\ \A d \in Consumers : b + Stages < cblock'[d] + Stages
          /\ Acquired <= b + Stages + Stages
      BY <2>0, <3>3, <1>1, <1>5, StagesAssumption
    <3>8. QED
      BY <3>2, <3>4, <3>5, <3>6, <3>7 DEF NumConsumers
  <2>3. QED
    BY <2>1, <2>2, <1>0
<1>14. RingTypeOK'
  <2>1. empty' \in [Slots -> [phase : Nat, pending : 1 .. NumConsumers, tx : {0}]]
    BY <1>1, <1>4, <1>13 DEF PipelineInv, RingTypeOK
  <2>2. cblock' \in [Consumers -> 0 .. NumRingBlocks]
    BY <1>1, <1>4, NumRingBlocksAssumption
  <2>3. cstate' \in [Consumers -> Nat] /\ cstep' \in [Consumers -> {"wait", "read"}]
    BY <1>3, <1>4 DEF PipelineInv, RingTypeOK
  <2>4. QED
    BY <2>1, <2>2, <2>3, <1>4 DEF PipelineInv, RingTypeOK
<1>15. StateInv'
  BY <1>4, <1>5 DEF PipelineInv, RingTypeOK, RingInv, StateInv
<1>16. WindowInv'
  BY <1>4, <1>11 DEF PipelineInv, RingInv, WindowInv, Armed
<1>17. FullInv'
  <2>1. \A t \in Slots : \A d \in Consumers : cblock'[d] <= NextToLand(t)
    BY <1>1, <1>2, <1>5, <1>7 DEF PipelineInv, RingInv, FullInv
  <2>2. \A t \in Slots : NextToLand(t)' = NextToLand(t)
    BY <1>4 DEF NextToLand
  <2>3. QED
    BY <2>1, <2>2, <1>4 DEF PipelineInv, RingInv, FullInv, Armed
<1>18. EmptyInv'
  <2> SUFFICES ASSUME NEW t \in Slots
               PROVE  /\ \A d \in Consumers : NextToRelease(t)' < cblock'[d] + Stages
                      /\ Acquired <= NextToRelease(t)' + Stages
                      /\ empty'[t].pending = Cardinality(Unreleased(t)')
    BY <1>4 DEF EmptyInv
  <2>1. CASE t = s
    BY <2>1, <1>13
  <2>2. CASE t # s
    <3>1. /\ \A d \in Consumers : NextToRelease(t) < cblock[d] + Stages
          /\ Acquired <= NextToRelease(t) + Stages
          /\ empty[t].pending = Cardinality(Unreleased(t))
      BY DEF PipelineInv, RingInv, EmptyInv
    <3>2. \A d \in Consumers : NextToRelease(t) < cblock'[d] + Stages
      BY <3>1, <1>1, <1>2, <1>5, StagesAssumption
    <3>3. QED
      BY <2>2, <3>1, <3>2, <1>12
  <2>3. QED
    BY <2>1, <2>2
<1>19. InflightInv' /\ ContentInv'
  BY <1>4 DEF PipelineInv, RingInv, InflightInv, ContentInv, Armed, NextToLand
<1>20. ReadInv'
  <2>1. \A d \in Consumers : cstep'[d] = "read" => d # c /\ cstep[d] = "read"
    BY <1>4 DEF PipelineInv, RingTypeOK
  <2>2. QED
    BY <2>1, <1>4, <1>5 DEF PipelineInv, RingInv, ReadInv, NextToLand
<1>21. QED
  BY <1>14, <1>15, <1>16, <1>17, <1>18, <1>19, <1>20 DEF PipelineInv, RingInv

LEMMA PipelineSteps == PipelineInv /\ [RingNext]_ringVars => PipelineInv'
<1> SUFFICES ASSUME PipelineInv, [RingNext]_ringVars PROVE PipelineInv'
  OBVIOUS
<1>1. CASE ProducerAcquire
  BY <1>1, PipelineAcquires
<1>2. CASE ProducerLoad
  BY <1>2, PipelineLoads
<1>3. ASSUME NEW load \in inflight, TmaComplete(load) PROVE PipelineInv'
  BY <1>3, PipelineCompletes
<1>4. ASSUME NEW c \in Consumers, ConsumerWait(c) PROVE PipelineInv'
  BY <1>4, PipelineWaits
<1>5. ASSUME NEW c \in Consumers, ConsumerRelease(c) PROVE PipelineInv'
  BY <1>5, PipelineReleases
<1>6. CASE UNCHANGED ringVars
  <2> USE <1>6 DEF ringVars, Armed, Acquired, NextToLand, NextToRelease
  <2>1. RingTypeOK'
    BY DEF PipelineInv, RingTypeOK
  <2>2. StateInv' /\ WindowInv'
    BY DEF PipelineInv, RingInv, StateInv, WindowInv
  <2>3. FullInv'
    BY DEF PipelineInv, RingInv, FullInv
  <2>4. EmptyInv'
    BY DEF PipelineInv, RingInv, EmptyInv, Unreleased
  <2>5. InflightInv' /\ ContentInv'
    BY DEF PipelineInv, RingInv, InflightInv, ContentInv
  <2>6. ReadInv'
    BY DEF PipelineInv, RingInv, ReadInv
  <2>7. QED
    BY <2>1, <2>2, <2>3, <2>4, <2>5, <2>6 DEF PipelineInv, RingInv
<1>7. QED
  BY <1>1, <1>2, <1>3, <1>4, <1>5, <1>6 DEF RingNext

LEMMA PipelineHolds == RingSpec => []PipelineInv
BY PipelineStarts, PipelineSteps, PTL DEF RingSpec

(* No barrier of the ring ever sees an arrival too many, whatever the      *)
(* number of stages, of consumer warps and of blocks.                      *)
THEOREM RingTypeCorrect == RingSpec => []RingTypeOK
BY PipelineHolds, PTL DEF PipelineInv

(* The laps, barriers and slots are always related as RingInv says.        *)
THEOREM RingInvariant == RingSpec => []RingInv
BY PipelineHolds, PTL DEF PipelineInv

(* A consumer that consumer_wait let through reads the block it is at: one *)
(* parity bit is enough for any number of laps.                            *)
THEOREM ReadsCorrectBlock == RingSpec => []ReadsItsBlock
<1>1. PipelineInv => ReadsItsBlock
  <2> SUFFICES ASSUME PipelineInv, NEW c \in Consumers, cstep[c] = "read"
               PROVE  slot[Index(cstate[c])] = cblock[c]
    BY DEF ReadsItsBlock
  <2> DEFINE b == cblock[c]
             s == SlotOf(b)
             r == RoundOf(b)
             F == full[s].phase
  <2>1. b \in Nat /\ s \in Slots /\ r \in Nat /\ b = Item(s, r) /\ pblock \in Nat
    BY ItemOfBlock, NumRingBlocksAssumption DEF PipelineInv, RingTypeOK
  <2>2. F \in Nat /\ NextToLand(s) = Item(s, F) /\ NextToLand(s) \in Nat
    BY <2>1, SlotTypes DEF PipelineInv, NextToLand
  <2>3. Index(cstate[c]) = s
    BY <2>1, ConsumerIndexPhase DEF PipelineInv, RingInv, StateInv
  <2>4. /\ b < NextToLand(s) /\ b < pblock /\ Acquired <= b + Stages
        /\ Armed(s) => NextToLand(s) < Acquired
        /\ ~Armed(s) => NextToLand(s) < Acquired + Stages
    BY <2>1 DEF PipelineInv, RingInv, ReadInv, WindowInv, FullInv
  <2>5. b + Stages <= NextToLand(s)
    BY <2>1, <2>2, <2>4, ItemGap
  <2>6. ~Armed(s)
    <3>1. SUFFICES ASSUME Armed(s) PROVE FALSE
      OBVIOUS
    <3>2. Acquired \in Nat
      BY <2>1 DEF Acquired
    <3>3. QED
      BY <3>1, <3>2, <2>1, <2>2, <2>4, <2>5, StagesAssumption
  <2>7. NextToLand(s) = b + Stages
    <3>1. Item(s, r + 1) = b + Stages /\ Item(s, (r + 1) + 1) = b + Stages + Stages
      BY <2>1, ItemType
    <3>2. r + 1 \in Nat /\ (r + 1) + 1 \in Nat /\ Acquired \in Nat
      BY <2>1 DEF Acquired
    <3>3. Item(s, F) < Item(s, (r + 1) + 1)
      BY <3>1, <3>2, <2>1, <2>2, <2>4, <2>6, StagesAssumption
    <3>4. F < (r + 1) + 1
      BY <3>2, <3>3, <2>1, <2>2, ItemGap
    <3>5. r < F
      BY <2>1, <2>2, <2>4, ItemGap
    <3>6. F = r + 1
      BY <3>4, <3>5, <2>1, <2>2
    <3>7. QED
      BY <3>1, <3>6, <2>2
  <2>8. F > 0
    <3>1. r < F
      BY <2>1, <2>2, <2>4, ItemGap
    <3>2. QED
      BY <3>1, <2>1, <2>2
  <2>9. slot[s] = NextToLand(s) - Stages
    BY <2>1, <2>6, <2>8 DEF PipelineInv, RingInv, ContentInv
  <2>10. QED
    BY <2>1, <2>3, <2>7, <2>9, StagesAssumption
<1>2. QED
  BY <1>1, PipelineHolds, PTL

(* The producer never has a TMA write under way into a slot a consumer is  *)
(* reading.                                                                *)
THEOREM NeverOverwritesReader == RingSpec => []NoOverwriteWhileRead
<1>1. PipelineInv => NoOverwriteWhileRead
  <2> SUFFICES ASSUME PipelineInv, NEW c \in Consumers, NEW load \in inflight,
                      cstep[c] = "read", load.slot = Index(cstate[c])
               PROVE  FALSE
    BY DEF NoOverwriteWhileRead
  <2> DEFINE b == cblock[c]
             s == SlotOf(b)
             F == full[s].phase
  <2>1. /\ b \in Nat /\ s \in Slots /\ pblock \in Nat /\ Acquired \in Nat
        /\ RoundOf(b) \in Nat /\ b = Item(s, RoundOf(b))
    BY ItemOfBlock, NumRingBlocksAssumption DEF PipelineInv, RingTypeOK, Acquired
  <2>2. F \in Nat /\ NextToLand(s) = Item(s, F) /\ NextToLand(s) \in Nat
    BY <2>1, SlotTypes DEF PipelineInv, NextToLand
  <2>3. load.slot = s
    BY <2>1, ConsumerIndexPhase DEF PipelineInv, RingInv, StateInv
  <2>4. Armed(s)
    BY <2>3 DEF PipelineInv, RingInv, InflightInv
  <2>5. b < NextToLand(s) /\ NextToLand(s) < Acquired /\ Acquired <= b + Stages
    BY <2>1, <2>4 DEF PipelineInv, RingInv, FullInv, ReadInv, WindowInv
  <2>6. b + Stages <= NextToLand(s)
    BY <2>1, <2>2, <2>5, ItemGap
  <2>7. QED
    BY <2>1, <2>2, <2>5, <2>6, StagesAssumption
<1>2. QED
  BY <1>1, PipelineHolds, PTL
-----------------------------------------------------------------------------
(* Refinement: barriers, laps and parities disappear, a landing is Land, a *)
(* release is Take, everything else stutters.                              *)
Record(b) == [slot |-> b % Stages, block |-> b]

LEMMA LoadRecord ==
    ASSUME PipelineInv, NEW load \in inflight
    PROVE  /\ load.block \in Nat /\ load.block < NumRingBlocks /\ load.block < pblock
           /\ load = Record(load.block)
           /\ \A c \in Consumers : load.block < cblock[c] + Stages
<1> DEFINE s == load.slot
           F == full[s].phase
<1>1. /\ load \in [slot : Slots, block : RingBlocks] /\ s \in Slots
      /\ Armed(s) /\ load.block = NextToLand(s) /\ load.block < pblock
  BY DEF PipelineInv, RingTypeOK, RingInv, InflightInv
<1>2. load.block \in Nat /\ load.block < NumRingBlocks /\ F \in Nat /\ load.block = Item(s, F)
  <2>1. load.block \in Nat /\ load.block < NumRingBlocks
    BY <1>1, NumRingBlocksAssumption DEF RingBlocks
  <2>2. F \in Nat
    BY <1>1, SlotTypes DEF PipelineInv
  <2>3. QED
    BY <2>1, <2>2, <1>1 DEF NextToLand
<1>3. Item(s, F) % Stages = s
  BY <1>1, <1>2, ItemMod
<1>4. load = Record(load.block)
  BY <1>1, <1>2, <1>3 DEF Record
<1>5. Acquired \in Nat /\ cblock \in [Consumers -> Nat]
  BY NumRingBlocksAssumption DEF PipelineInv, RingTypeOK, Acquired
<1>6. \A c \in Consumers : load.block < cblock[c] + Stages
  <2>1. load.block < Acquired
    BY <1>1 DEF PipelineInv, RingInv, FullInv
  <2>2. \A c \in Consumers : Acquired <= cblock[c] + Stages
    BY DEF PipelineInv, RingInv, WindowInv
  <2>3. QED
    BY <2>1, <2>2, <1>2, <1>5, StagesAssumption
<1>7. QED
  BY <1>1, <1>2, <1>4, <1>6

LEMMA LoadStutters == PipelineInv /\ ProducerLoad => UNCHANGED <<Landed, cblock>>
<1> SUFFICES ASSUME PipelineInv, ProducerLoad PROVE Landed' = Landed
  BY DEF ProducerLoad
<1>1. pblock \in Nat
  BY NumRingBlocksAssumption DEF PipelineInv, RingTypeOK
<1>2. Index(pstate) = pblock % Stages
  BY <1>1, ProducerIndexPhase DEF PipelineInv, RingInv, StateInv, SlotOf
<1>3. inflight' = inflight \union {Record(pblock)} /\ pblock' = pblock + 1
  BY <1>2 DEF ProducerLoad, Record
<1>4. \A b : b \in 0 .. pblock <=> b \in 0 .. pblock - 1 \/ b = pblock
  BY <1>1
<1>5. \A b : b \in 0 .. pblock - 1 => Record(b) # Record(pblock)
  BY <1>1 DEF Record
<1>6. Landed = {b \in 0 .. pblock - 1 : Record(b) \notin inflight}
  BY DEF Landed, Record
<1>7. Landed' = {b \in 0 .. pblock : Record(b) \notin inflight'}
  BY <1>1, <1>3 DEF Landed, Record
<1>8. QED
  BY <1>3, <1>4, <1>5, <1>6, <1>7

LEMMA CompleteLands ==
    ASSUME PipelineInv, NEW load \in inflight, TmaComplete(load)
    PROVE  Stream!Next
<1> DEFINE b == load.block
<1>1. /\ b \in Nat /\ b < NumRingBlocks /\ b < pblock /\ load = Record(b)
      /\ \A c \in Consumers : b < cblock[c] + Stages /\ pblock \in Nat
  BY LoadRecord, NumRingBlocksAssumption DEF PipelineInv, RingTypeOK
<1>2. Landed = {d \in 0 .. pblock - 1 : Record(d) \notin inflight}
  BY DEF Landed, Record
<1>3. Landed' = {d \in 0 .. pblock - 1 : Record(d) \notin inflight'}
  BY DEF Landed, Record, TmaComplete
<1>4. \A d : Record(d) = load <=> d = b
  BY <1>1 DEF Record
<1>5. inflight' = inflight \ {load} /\ cblock' = cblock
  BY DEF TmaComplete
<1>6. b \in 0 .. pblock - 1 /\ b \in 0 .. NumRingBlocks - 1
  BY <1>1, NumRingBlocksAssumption DEF PipelineInv, RingTypeOK
<1>7. b \notin Landed
  BY <1>2, <1>4
<1>8. Landed' = Landed \union {b}
  BY <1>2, <1>3, <1>4, <1>5, <1>6
<1>9. Stream!Land(b)
  BY <1>1, <1>5, <1>7, <1>8 DEF Stream!Land
<1>10. QED
  BY <1>6, <1>9 DEF Stream!Next

LEMMA ReleaseTakes ==
    ASSUME PipelineInv, NEW c \in Consumers, ConsumerRelease(c)
    PROVE  Stream!Next
<1> DEFINE b == cblock[c]
<1>1. /\ b \in Nat /\ b < pblock /\ b < NextToLand(SlotOf(b)) /\ pblock \in Nat
  BY NumRingBlocksAssumption DEF PipelineInv, RingTypeOK, RingInv, ReadInv, ConsumerRelease
<1>2. Record(b) \notin inflight
  <2>1. SUFFICES ASSUME Record(b) \in inflight PROVE FALSE
    OBVIOUS
  <2>2. b = NextToLand(SlotOf(b))
    BY <2>1 DEF PipelineInv, RingInv, InflightInv, Record, SlotOf
  <2>3. QED
    BY <2>2, <1>1
<1>3. b \in Landed
  BY <1>1, <1>2 DEF Landed, Record
<1>4. Landed' = Landed
  BY DEF Landed, ConsumerRelease
<1>5. Stream!Take(c)
  BY <1>3, <1>4 DEF Stream!Take, ConsumerRelease
<1>6. QED
  BY <1>5 DEF Stream!Next

(* The barriers, the parity bit and the order of landings implement the    *)
(* block stream: blocks land within Stages of the slowest consumer and are *)
(* taken in order after they landed.                                       *)
THEOREM PipelineImplementsStream == RingSpec => ImplementsStream
<1>1. RingInit => Stream!Init
  <2> SUFFICES ASSUME RingInit PROVE Stream!Init
    OBVIOUS
  <2>1. Landed = {}
    BY DEF RingInit, Landed
  <2>2. QED
    BY <2>1 DEF RingInit, Stream!Init
<1>2. PipelineInv /\ [RingNext]_ringVars => [Stream!Next]_(Stream!streamVars)
  <2> SUFFICES ASSUME PipelineInv, [RingNext]_ringVars
               PROVE  Stream!Next \/ UNCHANGED <<Landed, cblock>>
    BY DEF Stream!streamVars
  <2>1. CASE ProducerAcquire
    BY <2>1 DEF ProducerAcquire, Landed
  <2>2. CASE ProducerLoad
    BY <2>2, LoadStutters
  <2>3. ASSUME NEW load \in inflight, TmaComplete(load) PROVE Stream!Next
    BY <2>3, CompleteLands
  <2>4. ASSUME NEW c \in Consumers, ConsumerWait(c) PROVE UNCHANGED <<Landed, cblock>>
    BY <2>4 DEF ConsumerWait, Landed
  <2>5. ASSUME NEW c \in Consumers, ConsumerRelease(c) PROVE Stream!Next
    BY <2>5, ReleaseTakes
  <2>6. CASE UNCHANGED ringVars
    BY <2>6 DEF ringVars, Landed
  <2>7. QED
    BY <2>1, <2>2, <2>3, <2>4, <2>5, <2>6 DEF RingNext
<1>3. QED
  BY <1>1, <1>2, PipelineHolds, PTL DEF RingSpec, ImplementsStream, Stream!Spec
=============================================================================
