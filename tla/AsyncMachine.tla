---------------------------- MODULE AsyncMachine ----------------------------
(***************************************************************************)
(* The CTAs of a launch, run one after another: the warps or roles of a    *)
(* CTA go through their code (AsyncCode) in any interleaving, and the      *)
(* copies, loads and multiplications they started finish when they like.   *)
(*                                                                         *)
(* The landing of a cp.async is left to the wait that covers it, as in     *)
(* CpAsync: until then its buffer holds nothing one can rely on.           *)
(***************************************************************************)
EXTENDS AsyncCode, GpuBarriers, CpAsync

CONSTANTS
    Launches,   \* the launches considered: a problem and the CTAs that work on it
    Actors,     \* the warps and roles of all of them
    InOrder     \* the problems for which the groups of a warp are taken to write
                \* in the order they are committed in

VARIABLES
    problem, ctas,  \* the launch: what it is given, and its CTAs that have not ended
    pc,         \* the next instruction of every actor
    open,       \* the copies it has not committed yet
    queue,      \* its groups no wait has covered
    bar, mbar,  \* the barriers
    mem,        \* shared memory: what each part of a buffer holds
    flight,     \* the TMA loads under way
    jobs,       \* the asynchronous work of every actor that is not finished
    acc         \* what every actor has added to the results of the launch

vars == <<problem, ctas, pc, open, queue, bar, mbar, mem, flight, jobs, acc>>

-----------------------------------------------------------------------------
Now       == Head(ctas)
Team      == DOMAIN Now.code
Buffers   == DOMAIN Now.parts
Parts(b)  == Now.parts[b]
Code(a)   == Now.code[a]

Ended(a)   == pc[a] > Len(Code(a))
Blocked(a) == \E b \in DOMAIN bar : a \in bar[b].blocked
This(a)    == Code(a)[pc[a]]
At(a, op)  == a \in Team /\ ~Ended(a) /\ ~Blocked(a) /\ This(a).op = op
Step(a)    == pc' = [pc EXCEPT ![a] = @ + 1]

(* The named barriers and the state a CTA starts in. *)
BarsOf(c) == {"cta"} \union
    UNION {{c.code[a][i].bar : i \in {j \in DOMAIN c.code[a] :
              c.code[a][j].op = "sync"}} : a \in DOMAIN c.code}
FreshBars(c)  == [b \in BarsOf(c) |-> NoOne]
FreshMbars(c) == [b \in DOMAIN c.mbars |-> MbarInit(c.mbars[b])]
FreshMem(c)   == [b \in DOMAIN c.parts |-> [p \in c.parts[b] |-> Nothing]]
Each0(c, v)   == [a \in DOMAIN c.code |-> v]

Init ==
    /\ \E launch \in Launches : problem = launch.problem /\ ctas = launch.ctas
    /\ pc = Each0(Now, 1) /\ open = Each0(Now, {}) /\ queue = Each0(Now, <<>>)
    /\ bar = FreshBars(Now) /\ mbar = FreshMbars(Now) /\ mem = FreshMem(Now)
    /\ flight = {} /\ jobs = Each0(Now, <<>>)
    /\ acc = [a \in Actors |-> <<>>]

-----------------------------------------------------------------------------
(* A buffer holds an item when all its parts do and no copy is under way.  *)
Pending(a, b) == ~Quiet(Append(queue[a], open[a]), b)
Replaced(a, use, p) == Len(use) = 3 /\ p # a /\ mem[use[1]][p] = use[3]
Holds(a, use) ==
    /\ \A p \in Parts(use[1]) : mem[use[1]][p] = use[2] \/ Replaced(a, use, p)
    /\ \A other \in Team : ~Pending(other, use[1])

Fill(b, item) == [p \in Parts(b) |-> item]

DoPut(a) ==
    /\ At(a, "put")
    /\ mem' = [mem EXCEPT ![This(a).buf][a] = This(a).item]
    /\ Step(a)
    /\ UNCHANGED <<open, queue, bar, mbar, flight, jobs, acc>>

DoRead(a) ==
    /\ At(a, "read")
    /\ acc' = [acc EXCEPT ![a] = @ \o This(a).outs]
    /\ Step(a)
    /\ UNCHANGED <<open, queue, bar, mbar, mem, flight, jobs>>

DoPeek(a) ==
    /\ At(a, "peek")
    /\ Step(a)
    /\ UNCHANGED <<open, queue, bar, mbar, mem, flight, jobs, acc>>

(* The copies of a group have no order, and those of two groups only       *)
(* where it is assumed: a copy into a buffer that has another one under    *)
(* way leaves nothing one can rely on, whichever waits cover the two.      *)
Lasting(a, buf) == ~Pending(a, buf) \/ (problem \in InOrder /\ Quiet(<<open[a]>>, buf))
DoCopy(a) ==
    /\ At(a, "copy")
    /\ LET i == This(a)
           copy == <<i.buf, IF Lasting(a, i.buf) THEN i.item ELSE Nothing>>
       IN  open' = [open EXCEPT ![a] = @ \union {copy}]
    /\ Step(a)
    /\ UNCHANGED <<queue, bar, mbar, mem, flight, jobs, acc>>

DoCommit(a) ==
    /\ At(a, "commit")
    /\ queue' = [queue EXCEPT ![a] = Commit(@, open[a])]
    /\ open' = [open EXCEPT ![a] = {}]
    /\ Step(a)
    /\ UNCHANGED <<bar, mbar, mem, flight, jobs, acc>>

(* A wait leaves in a buffer what the last group it covers has copied.     *)
CopiedBy(group, b) == {copy[2] : copy \in {x \in group : x[1] = b}}
LastInto(groups, b) ==
    CopiedBy(FoldLeft(LAMBDA last, g : IF CopiedBy(g, b) = {} THEN last ELSE g, {}, groups), b)
DoWait(a) ==
    /\ At(a, "wait")
    /\ LET n == This(a).left
           groups == SubSeq(queue[a], 1, NumLanded(queue[a], n))
       IN  /\ mem' = [b \in Buffers |->
                        LET items == LastInto(groups, b)
                        IN  IF items = {} THEN mem[b]
                            ELSE [mem[b] EXCEPT ![a] =
                                    IF \E x \in items : items = {x}
                                    THEN CHOOSE x \in items : TRUE ELSE Nothing]]
           /\ queue' = [queue EXCEPT ![a] = Left(@, n)]
    /\ Step(a)
    /\ UNCHANGED <<open, bar, mbar, flight, jobs, acc>>

DoSync(a) ==
    /\ At(a, "sync")
    /\ bar' = [bar EXCEPT ![This(a).bar] = BarrierSync(@, a, This(a).n)]
    /\ Step(a)
    /\ UNCHANGED <<open, queue, mbar, mem, flight, jobs, acc>>

DoExpect(a) ==
    /\ At(a, "expect")
    /\ LET m == This(a).mbar
       IN  mbar' = [mbar EXCEPT ![m] = ArriveExpectTx(@, This(a).n, Now.mbars[m])]
    /\ Step(a)
    /\ UNCHANGED <<open, queue, bar, mem, flight, jobs, acc>>

DoTma(a) ==
    /\ At(a, "tma")
    /\ LET i == This(a)
       IN  /\ flight' = flight \union {[buf |-> i.buf, item |-> i.item, mbar |-> i.mbar]}
           /\ mem' = [mem EXCEPT ![i.buf] = Fill(i.buf, Nothing)]
    /\ Step(a)
    /\ UNCHANGED <<open, queue, bar, mbar, jobs, acc>>

DoMbarWait(a) ==
    /\ At(a, "mbwait")
    /\ Passed(mbar[This(a).mbar], This(a).parity)
    /\ Step(a)
    /\ UNCHANGED <<open, queue, bar, mbar, mem, flight, jobs, acc>>

DoMbarArrive(a) ==
    /\ At(a, "mbarrive")
    /\ LET m == This(a).mbar IN mbar' = [mbar EXCEPT ![m] = Arrive(@, Now.mbars[m])]
    /\ Step(a)
    /\ UNCHANGED <<open, queue, bar, mem, flight, jobs, acc>>

DoIssue(a) ==
    /\ At(a, "issue")
    /\ jobs' = [jobs EXCEPT ![a] = Append(@, This(a).job)]
    /\ Step(a)
    /\ UNCHANGED <<open, queue, bar, mbar, mem, flight, acc>>

DoAwait(a) ==
    /\ At(a, "await")
    /\ Len(jobs[a]) <= This(a).left
    /\ Step(a)
    /\ UNCHANGED <<open, queue, bar, mbar, mem, flight, jobs, acc>>

ActorStep(a) ==
    /\ \/ DoPut(a) \/ DoRead(a) \/ DoPeek(a) \/ DoCopy(a) \/ DoCommit(a) \/ DoWait(a)
       \/ DoSync(a) \/ DoExpect(a) \/ DoTma(a) \/ DoMbarWait(a) \/ DoMbarArrive(a)
       \/ DoIssue(a) \/ DoAwait(a)
    /\ UNCHANGED <<problem, ctas>>

-----------------------------------------------------------------------------
(* The hardware: a load lands, the oldest job of an actor finishes. *)
Land ==
    /\ \E f \in flight :
          /\ flight' = flight \ {f}
          /\ mem' = [mem EXCEPT ![f.buf] = Fill(f.buf, f.item)]
          /\ mbar' = [mbar EXCEPT ![f.mbar] = CompleteTx(@, Now.mbars[f.mbar])]
    /\ UNCHANGED <<problem, ctas, pc, open, queue, bar, jobs, acc>>

Finish(a) ==
    /\ a \in Team /\ jobs[a] # <<>>
    /\ acc' = [acc EXCEPT ![a] = @ \o Head(jobs[a]).outs]
    /\ jobs' = [jobs EXCEPT ![a] = Tail(@)]
    /\ UNCHANGED <<problem, ctas, pc, open, queue, bar, mbar, mem, flight>>

(* The CTA is done; the next one of the launch takes its turn. *)
AllEnded == /\ \A a \in Team : Ended(a) /\ ~Blocked(a) /\ jobs[a] = <<>>
            /\ flight = {}
NextCta ==
    /\ AllEnded /\ Len(ctas) > 1
    /\ ctas' = Tail(ctas)
    /\ LET c == ctas[2]
       IN  /\ pc' = Each0(c, 1) /\ open' = Each0(c, {}) /\ queue' = Each0(c, <<>>)
           /\ bar' = FreshBars(c) /\ mbar' = FreshMbars(c) /\ mem' = FreshMem(c)
           /\ jobs' = Each0(c, <<>>)
    /\ UNCHANGED <<problem, flight, acc>>

Next == (\E a \in Actors : ActorStep(a) \/ Finish(a)) \/ Land \/ NextCta
Spec == Init /\ [][Next]_vars

-----------------------------------------------------------------------------
(* Whatever is read, by an instruction that may be executed now or by a    *)
(* job under way, is what the code takes it for: nobody has started to     *)
(* write or load over it, and all of it has arrived.                       *)
Reading(a) == (IF At(a, "read") THEN This(a).uses ELSE {})
                \union UNION {jobs[a][i].uses : i \in DOMAIN jobs[a]}
ReadsWhole == \A a \in Team : \A use \in Reading(a) : Holds(a, use)

(* A read the kernel leaves to chance finds what it looks for all the same. *)
PeeksWhole == \A a \in Team : At(a, "peek") =>
                  \A use \in This(a).uses : Holds(a, use)

Finished == Len(ctas) = 1 /\ AllEnded

(* No wait and no barrier of a kernel is left short: something can go on   *)
(* until all its CTAs have ended.  As every step takes an actor, a load or *)
(* a job further, they all end then.                                       *)
NeverStuck == Finished \/ ENABLED Next
=============================================================================
