--------------------------- MODULE KernelLaunches ---------------------------
(***************************************************************************)
(* A call of the interface from the host function to its return: its       *)
(* kernels run one after the other in the stream, the programs of a grid   *)
(* in any order, each in one step.  NoRace says that no two programs of a  *)
(* grid write one cell otherwise than by adding to it; that none of them   *)
(* reads what another one writes shows only in ResultsExact.               *)
(***************************************************************************)
EXTENDS LaunchMemory

CONSTANT Calls

VARIABLES
    plan,       \* the kernels that have not finished, the first one running
    pending,    \* the programs of its grid that have not run
    stray       \* whether a program wrote outside of a tensor

vars == <<call, tensors, memory, plan, pending, stray>>

Triton == INSTANCE TritonLaunch
Gluon  == INSTANCE GluonLaunch

IsTriton     == call.backend = "triton"
Host         == IF IsTriton THEN Triton!Host ELSE Gluon!Host
Grid(kernel) == IF IsTriton THEN Triton!Grid(kernel) ELSE Gluon!Grid(kernel)
Effects(p)   == IF IsTriton THEN Triton!Effects(plan[1], p) ELSE Gluon!Effects(plan[1], p)

-----------------------------------------------------------------------------
Init ==
    /\ call \in Calls
    /\ tensors = Host.tensors
    /\ plan = Host.plan
    /\ memory = [name \in DOMAIN tensors |-> Held(tensors[name])]
    /\ pending = Grid(plan[1])
    /\ stray = FALSE

RunProgram(p) ==
    /\ p \in pending
    /\ \E effects \in {Effects(p)} :
          /\ memory' = Written(effects)
          /\ stray' = (stray \/ Outside(effects))
    /\ pending' = pending \ {p}
    /\ UNCHANGED <<call, tensors, plan>>

NextKernel ==
    /\ plan # <<>> /\ pending = {}
    /\ plan' = Tail(plan)
    /\ pending' = IF Len(plan) = 1 THEN {} ELSE Grid(plan[2])
    /\ UNCHANGED <<call, tensors, memory, stray>>

Returned == plan = <<>> /\ UNCHANGED vars

Next == (\E p \in pending : RunProgram(p)) \/ NextKernel \/ Returned

Spec == Init /\ [][Next]_vars

-----------------------------------------------------------------------------
(* The pairs a result may hold: those of rows and keys of the same         *)
(* sequence, of heads of the same group, that the mask lets attend.        *)
Expected(of, b, h, i) ==
    LET attends(q, m, k) == Attends(Problem(b, q \div Group), m, k)
    IN  CASE of = "row" ->
               {<<Row(b, h, i), Row(b, h \div Group, k)>> :
                   k \in IF IsListed THEN ToSet(ListOf(b)) \ {-1}
                         ELSE {k \in 0 .. UsedK(b) - 1 : attends(h, i, k)}}
          [] of = "key" ->
               {<<Row(b, q, m), Row(b, h, i)>> :
                   <<q, m>> \in {p \in (h * Group .. (h + 1) * Group - 1)
                                         \X (0 .. UsedQ(b) - 1) : attends(p[1], p[2], i)}}

RowResults == {"out", "lse", "dq", "da"} \ (IF call.pass = "bwd" THEN {"out", "lse"} ELSE {})
KeyResults == {"dk", "dv", "dd"}

(* When a call returns, every used row of its outputs, or of its           *)
(* gradients, is made of exactly the pairs that the mask lets attend, each *)
(* once: of the rows of its own sequence and head, wherever its tensors    *)
(* keep them, however the tiles, heads and splits are shared out, and of   *)
(* nothing that was never written.                                         *)
ResultsExact ==
    plan = <<>> =>
        \A b \in Batches :
            /\ \A name \in RowResults \cap DOMAIN tensors, h \in 0 .. call.hq - 1,
                  i \in 0 .. SeqlenQ(b).seqlen - 1 :
                 Cell(name, RowCell(tensors[name], b, h, i, CuQ, call.qlens))
                     = Expected("row", b, h, i)
            /\ \A name \in KeyResults \cap DOMAIN tensors, h \in 0 .. call.hkv - 1,
                  i \in 0 .. UsedK(b) - 1 :
                 Cell(name, RowCell(tensors[name], b, h, i, CuK, call.klens))
                     = Expected("key", b, h, i)

(* Two programs of one grid, which the device runs at the same time, write *)
(* the same cell only if both add to it atomically.                        *)
NoRace ==
    plan # <<>> /\ pending = Grid(plan[1]) =>
        \A of \in {[p \in pending |-> Effects(p)]} :
            \A p, q \in pending : p # q =>
                \A e \in of[p], f \in of[q] :
                    e.name = f.name /\ e.at = f.at => e.add /\ f.add

(* No program writes outside of the tensor it writes to. *)
NothingStray == ~stray
=============================================================================
