----------------------------- MODULE Solutions ------------------------------
(***************************************************************************)
(* A solution from its equations to its results: the compiler schedules    *)
(* the equations and decides how many steps of each var are kept, and the  *)
(* kernel evaluates the packs in order, step after step, overwriting the   *)
(* oldest step of a var with the newest.                                   *)
(*                                                                         *)
(* A value in memory is known by its step, counted in the order of the     *)
(* evaluation: 0 is the last step the user has set, 1 the first one that   *)
(* is computed.  The domain is taken apart into zones by the conditions of *)
(* the equations that hold there, and prog.zones has the conditions that   *)
(* hold in each; prog.modes has the sets of step conditions that may hold  *)
(* in a step.                                                              *)
(***************************************************************************)
EXTENDS EqBundles

CONSTANT MaxSteps  \* bound on the steps that are run

VARIABLES
  plan,   \* the equations in the order the kernel evaluates them
  mode,   \* the step conditions that hold in this step
  turn,   \* the equation that is evaluated next
  now,    \* steps done
  mem     \* mem[v][i][z]: the step whose value v has at slot i in zone z

run_vars == <<plan, mode, turn, now, mem>>
all_vars == <<vars, run_vars>>

-----------------------------------------------------------------------------
(* Steps kept.                                                             *)

(* The accesses of pack k to a var, and how far those at one step offset   *)
(* reach.                                                                  *)
PackHalo(v, k) == {a \in halo : a[1] = v /\ a[2] = k}
StepOffsets(v, k) == {a[3] : a \in PackHalo(v, k)}
HaloAt(v, k, dt) ==
  Max({0} \cup UNION {UNION {{-a[4][d], a[4][d]} : d \in 1 .. prog.dims} :
                        a \in {a \in PackHalo(v, k) : a[3] = dt}})

(* Mutant: the oldest step is always overwritten at once.                  *)
PackStepsMutant(v, k) == Max({1, Max(StepOffsets(v, k)) - Min(StepOffsets(v, k))})

(* The steps a pack that accesses v needs: all from the first to the last  *)
(* it touches, but one less if it touches both at the same point only.     *)
PackSteps(v, k) ==
  LET first == Min(StepOffsets(v, k))
      last  == Max(StepOffsets(v, k))
      reuse == HaloAt(v, k, first) = 0 /\ HaloAt(v, k, last) = 0
  IN IF first = last THEN 1 ELSE last - first + IF reuse THEN 0 ELSE 1

StepDimSize(v) ==
  Max({1} \cup {PackSteps(v, k) : k \in {a[2] : a \in {a \in halo : a[1] = v}}})

-----------------------------------------------------------------------------
(* The order of evaluation: pack by pack, the bundles of a pack and the    *)
(* equations of a bundle as they are sorted.                               *)

BundlePosn(e) == PosnOf("bundles", BundleOf(e))
EqPosn(e) == PosnOf("eqs", e)
EvaluatedFirst(e, f) ==
  \/ PackPosn(e) < PackPosn(f)
  \/ PackPosn(e) = PackPosn(f) /\ BundlePosn(e) < BundlePosn(f)
  \/ BundleOf(e) = BundleOf(f) /\ EqPosn(e) < EqPosn(f)

Planned == SortSeq(SelectSeq(order["eqs"], LAMBDA e : ~IsScratchEq(e)), EvaluatedFirst)

Written == {prog.lhs[e] : e \in {e \in Eqs : ~IsScratchEq(e)}}
SlotsOf(v) == 0 .. StepDimSize(VarOf(v)) - 1

(* Steps 0, -1, ... have been set, as many as are kept.                    *)
StepIn(i, n) == IF i = 0 THEN 0 ELSE i - n
InitMem ==
  [v \in Written |-> [i \in SlotsOf(v) |->
    [z \in prog.zones |-> StepIn(i, Cardinality(SlotsOf(v)))]]]

SlotOf(v, step) == step % Cardinality(DOMAIN mem[v])

-----------------------------------------------------------------------------
SolutionsInit == Init /\ plan = <<>> /\ mode = {} /\ turn = 0 /\ now = 0 /\ mem = <<>>

(* Compiling, with the walks from the first object left; none of these     *)
(* solutions is rejected.                                                  *)
CompileStep ==
  /\ \/ AnalyzeEqs
     \/ ToVisit # {} /\ FindDepsFrom(Min(ToVisit))
     \/ EndFindDeps
     \/ SwapLater
     \/ NextPosn
     \/ StartBundles
     \/ StartPacks
     \/ AddEqToBundle
     \/ AddBundleToPack
     \/ InheritDepsFrom
     \/ Finish
  /\ UNCHANGED run_vars

StartRun ==
  /\ phase = "done" /\ turn = 0
  /\ plan' = Planned
  /\ mem' = InitMem
  /\ turn' = 1
  /\ mode' \in prog.modes
  /\ UNCHANGED <<vars, now>>

Reader == plan[turn]
InStep == turn \in DOMAIN plan
Selected == prog.step_cond[Reader] \in mode

EvalEq ==
  /\ InStep
  /\ turn' = turn + 1
  /\ mem' = IF Selected
            THEN LET v == prog.lhs[Reader]
                 IN [mem EXCEPT ![v][SlotOf(v, now + 1)] =
                       [z \in prog.zones |-> IF prog.key[Reader] \in z THEN now + 1 ELSE @[z]]]
            ELSE mem
  /\ UNCHANGED <<vars, plan, mode, now>>

NextStep ==
  /\ turn > Len(plan)
  /\ now < MaxSteps
  /\ now' = now + 1
  /\ turn' = 1
  /\ mode' \in prog.modes
  /\ UNCHANGED <<vars, plan, mem>>

RunEnded == turn > Len(plan) /\ now = MaxSteps

SolutionsNext ==
  CompileStep \/ StartRun \/ EvalEq \/ NextStep \/ (RunEnded /\ UNCHANGED all_vars)

SolutionsSpec == SolutionsInit /\ [][SolutionsNext]_all_vars

-----------------------------------------------------------------------------
(* The step whose value a read wants, and where a var has a value of every *)
(* step: in the zones that some equation updates in every mode.            *)
Wanted(r) == now + prog.dir * r.dt
Updates(e, v, z) == prog.lhs[e] = v /\ prog.key[e] \in z
AlwaysUpdated(v) ==
  {z \in prog.zones : \A m \in prog.modes :
                        \E e \in Eqs : Updates(e, v, z) /\ prog.step_cond[e] \in m}
Kept(r, zones) ==
  \A z \in zones \cap AlwaysUpdated(r.var) :
    mem[r.var][SlotOf(r.var, Wanted(r))][z] = Wanted(r)

(* No equation that runs together with the reader, block by block and in   *)
(* any order of the blocks, writes where another point is read.            *)
Together(e) == {f \in Eqs : ~IsScratchEq(f) /\ PackPosn(f) = PackPosn(e)}
Undisturbed(r) ==
  \A f \in Together(Reader) :
    prog.lhs[f] = r.var => SlotOf(r.var, now + 1) # SlotOf(r.var, Wanted(r))

OtherPoint(r) == r.at # [d \in 1 .. prog.dims |-> 0]
OwnZones == {z \in prog.zones : prog.key[Reader] \in z}
Elsewhere(r) == Kept(r, prog.zones) /\ Undisturbed(r)
ReadsOf(eqs) == {r \in UNION {prog.reads[e] : e \in eqs} : r.var \in Written}

(* With the steps the compiler decides to keep, every equation of every    *)
(* shipped stencil reads values of the steps it names: nothing has         *)
(* overwritten them, neither an earlier pack nor the equations that are    *)
(* evaluated together with it at other points, and nothing of this step is *)
(* read before it is there.                                                *)
ReadsRight ==
  InStep /\ Selected =>
    /\ \A r \in ReadsOf({Reader}) : IF OtherPoint(r) THEN Elsewhere(r) ELSE Kept(r, OwnZones)
    /\ \A r \in ReadsOf(DepsOn(scr["eqs"], Reader)) : Elsewhere(r)
=============================================================================
