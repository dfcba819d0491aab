---------------------------- MODULE StencilValues ----------------------------
(***************************************************************************)
(* What StencilOrder's order is for: the points with the values they hold. *)
(* A var with two allocated steps keeps the value of level n in slot n % 2 *)
(* (_wrap_step()); an evaluation takes the slots of its own level and      *)
(* overwrites the other one.  Ref is what the plain step loop (run_ref())  *)
(* computes over all ranks: Ref[n][q] is point q after n evaluations.      *)
(* Points without reads are halo points: this rank never evaluates them    *)
(* and holds only the value the last exchange brought.                     *)
(***************************************************************************)
EXTENDS StencilOrder

CONSTANTS
  Reads,      \* Reads[p]: the points an evaluation of p reads
  Formula(_, _),   \* the stencil: a point's next value from those it reads
  Value,
  MaxLevel,   \* bound: the evaluations to run
  Ref         \* the reference run

Points == DOMAIN Ref[0]

RefStep(n, p) == Ref[n + 1][p] = Formula(p, [q \in Reads[p] |-> Ref[n][q]])

ASSUME MaxLevelAssumption == MaxLevel \in Nat

ASSUME ReadsAssumption ==
  /\ DOMAIN Reads \subseteq Points
  /\ \A p \in DOMAIN Reads : Reads[p] \subseteq Points

ASSUME RefAssumption ==
  /\ \A n \in 0..MaxLevel : Ref[n] \in [Points -> Value]
  /\ \A n \in 0..(MaxLevel - 1) : \A p \in DOMAIN Reads : RefStep(n, p)

VARIABLE slot   \* slot[q][i]: the value of point q in step slot i

vars == <<reads, level, slot>>

WrapStep(n) == n % 2

(* What p reads when it goes from level n to the next.                     *)
InputsMutant(p, n) == [q \in reads[p] |-> slot[q][WrapStep(level[q])]]
Inputs(p, n) == [q \in reads[p] |-> slot[q][WrapStep(n)]]

InitValues ==
  /\ reads = Reads
  /\ level \in [Points -> {0}]
  /\ Init
  /\ slot \in [Points -> [0..1 -> Value]]
  /\ \A q \in Points : slot[q][WrapStep(0)] = Ref[0][q]

Calc(S) ==
  /\ Evaluate(S)
  /\ \A p \in S : level[p] < MaxLevel
  /\ slot' = [q \in Points |->
                IF q \in S
                  THEN [slot[q] EXCEPT ![WrapStep(level[q] + 1)] = Formula(q, Inputs(q, level[q]))]
                  ELSE slot[q]]

NextValues == \E S \in SUBSET DOMAIN reads : S # {} /\ Calc(S)

SpecValues == InitValues /\ [][NextValues]_vars

-----------------------------------------------------------------------------
(* Whatever the order in which tiles, blocks and threads evaluate, a point *)
(* holds what run_ref() computes for its level: the result of the run is   *)
(* the reference run's.                                                    *)
AgreesWithRef ==
  \A q \in Points : slot[q][WrapStep(level[q])] = Ref[level[q]][q]
=============================================================================
