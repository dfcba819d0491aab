------------------------- MODULE StencilValuesProofs -------------------------
(***************************************************************************)
(* Any order of evaluation that StencilOrder allows gives the reference    *)
(* run's values, for every stencil, set of points and number of steps.     *)
(***************************************************************************)
EXTENDS StencilValues, Integers, TLAPS

-----------------------------------------------------------------------------
(* What the order of evaluation gives, for every set of points, every      *)
(* shape of stencil and every tiling that respects it.                     *)


(* Every read point has a level, and levels are natural numbers.           *)
LevelsOK ==
  /\ DOMAIN reads \subseteq DOMAIN level
  /\ \A p \in DOMAIN reads : reads[p] \subseteq DOMAIN level
  /\ \A q \in DOMAIN level : level[q] \in Nat

OrderInv == LevelsOK /\ NeverTooFarAhead

(* Initially all levels are 0.                                             *)
LEMMA InitOrder == Init => OrderInv
  BY DEF Init, OrderInv, LevelsOK, NeverTooFarAhead

(* A point moves only when what it reads is at its level or beyond, and    *)
(* what it reads never falls back.                                         *)
LEMMA NextOrder == OrderInv /\ [Next]_<<reads, level>> => OrderInv'
<1> SUFFICES ASSUME OrderInv, [Next]_<<reads, level>> PROVE OrderInv'
  OBVIOUS
<1> USE DEF OrderInv, LevelsOK, NeverTooFarAhead
<1>1. CASE UNCHANGED <<reads, level>>
  BY <1>1
<1>2. CASE Next
  <2> DEFINE S == {q \in DOMAIN level : level'[q] # level[q]}
  <2>1. Evaluate(S)
    BY <1>2 DEF Next
  <2>2. /\ reads' = reads
        /\ level' = [q \in DOMAIN level |-> IF q \in S THEN level[q] + 1 ELSE level[q]]
        /\ \A p \in S : p \in DOMAIN reads /\ \A q \in reads[p] : Readable(p, q)
    BY <2>1 DEF Evaluate
  <2> HIDE DEF S
  <2>3. DOMAIN level' = DOMAIN level
    BY <2>2
  <2>4. \A q \in DOMAIN level : /\ level'[q] \in Nat
                                /\ level'[q] = IF q \in S THEN level[q] + 1 ELSE level[q]
    BY <2>2
  <2>5. LevelsOK'
    BY <2>2, <2>3, <2>4
  <2>6. ASSUME NEW p \in DOMAIN reads, NEW q \in reads[p]
        PROVE  level'[p] <= level'[q] + 1
    <3>1. p \in DOMAIN level /\ q \in DOMAIN level
      OBVIOUS
    <3>2. level[p] \in Nat /\ level[q] \in Nat /\ level'[q] \in Nat /\ level[q] <= level'[q]
      BY <3>1, <2>4
    <3>3. CASE p \in S
      <4>1. level[q] >= level[p]
        BY <2>2, <3>2, <3>3 DEF Readable
      <4>2. level'[p] = level[p] + 1
        BY <2>4, <3>1, <3>3
      <4> QED
        BY <3>2, <4>1, <4>2
    <3>4. CASE p \notin S
      <4>1. level'[p] = level[p]
        BY <2>4, <3>1, <3>4
      <4>2. level[p] <= level[q] + 1
        OBVIOUS
      <4> QED
        BY <3>2, <4>1, <4>2
    <3> QED
      BY <3>3, <3>4
  <2>7. NeverTooFarAhead'
    BY <2>2, <2>6
  <2> QED
    BY <2>5, <2>7
<1> QED
  BY <1>1, <1>2

(* Whatever the tiles, no point is evaluated more than one level beyond a  *)
(* point it reads, so the two values a point holds are enough.             *)
THEOREM OrderNeverTooFarAhead == Spec => []NeverTooFarAhead
<1>1. Init => OrderInv
  BY InitOrder
<1>2. OrderInv /\ [Next]_<<reads, level>> => OrderInv'
  BY NextOrder
<1>3. OrderInv => NeverTooFarAhead
  BY DEF OrderInv
<1> QED
  BY <1>1, <1>2, <1>3, PTL DEF Spec

-----------------------------------------------------------------------------
(* What the points hold.                                                   *)

TypeOK ==
  /\ reads = Reads
  /\ level \in [Points -> 0..MaxLevel]
  /\ slot \in [Points -> [0..1 -> Value]]

(* The value of the level before is still there, for the points that are   *)
(* one evaluation behind and have yet to read it.                          *)
KeepsPrevious ==
  \A q \in Points :
    level[q] > 0 => slot[q][WrapStep(level[q] - 1)] = Ref[level[q] - 1][q]

IInv == TypeOK /\ AgreesWithRef /\ KeepsPrevious

(* Two steps in a row have slots of their own.                             *)
LEMMA WrapAlternates ==
  \A n \in Nat : /\ WrapStep(n) \in 0..1
                 /\ WrapStep(n + 1) \in 0..1
                 /\ WrapStep(n) # WrapStep(n + 1)
  BY DEF WrapStep

(* Initially every point holds the reference's start value.                *)
LEMMA InitIInv == InitValues => IInv
<1> SUFFICES ASSUME InitValues PROVE IInv
  OBVIOUS
<1>1. \A q \in Points : level[q] = 0
  BY DEF InitValues
<1>2. TypeOK
  BY <1>1, MaxLevelAssumption DEF InitValues, TypeOK
<1>3. AgreesWithRef /\ KeepsPrevious
  BY <1>1 DEF InitValues, AgreesWithRef, KeepsPrevious
<1> QED
  BY <1>2, <1>3 DEF IInv

(* Among the points p may read now, one at its level has the wanted value  *)
(* as its latest, one beyond has it as the value before.                   *)
LEMMA InputsAreRef ==
  ASSUME IInv, NEW p \in DOMAIN Reads, level[p] < MaxLevel,
         \A q \in Reads[p] : Readable(p, q)
  PROVE  Formula(p, Inputs(p, level[p])) = Ref[level[p] + 1][p]
<1> DEFINE n == level[p]
<1>1. p \in Points /\ Reads[p] \subseteq Points
  BY ReadsAssumption
<1>2. n \in 0..(MaxLevel - 1) /\ n \in Nat
  BY <1>1, MaxLevelAssumption DEF IInv, TypeOK
<1>3. ASSUME NEW q \in Reads[p] PROVE slot[q][WrapStep(n)] = Ref[n][q]
  <2>1. q \in Points
    BY <1>1
  <2>2. CASE level[q] = n
    BY <2>1, <2>2 DEF IInv, AgreesWithRef
  <2>3. CASE level[q] = n + 1
    <3>1. level[q] > 0 /\ level[q] - 1 = n
      BY <1>2, <2>3
    <3> QED
      BY <2>1, <3>1 DEF IInv, KeepsPrevious
  <2> QED
    BY <2>2, <2>3 DEF Readable
<1>4. Inputs(p, n) = [q \in Reads[p] |-> Ref[n][q]]
  BY <1>3 DEF Inputs, IInv, TypeOK
<1>5. Ref[n + 1][p] = Formula(p, [q \in Reads[p] |-> Ref[n][q]])
  BY <1>2, RefAssumption DEF RefStep
<1> QED
  BY <1>4, <1>5

(* Evaluating a set of points keeps the invariant.                         *)
LEMMA CalcIInv ==
  ASSUME IInv, NEW S \in SUBSET DOMAIN reads, Calc(S)
  PROVE  IInv'
<1>1. reads = Reads /\ level \in [Points -> 0..MaxLevel] /\ slot \in [Points -> [0..1 -> Value]]
  BY DEF IInv, TypeOK
<1>2. /\ reads' = reads
      /\ level' = [q \in Points |-> IF q \in S THEN level[q] + 1 ELSE level[q]]
      /\ \A p \in S : level[p] < MaxLevel
      /\ \A p \in S : \A q \in Reads[p] : Readable(p, q)
  BY <1>1 DEF Calc, Evaluate
<1>3. S \subseteq Points /\ S \subseteq DOMAIN Reads
  BY <1>1, ReadsAssumption
<1>4. ASSUME NEW q \in Points, q \in S
      PROVE  /\ level[q] \in Nat /\ level[q] < MaxLevel /\ level'[q] = level[q] + 1
             /\ slot'[q] \in [0..1 -> Value]
             /\ slot'[q][WrapStep(level[q] + 1)] = Ref[level[q] + 1][q]
             /\ slot'[q][WrapStep(level[q])] = Ref[level[q]][q]
  <2> DEFINE n == level[q]
  <2>1. n \in Nat /\ n < MaxLevel /\ level'[q] = n + 1
    BY <1>1, <1>2, <1>4, MaxLevelAssumption
  <2>2. Formula(q, Inputs(q, n)) = Ref[n + 1][q]
    BY <1>2, <1>3, <1>4, <2>1, InputsAreRef
  <2>3. slot'[q] = [slot[q] EXCEPT ![WrapStep(n + 1)] = Ref[n + 1][q]]
    BY <1>4, <2>2 DEF Calc
  <2>4. Ref[n + 1][q] \in Value
    BY <2>1, RefAssumption, MaxLevelAssumption
  <2>5. WrapStep(n) \in 0..1 /\ WrapStep(n + 1) \in 0..1 /\ WrapStep(n) # WrapStep(n + 1)
    BY <2>1, WrapAlternates
  <2>6. slot[q] \in [0..1 -> Value] /\ slot[q][WrapStep(n)] = Ref[n][q]
    BY <1>1 DEF IInv, AgreesWithRef
  <2> HIDE DEF n
  <2>7. /\ slot'[q] \in [0..1 -> Value]
        /\ slot'[q][WrapStep(n + 1)] = Ref[n + 1][q]
        /\ slot'[q][WrapStep(n)] = Ref[n][q]
    BY <2>3, <2>4, <2>5, <2>6
  <2> QED
    BY <2>1, <2>7 DEF n
<1>5. ASSUME NEW q \in Points, q \notin S
      PROVE  slot'[q] = slot[q] /\ level'[q] = level[q]
  BY <1>2, <1>5 DEF Calc
<1>6. TypeOK'
  <2>1. level' \in [Points -> 0..MaxLevel]
    <3>1. \A q \in Points : level'[q] \in 0..MaxLevel
      BY <1>1, <1>4, <1>5, MaxLevelAssumption
    <3> QED
      BY <1>2, <3>1
  <2>2. slot' \in [Points -> [0..1 -> Value]]
    <3>1. \A q \in Points : slot'[q] \in [0..1 -> Value]
      BY <1>1, <1>4, <1>5
    <3>2. slot' = [q \in Points |-> slot'[q]]
      BY DEF Calc
    <3> QED
      BY <3>1, <3>2
  <2> QED
    BY <1>1, <1>2, <2>1, <2>2 DEF TypeOK
<1>7. AgreesWithRef'
  <2>1. ASSUME NEW q \in Points PROVE slot'[q][WrapStep(level'[q])] = Ref[level'[q]][q]
    <3>1. CASE q \in S
      BY <1>4, <3>1
    <3>2. CASE q \notin S
      BY <1>5, <3>2 DEF IInv, AgreesWithRef
    <3> QED
      BY <3>1, <3>2
  <2> QED
    BY <2>1 DEF AgreesWithRef, WrapStep
<1>8. KeepsPrevious'
  <2>1. ASSUME NEW q \in Points, level'[q] > 0
        PROVE  slot'[q][WrapStep(level'[q] - 1)] = Ref[level'[q] - 1][q]
    <3>1. CASE q \in S
      <4>1. level'[q] - 1 = level[q]
        BY <1>4, <3>1
      <4> QED
        BY <1>4, <3>1, <4>1
    <3>2. CASE q \notin S
      BY <1>5, <2>1, <3>2 DEF IInv, KeepsPrevious
    <3> QED
      BY <3>1, <3>2
  <2> QED
    BY <2>1 DEF KeepsPrevious, WrapStep
<1> QED
  BY <1>6, <1>7, <1>8 DEF IInv

(* Every run whose evaluations respect the order ends with the values of   *)
(* the reference run, whatever the tiles and the threads.                  *)
THEOREM OrderGivesReference == SpecValues => []AgreesWithRef
<1>1. InitValues => IInv
  BY InitIInv
<1>2. IInv /\ [NextValues]_vars => IInv'
  <2> SUFFICES ASSUME IInv, [NextValues]_vars PROVE IInv'
    OBVIOUS
  <2>1. CASE UNCHANGED vars
    BY <2>1 DEF vars, IInv, TypeOK, AgreesWithRef, KeepsPrevious, WrapStep
  <2>2. CASE NextValues
    BY <2>2, CalcIInv DEF NextValues
  <2> QED
    BY <2>1, <2>2
<1>3. IInv => AgreesWithRef
  BY DEF IInv
<1> QED
  BY <1>1, <1>2, <1>3, PTL DEF SpecValues
=============================================================================
