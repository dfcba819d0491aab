------------------------- MODULE HaloExchangeProofs -------------------------
(***************************************************************************)
(* What one rank of HaloExchange can rely on by itself, for every number   *)
(* of ranks and variables, every set of packs, every halo shape and every  *)
(* program, whatever the other ranks do: every variable keeps its type, a  *)
(* buffer is given to MPI only when MPI has finished with it, no call      *)
(* returns with a request open, and shared buffers are released only when  *)
(* no rank can still use them.  Then what ranks can rely on together: they *)
(* agree on what to exchange.                                              *)
(***************************************************************************)
EXTENDS HaloExchange, FiniteSetTheorems, SequenceTheorems, WellFoundedInduction, TLAPS

-----------------------------------------------------------------------------
(* The helpers.                                                            *)

(* A step is kept in one of the allocated slots.                           *)
LEMMA WrapSlot ==
  ASSUME NEW v \in Var, NEW t \in Int
  PROVE  Wrap(v, t) \in Slot
<1>1. Alloc[v] \in Nat /\ 0 < Alloc[v] /\ Alloc[v] <= MaxAlloc /\ MaxAlloc \in Nat
  BY HaloAssumption
<1>2. t % Alloc[v] \in 0 .. Alloc[v] - 1
  BY <1>1, SMT
<1> QED
  BY <1>1, <1>2 DEF Wrap, Slot

(* The last and the first of a set of steps are steps.                     *)
LEMMA HighLowInt ==
  ASSUME NEW S \in SUBSET Int
  PROVE  High(S) \in Int /\ Low(S) \in Int
<1>1. High(S) \in Int
  <2>1. CASE \E x \in S : \A y \in S : x >= y
    BY <2>1 DEF High
  <2>2. CASE ~ \E x \in S : \A y \in S : x >= y
    BY <2>2 DEF High
  <2> QED
    BY <2>1, <2>2
<1>2. Low(S) \in Int
  <2>1. CASE \E x \in S : \A y \in S : x <= y
    BY <2>1 DEF Low
  <2>2. CASE ~ \E x \in S : \A y \in S : x <= y
    BY <2>2 DEF Low
  <2> QED
    BY <2>1, <2>2
<1> QED
  BY <1>1, <1>2

(* A write moves the window of valid steps to an integer.                  *)
LEMMA ValidStepInt ==
  ASSUME NEW v \in Var, NEW f \in Int, NEW a \in Int, NEW b \in Int
  PROVE  /\ UpdateValidStep(v, f, a) \in Int
         /\ UpdateValidSteps(v, f, a, b) \in Int
<1>1. ASSUME NEW x \in Int, NEW y \in Int
      PROVE  UpdateValidStep(v, x, y) \in Int
  BY HaloAssumption DEF UpdateValidStep
<1> QED
  BY <1>1 DEF UpdateValidSteps

LEMMA NumStepsNat ==
  ASSUME NEW w \in SwapRange
  PROVE  NumSteps(w) \in Nat
BY DEF SwapRange, NumSteps

LEMMA FunctionIsSeq ==
  ASSUME NEW S, NEW n \in Nat, NEW f \in [1 .. n -> S]
  PROVE  f \in Seq(S)
BY SeqDef

(* Packing a range of steps gives a sequence of values.                    *)
LEMMA PackStepsType ==
  ASSUME NEW d \in [Var -> [Slot -> [Zone -> Value]]], NEW v \in Var,
         NEW w \in SwapRange, NEW z \in Zone
  PROVE  PackSteps(d, v, w, z) \in Seq(Value)
<1>1. NumSteps(w) \in Nat
  BY NumStepsNat
<1>2. ASSUME NEW k \in 1 .. NumSteps(w)
      PROVE  d[v][Wrap(v, w.first + k - 1)][z] \in Value
  <2>1. w.first + k - 1 \in Int
    BY <1>1 DEF SwapRange
  <2>2. Wrap(v, w.first + k - 1) \in Slot
    BY <2>1, WrapSlot
  <2> QED
    BY <2>2
<1>3. PackSteps(d, v, w, z) \in [1 .. NumSteps(w) -> Value]
  BY <1>2 DEF PackSteps
<1> QED
  BY <1>1, <1>3, FunctionIsSeq, Zenon

(* Unpacking any sequence of values gives a well-formed variable.          *)
LEMMA UnpackedType ==
  ASSUME NEW d \in [Var -> [Slot -> [Zone -> Value]]], NEW v \in Var,
         NEW w, NEW z \in Zone, NEW b \in Seq(Value)
  PROVE  Unpacked(d, v, w, z, b) \in [Slot -> [Zone -> Value]]
<1>1. Garbage \in Value
  BY DEF Garbage, Value
<1>2. ASSUME NEW k, k \in DOMAIN b
      PROVE  b[k] \in Value
  BY <1>2
<1>3. ASSUME NEW x \in Value, NEW n \in Slot
      PROVE  [d[v][n] EXCEPT ![z] = x] \in [Zone -> Value]
  OBVIOUS
<1> QED
  BY <1>1, <1>2, <1>3 DEF Unpacked

(* Removing an element leaves a sequence.                                  *)
LEMMA RemoveAtType ==
  ASSUME NEW S, NEW q \in Seq(S), NEW i \in DOMAIN q
  PROVE  RemoveAt(q, i) \in Seq(S)
<1>1. i \in 1 .. Len(q) /\ Len(q) \in Nat
  OBVIOUS
<1>2. SubSeq(q, 1, i - 1) \in Seq(S)
  <2>1. \A k \in 1 .. i - 1 : q[k] \in S
    BY <1>1
  <2> QED
    BY <1>1, <2>1, SubSeqProperties
<1>3. SubSeq(q, i + 1, Len(q)) \in Seq(S)
  <2>1. \A k \in i + 1 .. Len(q) : q[k] \in S
    BY <1>1
  <2> QED
    BY <1>1, <2>1, SubSeqProperties
<1> QED
  BY <1>2, <1>3, ConcatProperties DEF RemoveAt

(* The list of what is swapped is typed whatever the flags are.            *)
LEMMA SwapOfType ==
  ASSUME NEW r \in Rank, NEW fst \in [Var -> Int], NEW drt
  PROVE  SwapOf(r, fst, drt) \in [Var -> SwapRange]
<1>1. ASSUME NEW v \in Var
      PROVE  SwapOf(r, fst, drt)[v] \in SwapRange
  <2> DEFINE D == {t \in Window(v, fst[v]) : drt[v][Wrap(v, t)]}
  <2>1. Window(v, fst[v]) \subseteq Int
    BY HaloAssumption DEF Window
  <2>2. D \in SUBSET Int
    BY <2>1
  <2>3. High(D) \in Int /\ Low(D) \in Int
    BY <2>2, HighLowInt
  <2>4. [first |-> Low(D), last |-> High(D)] \in SwapRange
    BY <2>3 DEF SwapRange
  <2>5. NoSteps \in SwapRange
    BY DEF NoSteps, SwapRange
  <2> QED
    BY <2>4, <2>5 DEF SwapOf
<1>2. SwapOf(r, fst, drt) = [v \in Var |-> SwapOf(r, fst, drt)[v]]
  BY DEF SwapOf
<1> QED
  BY <1>1, <1>2

LEMMA TodoOfType ==
  ASSUME NEW r, NEW sw, NEW e, NEW i
  PROVE  /\ TodoOf(r, sw, e, i) \in SUBSET Item
         /\ \A j \in TodoOf(r, sw, e, i) : HasNbr(r, j.side)
BY DEF TodoOf, TodoWith, ItemDue

LEMMA TagNat ==
  ASSUME NEW r \in Rank, NEW v \in Var
  PROVE  Tag(r, v) \in Nat
<1>1. v \in Int
  BY HaloAssumption DEF Var
<1>2. IsFiniteSet(1 .. v)
  BY <1>1, FS_Interval
<1>3. IsFiniteSet({u \in 1 .. v : Swapped(swap[r][u])})
  BY <1>2, FS_Subset
<1> QED
  BY <1>3, FS_CardinalityType DEF Tag

-----------------------------------------------------------------------------
(* The inductive invariant is the type invariant together with InCall: the *)
(* steps a rank goes through are numbers because its call has them.        *)

HaloInv == TypeOK /\ InCall

LEMMA CallType ==
  ASSUME HaloInv, NEW r \in Rank, op[r] \in DOMAIN script
  PROVE  CurCall(r) \in Call
<1>1. script \in Seq(Call)
  BY HaloAssumption DEF HaloInv, TypeOK
<1> QED
  BY <1>1 DEF CurCall

LEMMA StopTInt ==
  ASSUME HaloInv, NEW r \in Rank, op[r] \in DOMAIN script
  PROVE  /\ StopT(r) \in Int
         /\ Stride \in Int
         /\ Steps(r) \subseteq Int
<1>1. CurCall(r).last \in Int
  BY CallType DEF Call
<1>2. step[r] \in Int
  BY DEF HaloInv, TypeOK
<1>3. StepDir \in Int /\ WfSteps \in Int /\ Stride \in Int
  BY HaloAssumption DEF Stride
<1>4. StepDir * Stride \in Int
  BY <1>3, HaloAssumption, SMT
<1>5. StopT(r) \in Int
  BY <1>1, <1>2, <1>3, <1>4 DEF StopT
<1> QED
  BY <1>2, <1>3, <1>5 DEF Steps

(* What update_vars() leaves is typed.                                     *)
LEMMA AfterType ==
  ASSUME HaloInv, NEW r \in Rank, op[r] \in DOMAIN script
  PROVE  /\ FirstAfter(r) \in [Var -> Int]
         /\ DirtyAfter(r) \in [Var -> [Slot -> BOOLEAN]]
<1>1. first[r] \in [Var -> Int] /\ dirty[r] \in [Var -> [Slot -> BOOLEAN]]
  BY DEF HaloInv, TypeOK
<1>2. step[r] + StepDir \in Int /\ StopT(r) \in Int
  BY StopTInt, HaloAssumption DEF HaloInv, TypeOK
<1>3. FirstAfter(r) \in [Var -> Int]
  BY <1>1, <1>2, ValidStepInt DEF FirstAfter
<1>4. DirtyAfter(r) \in [Var -> [Slot -> BOOLEAN]]
  BY <1>1 DEF DirtyAfter, DirtyWith
<1> QED
  BY <1>3, <1>4

(* What an evaluation leaves is typed.                                     *)
LEMMA DataAfterType ==
  ASSUME HaloInv, NEW r \in Rank, op[r] \in DOMAIN script, NEW Z
  PROVE  DataAfter(r, Z) \in [Var -> [Slot -> [Zone -> Value]]]
<1>1. data[r] \in [Var -> [Slot -> [Zone -> Value]]] /\ op[r] \in Int
  BY DEF HaloInv, TypeOK
<1>2. ASSUME NEW v \in Var
      PROVE  Computed(r, v) \subseteq Int
  BY StopTInt, HaloAssumption DEF Computed
<1>3. ASSUME NEW v \in Var, NEW n \in Slot
      PROVE  DataAfter(r, Z)[v][n] \in [Zone -> Value]
  <2> DEFINE U == {u \in Computed(r, v) : Wrap(v, u) = n}
             u == IF StepDir > 0 THEN High(U) ELSE Low(U)
  <2>1. U \in SUBSET Int
    BY <1>2
  <2>2. u \in Int
    BY <2>1, HighLowInt
  <2>3. [gen |-> op[r], step |-> u] \in Value
    BY <1>1, <2>2 DEF Value
  <2>4. DataAfter(r, Z)[v][n] =
          [z \in Zone |-> IF U # {} /\ z \in Z
                          THEN [gen |-> op[r], step |-> u] ELSE data[r][v][n][z]]
    BY DEF DataAfter
  <2> HIDE DEF u, U
  <2> QED
    BY <1>1, <2>3, <2>4
<1>4. DataAfter(r, Z) = [v \in Var |-> [n \in Slot |-> DataAfter(r, Z)[v][n]]]
  BY DEF DataAfter
<1> QED
  BY <1>3, <1>4

-----------------------------------------------------------------------------
LEMMA InitHaloInv == Init => HaloInv
<1> SUFFICES ASSUME Init PROVE HaloInv
  OBVIOUS
<1>1. 1 \in Pack /\ Pack \subseteq Nat
  BY HaloAssumption DEF Pack
<1>2. Slot \subseteq Int
  BY HaloAssumption DEF Slot
<1>3. NoSteps \in SwapRange
  BY DEF NoSteps, SwapRange
<1>4. data \in [Rank -> [Var -> [Slot -> [Zone -> Value]]]]
  <2>1. \A n \in Slot : [gen |-> 0, step |-> n] \in Value
    BY <1>2 DEF Value
  <2>2. Garbage \in Value
    BY DEF Garbage, Value
  <2> QED
    BY <2>1, <2>2 DEF Init
<1>todo. todo \in TodoType
  BY DEF Init, TodoType
<1>5. TypeOK
  BY <1>1, <1>3, <1>4, <1>todo DEF Init, TypeOK, NullReqs, Nothing, Request
<1>6. InCall
  BY DEF Init, InCall
<1> QED
  BY <1>5, <1>6 DEF HaloInv

LEMMA EvalsNat ==
  ASSUME NEW r \in Rank, trail[r] \in Seq(ExchangeRecord)
  PROVE  Evals(r) \in Nat
<1>1. CASE trail[r] = <<>>
  BY <1>1 DEF Evals
<1>2. CASE trail[r] # <<>>
  <2>1. Len(trail[r]) \in DOMAIN trail[r]
    BY <1>2
  <2>2. trail[r][Len(trail[r])] \in ExchangeRecord
    BY <2>1
  <2> QED
    BY <1>2, <2>2 DEF Evals, Last, ExchangeRecord
<1> QED
  BY <1>1, <1>2

(* An exchange is started with typed lists.                                *)
LEMMA StartType ==
  ASSUME TypeOK, NEW r \in Rank, NEW fst \in [Var -> Int], NEW drt, NEW e, NEW i,
         NEW done \in Nat, StartExchange(r, fst, drt, e, i, done)
  PROVE  /\ swap' \in [Rank -> [Var -> SwapRange]]
         /\ todo' \in TodoType
         /\ trail' \in [Rank -> Seq(ExchangeRecord)]
<1>1. SwapOf(r, fst, drt) \in [Var -> SwapRange]
  BY SwapOfType
<1>2. swap' \in [Rank -> [Var -> SwapRange]]
  BY <1>1 DEF StartExchange, TypeOK
<1> DEFINE T == TodoOf(r, SwapOf(r, fst, drt), e, i)
<1>3. T \in SUBSET Item /\ \A j \in T : HasNbr(r, j.side)
  BY TodoOfType
<1>4. todo' = [todo EXCEPT ![r] = T] /\ todo \in TodoType
  BY DEF StartExchange, TypeOK
<1>5. todo' \in TodoType
  <2> HIDE DEF T
  <2> QED
    BY <1>3, <1>4 DEF TodoType
<1>6. trail' \in [Rank -> Seq(ExchangeRecord)]
  <2> DEFINE x == [swap |-> SwapOf(r, fst, drt), evals |-> Evals(r) + done]
  <2>1. trail \in [Rank -> Seq(ExchangeRecord)] /\ trail[r] \in Seq(ExchangeRecord)
    BY DEF TypeOK
  <2>2. x \in ExchangeRecord
    <3>1. Evals(r) + done \in Nat
      BY <2>1, EvalsNat
    <3> QED
      BY <1>1, <3>1 DEF ExchangeRecord
  <2>3. Append(trail[r], x) \in Seq(ExchangeRecord)
    BY <2>1, <2>2
  <2>4. \/ trail' = [trail EXCEPT ![r] = Append(trail[r], x)]
        \/ trail' = trail
    BY DEF StartExchange
  <2> HIDE DEF x
  <2> QED
    BY <2>1, <2>3, <2>4
<1> QED
  BY <1>2, <1>5, <1>6

PcType == {"call", "packs", "inner", "exch_init", "exch_ext", "exch_int",
           "exch_all", "exch_end", "barrier", "alloc_barrier", "shm_barrier"}

LEMMA ReturnsType ==
  ASSUME op \in [Rank -> Nat \ {0}], pc \in [Rank -> PcType], InCall,
         NEW r \in Rank, Returns(r), script' = script
  PROVE  /\ op' \in [Rank -> Nat \ {0}]
         /\ pc' \in [Rank -> PcType]
         /\ InCall'
<1>1. op' = [op EXCEPT ![r] = @ + 1] /\ pc' = [pc EXCEPT ![r] = "call"]
  BY DEF Returns
<1>2. op' \in [Rank -> Nat \ {0}] /\ pc' \in [Rank -> PcType]
  BY <1>1 DEF PcType
<1>3. InCall'
  BY <1>1 DEF InCall, PcType
<1> QED
  BY <1>2, <1>3

(* The next pack, the next step or the end of the call.                    *)
LEMMA NextPackType ==
  ASSUME HaloInv, NEW r \in Rank, op[r] \in DOMAIN script, NextPack(r), script' = script
  PROVE  /\ op' \in [Rank -> Nat \ {0}]
         /\ pc' \in [Rank -> PcType]
         /\ step' \in [Rank -> Int]
         /\ pack' \in [Rank -> Pack]
         /\ InCall'
<1>1. Len(Packs) \in Nat /\ Len(Packs) > 0 /\ Pack = 1 .. Len(Packs)
  BY HaloAssumption DEF Pack
<1>2. StopT(r) \in Int
  BY StopTInt
<1>types. /\ op \in [Rank -> Nat \ {0}]
      /\ pc \in [Rank -> PcType]
      /\ step \in [Rank -> Int]
      /\ pack \in [Rank -> Pack]
      /\ InCall
  BY DEF HaloInv, TypeOK, PcType
<1>3. CASE WfSteps = 0 /\ pack[r] < Len(Packs)
  <2>1. pack[r] + 1 \in Pack
    BY <1>1, <1>3, <1>types
  <2>2. /\ pack' = [pack EXCEPT ![r] = @ + 1]
        /\ pc' = [pc EXCEPT ![r] = "packs"]
        /\ op' = op /\ step' = step
    BY <1>3 DEF NextPack
  <2>3. pc' \in [Rank -> PcType] /\ pack' \in [Rank -> Pack]
    BY <1>types, <2>1, <2>2 DEF PcType
  <2>4. InCall'
    BY <1>types, <2>2 DEF InCall, PcType
  <2> QED
    BY <1>types, <2>2, <2>3, <2>4
<1>4. CASE ~(WfSteps = 0 /\ pack[r] < Len(Packs))
  <2>1. pack' = [pack EXCEPT ![r] = 1] /\ 1 \in Pack
    BY <1>1, <1>4 DEF NextPack
  <2>2. CASE StopT(r) # CurCall(r).last + StepDir
    <3>1. /\ step' = [step EXCEPT ![r] = StopT(r)]
          /\ pc' = [pc EXCEPT ![r] = "packs"]
          /\ op' = op
      BY <1>4, <2>2 DEF NextPack
    <3>2. pc' \in [Rank -> PcType] /\ step' \in [Rank -> Int]
      BY <1>types, <1>2, <3>1 DEF PcType
    <3>3. InCall'
      BY <1>types, <3>1 DEF InCall, PcType
    <3> QED
      BY <1>types, <2>1, <3>1, <3>2, <3>3
  <2>3. CASE ~(StopT(r) # CurCall(r).last + StepDir)
    <3>1. Returns(r) /\ step' = step
      BY <1>4, <2>3 DEF NextPack
    <3>2. /\ op' \in [Rank -> Nat \ {0}]
          /\ pc' \in [Rank -> PcType]
          /\ InCall'
      BY <1>types, <3>1, ReturnsType
    <3> QED
      BY <1>types, <2>1, <3>1, <3>2
  <2> QED
    BY <2>2, <2>3
<1> QED
  BY <1>3, <1>4

-----------------------------------------------------------------------------
(* The time-step loop.                                                     *)

LEMMA BeginRunInv ==
  ASSUME HaloInv, NEW r \in Rank, BeginRun(r)
  PROVE  HaloInv'
<1>1. op[r] \in DOMAIN script
  BY HaloAssumption DEF BeginRun, Calling, HaloInv, TypeOK
<1>2. CurCall(r).first \in Int
  BY <1>1, CallType DEF Call
<1>3. 1 \in Pack
  BY HaloAssumption DEF Pack
<1>4. /\ swap' \in [Rank -> [Var -> SwapRange]]
      /\ todo' \in TodoType
      /\ trail' \in [Rank -> Seq(ExchangeRecord)]
  BY StartType DEF BeginRun, HaloInv, TypeOK
<1>5. TypeOK'
  BY <1>2, <1>3, <1>4 DEF BeginRun, HaloInv, TypeOK, meta, reqs, bufs, net
<1>6. InCall'
  BY <1>1 DEF BeginRun, HaloInv, InCall, TypeOK
<1> QED
  BY <1>5, <1>6 DEF HaloInv

LEMMA SkipPackInv ==
  ASSUME HaloInv, NEW r \in Rank, SkipPack(r)
  PROVE  HaloInv'
<1>1. op[r] \in DOMAIN script
  BY DEF SkipPack, HaloInv, InCall
<1>2. /\ op' \in [Rank -> Nat \ {0}]
      /\ pc' \in [Rank -> PcType]
      /\ step' \in [Rank -> Int]
      /\ pack' \in [Rank -> Pack]
      /\ InCall'
  BY <1>1, NextPackType DEF SkipPack
<1> QED
  BY <1>2 DEF SkipPack, HaloInv, TypeOK, PcType, meta, reqs, bufs, net

LEMMA EvalExteriorInv ==
  ASSUME HaloInv, NEW r \in Rank, EvalExterior(r)
  PROVE  HaloInv'
<1>1. op[r] \in DOMAIN script
  BY DEF EvalExterior, HaloInv, InCall
<1>2. /\ FirstAfter(r) \in [Var -> Int]
      /\ DirtyAfter(r) \in [Var -> [Slot -> BOOLEAN]]
      /\ DataAfter(r, {"ext"}) \in [Var -> [Slot -> [Zone -> Value]]]
  BY <1>1, AfterType, DataAfterType
<1>3. /\ swap' \in [Rank -> [Var -> SwapRange]]
      /\ todo' \in TodoType
      /\ trail' \in [Rank -> Seq(ExchangeRecord)]
  BY <1>2, StartType DEF EvalExterior, HaloInv
<1>4. /\ data' \in [Rank -> [Var -> [Slot -> [Zone -> Value]]]]
      /\ first' \in [Rank -> [Var -> Int]]
      /\ dirty' \in [Rank -> [Var -> [Slot -> BOOLEAN]]]
  BY <1>2 DEF EvalExterior, HaloInv, TypeOK
<1>pc. pc' \in [Rank -> PcType]
  BY DEF EvalExterior, HaloInv, TypeOK, PcType
<1>6. TypeOK'
  BY <1>3, <1>4, <1>pc DEF EvalExterior, HaloInv, TypeOK, PcType, reqs, bufs, net
<1>5. InCall'
  BY <1>1 DEF EvalExterior, HaloInv, InCall, TypeOK
<1> QED
  BY <1>5, <1>6 DEF HaloInv

LEMMA EvalInteriorInv ==
  ASSUME HaloInv, NEW r \in Rank, EvalInterior(r)
  PROVE  HaloInv'
<1>1. op[r] \in DOMAIN script
  BY DEF EvalInterior, HaloInv, InCall
<1>2. /\ FirstAfter(r) \in [Var -> Int]
      /\ DataAfter(r, {"int"}) \in [Var -> [Slot -> [Zone -> Value]]]
  BY <1>1, AfterType, DataAfterType
<1>3. /\ swap' \in [Rank -> [Var -> SwapRange]]
      /\ todo' \in TodoType
      /\ trail' \in [Rank -> Seq(ExchangeRecord)]
  BY <1>2, StartType DEF EvalInterior, HaloInv
<1>4. /\ data' \in [Rank -> [Var -> [Slot -> [Zone -> Value]]]]
      /\ first' \in [Rank -> [Var -> Int]]
  BY <1>2 DEF EvalInterior, HaloInv, TypeOK
<1>pc. pc' \in [Rank -> PcType]
  BY DEF EvalInterior, HaloInv, TypeOK, PcType
<1>6. TypeOK'
  BY <1>3, <1>4, <1>pc DEF EvalInterior, HaloInv, TypeOK, PcType, reqs, bufs, net
<1>5. InCall'
  BY <1>1 DEF EvalInterior, HaloInv, InCall, TypeOK
<1> QED
  BY <1>5, <1>6 DEF HaloInv

LEMMA EvalAllInv ==
  ASSUME HaloInv, NEW r \in Rank, EvalAll(r)
  PROVE  HaloInv'
<1>1. op[r] \in DOMAIN script
  BY DEF EvalAll, HaloInv, InCall
<1>2. /\ FirstAfter(r) \in [Var -> Int]
      /\ DirtyAfter(r) \in [Var -> [Slot -> BOOLEAN]]
      /\ DataAfter(r, {"ext", "int"}) \in [Var -> [Slot -> [Zone -> Value]]]
  BY <1>1, AfterType, DataAfterType
<1>3. /\ swap' \in [Rank -> [Var -> SwapRange]]
      /\ todo' \in TodoType
      /\ trail' \in [Rank -> Seq(ExchangeRecord)]
  BY <1>2, StartType DEF EvalAll, HaloInv
<1>4. /\ data' \in [Rank -> [Var -> [Slot -> [Zone -> Value]]]]
      /\ first' \in [Rank -> [Var -> Int]]
      /\ dirty' \in [Rank -> [Var -> [Slot -> BOOLEAN]]]
  BY <1>2 DEF EvalAll, HaloInv, TypeOK
<1>pc. pc' \in [Rank -> PcType]
  BY DEF EvalAll, HaloInv, TypeOK, PcType
<1>6. TypeOK'
  BY <1>3, <1>4, <1>pc DEF EvalAll, HaloInv, TypeOK, PcType, reqs, bufs, net
<1>5. InCall'
  BY <1>1 DEF EvalAll, HaloInv, InCall, TypeOK
<1> QED
  BY <1>5, <1>6 DEF HaloInv

LEMMA ExchangeDoneInv ==
  ASSUME HaloInv, NEW r \in Rank, ExchangeDone(r)
  PROVE  HaloInv'
<1>1. op[r] \in DOMAIN script
  BY DEF ExchangeDone, HaloInv, InCall
<1>2. swap' \in [Rank -> [Var -> SwapRange]]
  <2>1. NoSteps \in SwapRange
    BY DEF NoSteps, SwapRange
  <2> QED
    BY <2>1 DEF ExchangeDone, HaloInv, TypeOK
<1>3. /\ op' \in [Rank -> Nat \ {0}]
      /\ pc' \in [Rank -> PcType]
      /\ step' \in [Rank -> Int]
      /\ pack' \in [Rank -> Pack]
      /\ InCall'
  <2>1. CASE NextPack(r)
    BY <1>1, <2>1, NextPackType DEF ExchangeDone
  <2>2. CASE UNCHANGED <<op, step, pack>>
             /\ \E p \in {"packs", "inner", "barrier"} : pc' = [pc EXCEPT ![r] = p]
    BY <1>1, <2>2 DEF ExchangeDone, HaloInv, TypeOK, InCall, PcType
  <2> QED
    BY <2>1, <2>2 DEF ExchangeDone
<1> QED
  BY <1>2, <1>3 DEF ExchangeDone, HaloInv, TypeOK, PcType, meta, reqs, bufs, net

-----------------------------------------------------------------------------
(* The exchange.  None of its actions moves a rank in the program.         *)

LEMMA InCallKept ==
  ASSUME InCall, UNCHANGED calc
  PROVE  InCall'
BY DEF InCall, calc

LEMMA DoneType ==
  ASSUME TypeOK, NEW r \in Rank, NEW a, NEW v, NEW s, Done(r, a, v, s)
  PROVE  todo' \in TodoType
<1>1. todo \in TodoType /\ todo' = [todo EXCEPT ![r] = @ \ {[act |-> a, var |-> v, side |-> s]}]
  BY DEF Done, TypeOK
<1> QED
  BY <1>1 DEF TodoType

(* Only items of the lists are worked on, and they have a neighbour.       *)
LEMMA HeadType ==
  ASSUME TypeOK, NEW r \in Rank, NEW a, NEW v, NEW s, IsHead(r, a, v, s)
  PROVE  HasNbr(r, s)
<1> DEFINE i == [act |-> a, var |-> v, side |-> s]
<1>1. i \in todo[r] /\ i.side = s
  BY DEF IsHead
<1>2. todo \in TodoType
  BY DEF TypeOK
<1> QED
  BY <1>1, <1>2 DEF TodoType

LEMMA IrecvInv ==
  ASSUME HaloInv, NEW r \in Rank, NEW v \in Var, NEW s \in Side, Irecv(r, v, s)
  PROVE  HaloInv'
<1>1. todo' \in TodoType /\ InCall'
  BY DoneType, InCallKept DEF Irecv, HaloInv
<1>2. recvReq' \in [Rank -> [Var -> [Side -> Request]]]
  BY DEF Irecv, HaloInv, TypeOK, Request
<1>3. [tag |-> Tag(r, v), var |-> v, steps |-> swap[r][v]] \in Posting
  BY TagNat DEF HaloInv, TypeOK, Posting
<1>4. posted' \in [Rank -> [Side -> Seq(Posting)]]
  BY <1>3 DEF Irecv, HaloInv, TypeOK
<1> QED
  BY <1>1, <1>2, <1>4 DEF Irecv, HaloInv, TypeOK, calc, meta, bufs

LEMMA PackIsendInv ==
  ASSUME HaloInv, NEW r \in Rank, NEW v \in Var, NEW s \in Side, PackIsend(r, v, s)
  PROVE  HaloInv'
<1>1. todo' \in TodoType /\ InCall'
  BY DoneType, InCallKept DEF PackIsend, HaloInv
<1>2. PackSteps(data[r], v, swap[r][v], "ext") \in Seq(Value)
  BY PackStepsType DEF HaloInv, TypeOK, Zone
<1>3. /\ sendBuf' \in [Rank -> [Var -> [Side -> Seq(Value)]]]
      /\ sendReq' \in [Rank -> [Var -> [Side -> Request]]]
  BY <1>2 DEF PackIsend, HaloInv, TypeOK, Request
<1>4. [tag |-> Tag(r, v), var |-> v, steps |-> swap[r][v], exch |-> Len(trail[r]),
       eager |-> FALSE, data |-> <<>>] \in Message
  BY TagNat DEF HaloInv, TypeOK, Message
<1>5. chan' \in [Rank -> [Side -> Seq(Message)]]
  BY <1>4 DEF PackIsend, HaloInv, TypeOK
<1> QED
  BY <1>1, <1>3, <1>5 DEF PackIsend, HaloInv, TypeOK, calc, meta

LEMMA PackShmInv ==
  ASSUME HaloInv, NEW r \in Rank, NEW v \in Var, NEW s \in Side, PackShm(r, v, s)
  PROVE  HaloInv'
<1>1. todo' \in TodoType /\ InCall'
  BY DoneType, InCallKept DEF PackShm, HaloInv
<1>2. PackSteps(data[r], v, swap[r][v], "ext") \in Seq(Value)
  BY PackStepsType DEF HaloInv, TypeOK, Zone
<1>3. /\ sendBuf' \in [Rank -> [Var -> [Side -> Seq(Value)]]]
      /\ full' \in [Rank -> [Var -> [Side -> BOOLEAN]]]
  BY <1>2 DEF PackShm, HaloInv, TypeOK
<1> QED
  BY <1>1, <1>3 DEF PackShm, HaloInv, TypeOK, calc, meta, reqs, net

LEMMA UnpackKeepsType ==
  ASSUME TypeOK, NEW r \in Rank, NEW v \in Var, NEW s \in Side,
         NEW b \in Seq(Value), Unpack(r, v, s, b)
  PROVE  /\ data' \in [Rank -> [Var -> [Slot -> [Zone -> Value]]]]
         /\ first' \in [Rank -> [Var -> Int]]
         /\ dirty' \in [Rank -> [Var -> [Slot -> BOOLEAN]]]
<1> DEFINE w == swap[r][v]
<1>1. w \in SwapRange /\ w.first \in Int /\ w.last \in Int /\ s \in Zone
  BY DEF TypeOK, SwapRange, Side, Zone
<1>2. Unpacked(data[r], v, w, s, b) \in [Slot -> [Zone -> Value]]
  BY <1>1, UnpackedType DEF TypeOK
<1>3. UpdateValidSteps(v, first[r][v], w.first, w.last) \in Int
  BY <1>1, ValidStepInt DEF TypeOK
<1>4. data' \in [Rank -> [Var -> [Slot -> [Zone -> Value]]]]
  BY <1>2 DEF Unpack, TypeOK
<1>5. first' \in [Rank -> [Var -> Int]]
  BY <1>3 DEF Unpack, TypeOK
<1>6. dirty' \in [Rank -> [Var -> [Slot -> BOOLEAN]]]
  BY DEF Unpack, TypeOK
<1> QED
  BY <1>4, <1>5, <1>6

LEMMA UnpackMpiInv ==
  ASSUME HaloInv, NEW r \in Rank, NEW v \in Var, NEW s \in Side, UnpackMpi(r, v, s)
  PROVE  HaloInv'
<1>1. todo' \in TodoType /\ InCall'
  BY DoneType, InCallKept DEF UnpackMpi, HaloInv
<1>2. recvBuf[r][v][s] \in Seq(Value)
  BY DEF HaloInv, TypeOK
<1>3. /\ data' \in [Rank -> [Var -> [Slot -> [Zone -> Value]]]]
      /\ first' \in [Rank -> [Var -> Int]]
      /\ dirty' \in [Rank -> [Var -> [Slot -> BOOLEAN]]]
  BY <1>2, UnpackKeepsType DEF UnpackMpi, HaloInv
<1>4. recvReq' \in [Rank -> [Var -> [Side -> Request]]]
  BY DEF UnpackMpi, HaloInv, TypeOK, Request
<1> QED
  BY <1>1, <1>3, <1>4 DEF UnpackMpi, HaloInv, TypeOK, calc, bufs, net

(* Where memory is shared there is a neighbour to share it with.           *)
LEMMA NbrRank ==
  ASSUME NEW r \in Rank, NEW s \in Side, HasNbr(r, s)
  PROVE  Nbr(r, s) \in Rank /\ Opp(s) \in Side
BY HaloAssumption DEF HasNbr, Nbr, Opp, Rank, Side

LEMMA UnpackShmInv ==
  ASSUME HaloInv, NEW r \in Rank, NEW v \in Var, NEW s \in Side, UnpackShm(r, v, s)
  PROVE  HaloInv'
<1> DEFINE b == sendBuf[Nbr(r, s)][v][Opp(s)]
<1>1. todo' \in TodoType /\ InCall'
  BY DoneType, InCallKept DEF UnpackShm, HaloInv
<1>2. HasNbr(r, s)
  BY HeadType DEF UnpackShm, HaloInv
<1>3. Nbr(r, s) \in Rank /\ Opp(s) \in Side
  BY <1>2, NbrRank
<1>4. b \in Seq(Value)
  BY <1>3 DEF HaloInv, TypeOK
<1>5. /\ data' \in [Rank -> [Var -> [Slot -> [Zone -> Value]]]]
      /\ first' \in [Rank -> [Var -> Int]]
      /\ dirty' \in [Rank -> [Var -> [Slot -> BOOLEAN]]]
  BY <1>4, UnpackKeepsType DEF UnpackShm, HaloInv
<1>6. full' \in [Rank -> [Var -> [Side -> BOOLEAN]]]
  BY <1>3 DEF UnpackShm, HaloInv, TypeOK
<1> QED
  BY <1>1, <1>5, <1>6 DEF UnpackShm, HaloInv, TypeOK, calc, reqs, net

LEMMA FinalInv ==
  ASSUME HaloInv, NEW r \in Rank, NEW v \in Var, NEW s \in Side, Final(r, v, s)
  PROVE  HaloInv'
<1>1. todo' \in TodoType /\ InCall'
  BY DoneType, InCallKept DEF Final, HaloInv
<1>2. sendReq' \in [Rank -> [Var -> [Side -> Request]]]
  BY DEF Final, HaloInv, TypeOK, Request
<1>3. dirty' \in [Rank -> [Var -> [Slot -> BOOLEAN]]]
  BY DEF Final, HaloInv, TypeOK
<1> QED
  BY <1>1, <1>2, <1>3 DEF Final, HaloInv, TypeOK, calc, bufs, net

LEMMA PokeInv ==
  ASSUME HaloInv, NEW r \in Rank, Poke(r)
  PROVE  HaloInv'
<1>1. /\ sendReq' \in [Rank -> [Var -> [Side -> Request]]]
      /\ recvReq' \in [Rank -> [Var -> [Side -> Request]]]
  BY DEF Poke, HaloInv, TypeOK, Request
<1>2. InCall'
  BY InCallKept DEF Poke, HaloInv
<1> QED
  BY <1>1, <1>2 DEF Poke, HaloInv, TypeOK, calc, meta, bufs, net

(* What a message carries and what a receive asks for is typed.            *)
(* Changing the state of one request keeps the type of all of them.        *)
LEMMA RequestSet ==
  ASSUME NEW f \in [Rank -> [Var -> [Side -> Request]]],
         NEW r \in Rank, NEW v \in Var, NEW s \in Side, NEW x \in Request
  PROVE  [f EXCEPT ![r][v][s] = x] \in [Rank -> [Var -> [Side -> Request]]]
  OBVIOUS

LEMMA DeliverInv ==
  ASSUME HaloInv, NEW r \in Rank, NEW s \in Side, Deliver(r, s)
  PROVE  HaloInv'
<1> DEFINE q == Nbr(r, s)
           d == Opp(s)
<1>1. q \in Rank /\ d \in Side
  BY NbrRank DEF Deliver
<1>2. PICK i \in DOMAIN posted[r][s], k \in DOMAIN chan[q][d] :
        /\ recvBuf' = [recvBuf EXCEPT ![r][posted[r][s][i].var][s] =
                         IF chan[q][d][k].eager THEN chan[q][d][k].data
                                                ELSE sendBuf[q][chan[q][d][k].var][d]]
        /\ recvReq' = [recvReq EXCEPT ![r][posted[r][s][i].var][s] = "complete"]
        /\ sendReq' = IF chan[q][d][k].eager THEN sendReq
                      ELSE [sendReq EXCEPT ![q][chan[q][d][k].var][d] = "complete"]
        /\ posted' = [posted EXCEPT ![r][s] = RemoveAt(@, i)]
        /\ chan' = [chan EXCEPT ![q][d] = RemoveAt(@, k)]
  BY DEF Deliver
<1>3. posted[r][s] \in Seq(Posting) /\ chan[q][d] \in Seq(Message)
  BY <1>1 DEF HaloInv, TypeOK
<1>4. posted[r][s][i] \in Posting /\ chan[q][d][k] \in Message
  BY <1>3
<1>5. /\ posted[r][s][i].var \in Var
      /\ chan[q][d][k].var \in Var
      /\ chan[q][d][k].data \in Seq(Value)
  BY <1>4 DEF Posting, Message
<1>6. recvBuf' \in [Rank -> [Var -> [Side -> Seq(Value)]]]
  <2> DEFINE m == chan[q][d][k]
             v == posted[r][s][i].var
             b == IF m.eager THEN m.data ELSE sendBuf[q][m.var][d]
  <2>1. sendBuf \in [Rank -> [Var -> [Side -> Seq(Value)]]]
        /\ recvBuf \in [Rank -> [Var -> [Side -> Seq(Value)]]]
    BY DEF HaloInv, TypeOK
  <2>2. b \in Seq(Value)
    BY <1>1, <1>5, <2>1
  <2>3. recvBuf' = [recvBuf EXCEPT ![r][v][s] = b] /\ v \in Var
    BY <1>2, <1>5
  <2> HIDE DEF b, v
  <2> QED
    BY <2>1, <2>2, <2>3
<1>a. /\ "complete" \in Request
      /\ recvReq \in [Rank -> [Var -> [Side -> Request]]]
      /\ sendReq \in [Rank -> [Var -> [Side -> Request]]]
  BY DEF HaloInv, TypeOK, Request
<1>7. recvReq' \in [Rank -> [Var -> [Side -> Request]]]
  BY <1>2, <1>5, <1>a, RequestSet
<1>8. sendReq' \in [Rank -> [Var -> [Side -> Request]]]
  <2>1. CASE chan[q][d][k].eager
    BY <1>2, <1>a, <2>1
  <2>2. CASE ~chan[q][d][k].eager
    <3>1. sendReq' = [sendReq EXCEPT ![q][chan[q][d][k].var][d] = "complete"]
      BY <1>2, <2>2
    <3> QED
      BY <1>1, <1>5, <1>a, <3>1, RequestSet
  <2> QED
    BY <2>1, <2>2
<1>9. posted' \in [Rank -> [Side -> Seq(Posting)]]
  <2>1. RemoveAt(posted[r][s], i) \in Seq(Posting)
    BY <1>3, RemoveAtType
  <2> QED
    BY <1>2, <2>1 DEF HaloInv, TypeOK
<1>10. chan' \in [Rank -> [Side -> Seq(Message)]]
  <2>1. RemoveAt(chan[q][d], k) \in Seq(Message)
    BY <1>3, RemoveAtType
  <2> QED
    BY <1>1, <1>2, <2>1 DEF HaloInv, TypeOK
<1>11. InCall'
  BY InCallKept DEF Deliver, HaloInv
<1> QED
  BY <1>6, <1>7, <1>8, <1>9, <1>10, <1>11 DEF Deliver, HaloInv, TypeOK, calc, meta

LEMMA EagerInv ==
  ASSUME HaloInv, NEW r \in Rank, NEW s \in Side, Eager(r, s)
  PROVE  HaloInv'
<1>1. PICK k \in DOMAIN chan[r][s] :
        /\ chan' = [chan EXCEPT ![r][s][k] =
                     [chan[r][s][k] EXCEPT !.eager = TRUE,
                                           !.data = sendBuf[r][chan[r][s][k].var][s]]]
        /\ sendReq' = [sendReq EXCEPT ![r][chan[r][s][k].var][s] = "complete"]
  BY DEF Eager
<1> DEFINE m == chan[r][s][k]
<1>2. chan[r][s] \in Seq(Message) /\ m \in Message
  BY DEF HaloInv, TypeOK
<1>3. m.var \in Var
  BY <1>2 DEF Message
<1>4. sendBuf[r][m.var][s] \in Seq(Value)
  BY <1>3 DEF HaloInv, TypeOK
<1>5. [m EXCEPT !.eager = TRUE, !.data = sendBuf[r][m.var][s]] \in Message
  BY <1>2, <1>4 DEF Message
<1>6. chan' \in [Rank -> [Side -> Seq(Message)]]
  <2> DEFINE x == [m EXCEPT !.eager = TRUE, !.data = sendBuf[r][m.var][s]]
  <2>1. [chan[r][s] EXCEPT ![k] = x] \in Seq(Message)
    BY <1>2, <1>5, ExceptSeq
  <2> QED
    BY <1>1, <2>1 DEF HaloInv, TypeOK
<1>7. sendReq' \in [Rank -> [Var -> [Side -> Request]]]
  BY <1>1, <1>3 DEF HaloInv, TypeOK, Request
<1>8. InCall'
  BY InCallKept DEF Eager, HaloInv
<1> QED
  BY <1>6, <1>7, <1>8 DEF Eager, HaloInv, TypeOK, calc, meta, bufs

-----------------------------------------------------------------------------
(* The other calls.                                                        *)

LEMMA CallingType ==
  ASSUME HaloInv, NEW r \in Rank, NEW k, Calling(r, k)
  PROVE  /\ op[r] \in DOMAIN script
         /\ CurCall(r) \in Call
         /\ CurCall(r).var \in Var /\ CurCall(r).first \in Int
<1>1. op[r] \in DOMAIN script
  BY HaloAssumption DEF Calling, HaloInv, TypeOK
<1> QED
  BY <1>1, CallType DEF Call

LEMMA CallReturns ==
  ASSUME HaloInv, NEW r \in Rank, Returns(r), script' = script
  PROVE  /\ op' \in [Rank -> Nat \ {0}]
         /\ pc' \in [Rank -> PcType]
         /\ InCall'
BY ReturnsType DEF HaloInv, TypeOK, PcType

LEMMA CallContinues ==
  ASSUME HaloInv, NEW r \in Rank, op[r] \in DOMAIN script, NEW p \in PcType,
         pc' = [pc EXCEPT ![r] = p], op' = op, script' = script
  PROVE  pc' \in [Rank -> PcType] /\ InCall'
BY DEF HaloInv, TypeOK, InCall, PcType

LEMMA FillInv ==
  ASSUME HaloInv, NEW r \in Rank, Fill(r)
  PROVE  HaloInv'
<1>1. CurCall(r).var \in Var /\ op[r] \in Int
  BY CallingType DEF Fill, HaloInv, TypeOK
<1>2. [gen |-> op[r], step |-> 0] \in Value
  BY <1>1 DEF Value
<1>3. /\ data' \in [Rank -> [Var -> [Slot -> [Zone -> Value]]]]
      /\ dirty' \in [Rank -> [Var -> [Slot -> BOOLEAN]]]
  BY <1>1, <1>2 DEF Fill, HaloInv, TypeOK
<1>4. op' \in [Rank -> Nat \ {0}] /\ pc' \in [Rank -> PcType] /\ InCall'
  BY CallReturns DEF Fill
<1> QED
  BY <1>3, <1>4 DEF Fill, HaloInv, TypeOK, PcType, reqs, bufs, net

(* Setting the points of a var keeps the types.                            *)
LEMMA SetType ==
  ASSUME HaloInv, NEW r \in Rank, op[r] \in DOMAIN script, NEW Z
  PROVE  /\ OwnZonesSet(r, CurCall(r), Z) \in [Rank -> [Var -> [Slot -> [Zone -> Value]]]]
         /\ DirtyMarked(r, CurCall(r)) \in [Rank -> [Var -> [Slot -> BOOLEAN]]]
<1> DEFINE c == CurCall(r)
           n == Wrap(c.var, c.first)
           x == [gen |-> op[r], step |-> StepOf(c.var, c.first)]
<1>1. c.var \in Var /\ c.first \in Int /\ op[r] \in Int
  <2>1. c.var \in Var /\ c.first \in Int
    BY CallType DEF Call
  <2>2. op[r] \in Int
    BY DEF HaloInv, TypeOK
  <2> QED
    BY <2>1, <2>2
<1>2. n \in Slot
  BY <1>1, WrapSlot
<1>3. x \in Value
  BY <1>1 DEF Value, StepOf
<1> DEFINE zs == [z \in Zone |-> IF z \in Z THEN x ELSE data[r][c.var][n][z]]
<1>4. zs \in [Zone -> Value]
  <2> HIDE DEF n, x, c
  <2> QED
    BY <1>1, <1>2, <1>3 DEF HaloInv, TypeOK
<1>5. OwnZonesSet(r, c, Z) = [data EXCEPT ![r][c.var][n] = zs]
  BY <1>1, <1>2 DEF OwnZonesSet, HaloInv, TypeOK
<1>6. DirtyMarked(r, c) = [dirty EXCEPT ![r][c.var][n] = TRUE]
  BY DEF DirtyMarked
<1> HIDE DEF zs, n, x, c
<1>7. OwnZonesSet(r, c, Z) \in [Rank -> [Var -> [Slot -> [Zone -> Value]]]]
  BY <1>1, <1>2, <1>4, <1>5 DEF HaloInv, TypeOK
<1>8. DirtyMarked(r, c) \in [Rank -> [Var -> [Slot -> BOOLEAN]]]
  BY <1>1, <1>2, <1>6 DEF HaloInv, TypeOK
<1> QED
  BY <1>7, <1>8 DEF c

LEMMA SetSliceInv ==
  ASSUME HaloInv, NEW r \in Rank, SetSlice(r)
  PROVE  HaloInv'
<1>1. /\ op[r] \in DOMAIN script
      /\ CurCall(r).var \in Var /\ CurCall(r).first \in Int
  BY CallingType DEF SetSlice
<1>2. /\ data' \in [Rank -> [Var -> [Slot -> [Zone -> Value]]]]
      /\ dirty' \in [Rank -> [Var -> [Slot -> BOOLEAN]]]
  BY <1>1, SetType DEF SetSlice
<1>3. first' \in [Rank -> [Var -> Int]]
  BY <1>1, ValidStepInt DEF SetSlice, HaloInv, TypeOK
<1>4. op' \in [Rank -> Nat \ {0}] /\ pc' \in [Rank -> PcType] /\ InCall'
  BY CallReturns DEF SetSlice
<1> QED
  BY <1>2, <1>3, <1>4 DEF SetSlice, HaloInv, TypeOK, PcType, reqs, bufs, net

LEMMA SetElemsInv ==
  ASSUME HaloInv, NEW r \in Rank, SetElems(r)
  PROVE  HaloInv'
<1>1. op[r] \in DOMAIN script
  BY CallingType DEF SetElems
<1>2. /\ data' \in [Rank -> [Var -> [Slot -> [Zone -> Value]]]]
      /\ dirty' \in [Rank -> [Var -> [Slot -> BOOLEAN]]]
  BY <1>1, SetType DEF SetElems
<1>3. op' \in [Rank -> Nat \ {0}] /\ pc' \in [Rank -> PcType] /\ InCall'
  BY CallReturns DEF SetElems
<1> QED
  BY <1>2, <1>3 DEF SetElems, HaloInv, TypeOK, PcType, reqs, bufs, net

LEMMA SetPointInv ==
  ASSUME HaloInv, NEW r \in Rank, SetPoint(r)
  PROVE  HaloInv'
<1>1. op[r] \in DOMAIN script
  BY CallingType DEF SetPoint
<1>2. /\ data' \in [Rank -> [Var -> [Slot -> [Zone -> Value]]]]
      /\ dirty' \in [Rank -> [Var -> [Slot -> BOOLEAN]]]
  <2>1. CASE r = CurCall(r).rank
    BY <1>1, <2>1, SetType DEF SetPoint
  <2>2. CASE r # CurCall(r).rank
    BY <2>2 DEF SetPoint, HaloInv, TypeOK
  <2> QED
    BY <2>1, <2>2
<1>3. op' \in [Rank -> Nat \ {0}] /\ pc' \in [Rank -> PcType] /\ InCall'
  BY CallReturns DEF SetPoint
<1> QED
  BY <1>2, <1>3 DEF SetPoint, HaloInv, TypeOK, PcType, reqs, bufs, net

LEMMA TuneInv ==
  ASSUME HaloInv, NEW r \in Rank, NEW k \in TuneSteps, Tune(r, k)
  PROVE  HaloInv'
<1>1. op[r] \in DOMAIN script
  BY CallingType DEF Tune
<1>2. /\ StepDir \in Int
      /\ StepDir * k * Stride \in Int
  BY HaloAssumption, SMT DEF Stride
<1> DEFINE written == UNION {Packs[p].writes : p \in Pack}
           outs == {StepDir * i : i \in 1 .. k * Stride}
           end == StepDir * k * Stride
<1>3. first' \in [Rank -> [Var -> Int]]
  <2>1. first' = [first EXCEPT ![r] = [v \in Var |->
                    IF v \in written THEN UpdateValidSteps(v, @[v], StepDir, end)
                                     ELSE @[v]]]
    BY DEF Tune
  <2>2. first \in [Rank -> [Var -> Int]]
    BY DEF HaloInv, TypeOK
  <2> HIDE DEF written, end
  <2>3. \A v \in Var : UpdateValidSteps(v, first[r][v], StepDir, end) \in Int
    BY <1>2, <2>2, ValidStepInt DEF end
  <2> QED
    BY <2>1, <2>2, <2>3
<1>4. dirty' \in [Rank -> [Var -> [Slot -> BOOLEAN]]]
  <2>1. dirty' = [dirty EXCEPT ![r] = [v \in Var |-> [n \in Slot |->
                    \/ @[v][n]
                    \/ v \in written /\ \E t \in outs : Wrap(v, t) = n]]]
    BY DEF Tune
  <2>2. dirty \in [Rank -> [Var -> [Slot -> BOOLEAN]]]
    BY DEF HaloInv, TypeOK
  <2> HIDE DEF written, outs
  <2> QED
    BY <2>1, <2>2
<1>5. data' \in [Rank -> [Var -> [Slot -> [Zone -> Value]]]]
  <2>1. data' = [data EXCEPT ![r] = [v \in Var |-> [n \in Slot |-> [z \in Zone |->
                   IF /\ v \in written /\ z \in {"ext", "int"}
                      /\ \E t \in outs : Wrap(v, t) = n
                   THEN Garbage ELSE @[v][n][z]]]]]
    BY DEF Tune
  <2>2. data \in [Rank -> [Var -> [Slot -> [Zone -> Value]]]]
    BY DEF HaloInv, TypeOK
  <2>3. Garbage \in Value
    BY DEF Garbage, Value
  <2> HIDE DEF written, outs
  <2> QED
    BY <2>1, <2>2, <2>3
<1>6. pc' \in [Rank -> PcType] /\ InCall'
  BY <1>1, CallContinues DEF Tune, PcType
<1> QED
  BY <1>3, <1>4, <1>5, <1>6 DEF Tune, HaloInv, TypeOK, PcType, reqs, bufs, net

LEMMA BeginPrepareInv ==
  ASSUME HaloInv, NEW r \in Rank, BeginPrepare(r)
  PROVE  HaloInv'
<1>1. op[r] \in DOMAIN script
  BY CallingType DEF BeginPrepare
<1>2. pc' \in [Rank -> PcType] /\ InCall'
  BY <1>1, CallContinues DEF BeginPrepare, PcType
<1> QED
  BY <1>2 DEF BeginPrepare, HaloInv, TypeOK, PcType, meta, reqs, bufs, net

LEMMA BeginEndInv ==
  ASSUME HaloInv, NEW r \in Rank, BeginEnd(r)
  PROVE  HaloInv'
<1>1. op[r] \in DOMAIN script
  BY CallingType DEF BeginEnd
<1>2. pc' \in [Rank -> PcType] /\ InCall'
  BY <1>1, CallContinues DEF BeginEnd, PcType
<1>3. /\ swap' \in [Rank -> [Var -> SwapRange]]
      /\ todo' \in TodoType
      /\ trail' \in [Rank -> Seq(ExchangeRecord)]
  BY StartType DEF BeginEnd, HaloInv, TypeOK
<1> QED
  BY <1>2, <1>3 DEF BeginEnd, HaloInv, TypeOK, PcType, meta, reqs, bufs, net

LEMMA ReleaseType ==
  ASSUME TypeOK, NEW r \in Rank, ReleaseMpiData(r)
  PROVE  /\ sendReq' \in [Rank -> [Var -> [Side -> Request]]]
         /\ recvReq' \in [Rank -> [Var -> [Side -> Request]]]
         /\ sendBuf' \in [Rank -> [Var -> [Side -> Seq(Value)]]]
         /\ recvBuf' \in [Rank -> [Var -> [Side -> Seq(Value)]]]
         /\ full' \in [Rank -> [Var -> [Side -> BOOLEAN]]]
<1>1. NullReqs[r] \in [Var -> [Side -> Request]]
  BY DEF NullReqs, Request
<1>2. Nothing[r] \in [Var -> [Side -> Seq(Value)]]
  BY DEF Nothing
<1> QED
  BY <1>1, <1>2 DEF ReleaseMpiData, TypeOK

LEMMA LeaveBarrierInv ==
  ASSUME HaloInv, NEW r \in Rank, LeaveBarrier(r)
  PROVE  HaloInv'
<1>1. op[r] \in DOMAIN script
  BY DEF LeaveBarrier, HaloInv, InCall
<1>2. op' \in [Rank -> Nat \ {0}] /\ pc' \in [Rank -> PcType] /\ InCall'
  <2>1. CASE Returns(r)
    BY <2>1, CallReturns DEF LeaveBarrier
  <2>2. CASE pc' = [pc EXCEPT ![r] = "alloc_barrier"] /\ UNCHANGED op
    BY <1>1, <2>2, CallContinues DEF LeaveBarrier, HaloInv, TypeOK, PcType
  <2> QED
    BY <2>1, <2>2 DEF LeaveBarrier
<1>3. /\ sendReq' \in [Rank -> [Var -> [Side -> Request]]]
      /\ recvReq' \in [Rank -> [Var -> [Side -> Request]]]
      /\ sendBuf' \in [Rank -> [Var -> [Side -> Seq(Value)]]]
      /\ recvBuf' \in [Rank -> [Var -> [Side -> Seq(Value)]]]
      /\ full' \in [Rank -> [Var -> [Side -> BOOLEAN]]]
  <2>1. CASE ReleaseMpiData(r)
    BY <2>1, ReleaseType DEF HaloInv
  <2>2. CASE UNCHANGED <<reqs, bufs>>
    BY <2>2 DEF reqs, bufs, HaloInv, TypeOK
  <2> QED
    BY <2>1, <2>2 DEF LeaveBarrier
<1> QED
  BY <1>2, <1>3 DEF LeaveBarrier, HaloInv, TypeOK, PcType, meta, net

LEMMA LeaveAllocBarrierInv ==
  ASSUME HaloInv, NEW r \in Rank, LeaveAllocBarrier(r)
  PROVE  HaloInv'
<1>1. op[r] \in DOMAIN script
  BY DEF LeaveAllocBarrier, HaloInv, InCall
<1>2. op' \in [Rank -> Nat \ {0}] /\ pc' \in [Rank -> PcType] /\ InCall'
  BY <1>1, CallContinues DEF LeaveAllocBarrier, HaloInv, TypeOK, PcType
<1> QED
  BY <1>2 DEF LeaveAllocBarrier, HaloInv, TypeOK, PcType, meta, reqs, bufs, net

LEMMA LeaveShmBarrierInv ==
  ASSUME HaloInv, NEW r \in Rank, LeaveShmBarrier(r)
  PROVE  HaloInv'
<1>1. op' \in [Rank -> Nat \ {0}] /\ pc' \in [Rank -> PcType] /\ InCall'
  BY CallReturns DEF LeaveShmBarrier
<1> QED
  BY <1>1 DEF LeaveShmBarrier, HaloInv, TypeOK, PcType, meta, reqs, bufs, net

-----------------------------------------------------------------------------
(* Every step of every rank and of MPI keeps the invariant.                *)
LEMMA NextHaloInv == HaloInv /\ [Next]_vars => HaloInv'
<1> SUFFICES ASSUME HaloInv, [Next]_vars
             PROVE  HaloInv'
  OBVIOUS
<1>1. ASSUME NEW r \in Rank, RankStep(r)
      PROVE  HaloInv'
  <2>1. CASE BeginRun(r)
    BY <2>1, BeginRunInv
  <2>2. CASE SkipPack(r)
    BY <2>2, SkipPackInv
  <2>3. CASE EvalExterior(r)
    BY <2>3, EvalExteriorInv
  <2>4. CASE EvalInterior(r)
    BY <2>4, EvalInteriorInv
  <2>5. CASE EvalAll(r)
    BY <2>5, EvalAllInv
  <2>6. CASE ExchangeDone(r)
    BY <2>6, ExchangeDoneInv
  <2>7. ASSUME NEW v \in Var, NEW s \in Side,
               \/ Irecv(r, v, s) \/ PackIsend(r, v, s) \/ PackShm(r, v, s)
               \/ UnpackMpi(r, v, s) \/ UnpackShm(r, v, s) \/ Final(r, v, s)
        PROVE  HaloInv'
    BY <2>7, IrecvInv, PackIsendInv, PackShmInv, UnpackMpiInv, UnpackShmInv, FinalInv
  <2>8. CASE Fill(r)
    BY <2>8, FillInv
  <2>9. CASE SetSlice(r)
    BY <2>9, SetSliceInv
  <2>10. CASE SetElems(r)
    BY <2>10, SetElemsInv
  <2>11. CASE SetPoint(r)
    BY <2>11, SetPointInv
  <2>12. CASE \E k \in TuneSteps : Tune(r, k)
    BY <2>12, TuneInv
  <2>13. CASE BeginPrepare(r)
    BY <2>13, BeginPrepareInv
  <2>14. CASE BeginEnd(r)
    BY <2>14, BeginEndInv
  <2>15. CASE LeaveBarrier(r)
    BY <2>15, LeaveBarrierInv
  <2>16. CASE LeaveShmBarrier(r)
    BY <2>16, LeaveShmBarrierInv
  <2>17. CASE LeaveAllocBarrier(r)
    BY <2>17, LeaveAllocBarrierInv
  <2> QED
    BY <1>1, <2>1, <2>2, <2>3, <2>4, <2>5, <2>6, <2>7, <2>8, <2>9, <2>10, <2>11,
       <2>12, <2>13, <2>14, <2>15, <2>16, <2>17 DEF RankStep
<1>2. ASSUME NEW r \in Rank, Poke(r)
      PROVE  HaloInv'
  BY <1>2, PokeInv
<1>3. ASSUME NEW r \in Rank, NEW s \in Side, Deliver(r, s) \/ Eager(r, s)
      PROVE  HaloInv'
  BY <1>3, DeliverInv, EagerInv
<1>4. CASE UNCHANGED vars
  BY <1>4 DEF vars, calc, meta, reqs, bufs, net, HaloInv, TypeOK, InCall
<1> QED
  BY <1>1, <1>2, <1>3, <1>4 DEF Next

(* TypeOK is an invariant of the exchange, whatever the solution is.       *)
THEOREM TypeCorrect == Spec => []TypeOK
<1>1. HaloInv => TypeOK
  BY DEF HaloInv
<1> QED
  BY InitHaloInv, NextHaloInv, <1>1, PTL DEF Spec


-----------------------------------------------------------------------------
(* Requests and things to do.                                              *)

It(a, v, s) == [act |-> a, var |-> v, side |-> s]

Whole == {"exch_init", "exch_int", "exch_all", "exch_end"}   \* to the end of it
Halfway == {"exch_ext", "inner"}                             \* between two halves
Barriers == {"barrier", "alloc_barrier", "shm_barrier"}

NowSwapped(r, v) == Swapped(SwapOf(r, first[r], dirty[r])[v])

(* Where a rank may be in each kind of call.                               *)
PlaceInCall(r) ==
  /\ pc[r] \in {"packs", "inner", "exch_init", "exch_ext", "exch_int", "exch_all"} =>
       CurCall(r).kind = "run"
  /\ pc[r] = "exch_end" => CurCall(r).kind = "end"
  /\ pc[r] = "barrier" => CurCall(r).kind \in {"tune", "prepare", "end"}
  /\ pc[r] \in {"alloc_barrier", "shm_barrier"} => CurCall(r).kind = "prepare"

(* There are things to do only inside an exchange, and of a var and side   *)
(* the receive comes with its unpacking and the send with its end, in the  *)
(* same half or in the other.                                              *)
ThingsDue(r) ==
  /\ todo[r] # {} => pc[r] \in Whole \cup {"exch_ext"}
  /\ \A v \in Var, s \in Side :
       /\ It(HaloIrecv, v, s) \in todo[r] => RecvBuf(v, s) /\ ~UsesShm(r, s)
       /\ It(HaloIrecv, v, s) \in todo[r] =>
            \/ pc[r] \in Whole /\ It(HaloUnpack, v, s) \in todo[r]
            \/ pc[r] = "exch_ext" /\ NowSwapped(r, v)
       /\ It(HaloPackIsend, v, s) \in todo[r] =>
            \/ pc[r] \in Whole /\ It(HaloFinal, v, s) \in todo[r]
            \/ pc[r] = "exch_ext" /\ NowSwapped(r, v)
       /\ {It(HaloUnpack, v, s), It(HaloFinal, v, s)} \cap todo[r] # {} => pc[r] \in Whole

(* Between the two halves the window of valid steps is where the second    *)
(* half will look for it.                                                  *)
HalvesAgree(r) == pc[r] \in Halfway => FirstAfter(r) = first[r]

(* An open request has the thing to do that will close it.                 *)
RecvTracked(r) ==
  \A v \in Var, s \in Side : recvReq[r][v][s] # "null" =>
    /\ HasNbr(r, s) /\ RecvBuf(v, s) /\ ~UsesShm(r, s)
    /\ It(HaloIrecv, v, s) \notin todo[r]
    /\ \/ pc[r] \in Whole /\ It(HaloUnpack, v, s) \in todo[r]
       \/ pc[r] \in Halfway /\ NowSwapped(r, v)

SendTracked(r) ==
  \A v \in Var, s \in Side : sendReq[r][v][s] # "null" =>
    /\ HasNbr(r, s)
    /\ It(HaloPackIsend, v, s) \notin todo[r]
    /\ \/ pc[r] \in Whole /\ It(HaloFinal, v, s) \in todo[r]
       \/ pc[r] \in Halfway /\ NowSwapped(r, v)

(* MPI holds one receive, and one message it has not copied, for each      *)
(* request that is active, and no others.                                  *)
PostedActive(r) ==
  \A s \in Side :
    LET P == posted[r][s]
    IN  /\ \A i \in DOMAIN P : recvReq[r][P[i].var][s] = "active"
        /\ \A i, j \in DOMAIN P : P[i].var = P[j].var => i = j

SentActive(r) ==
  \A s \in Side :
    LET M == chan[r][s]
    IN  /\ \A k \in DOMAIN M : ~M[k].eager => sendReq[r][M[k].var][s] = "active"
        /\ \A j, k \in DOMAIN M :
             ~M[j].eager /\ ~M[k].eager /\ M[j].var = M[k].var => j = k

RequestInv(r) ==
  /\ PlaceInCall(r)
  /\ ThingsDue(r)
  /\ HalvesAgree(r)
  /\ RecvTracked(r)
  /\ SendTracked(r)
  /\ PostedActive(r)
  /\ SentActive(r)

(* Where shared buffers have been released every rank has come to the      *)
(* barrier, with all its exchanges behind it.                              *)
ReleaseInv ==
  \A r, q \in Rank, k \in DOMAIN script :
    Released(q, k) => op[r] > k \/ (op[r] = k /\ pc[r] \in Barriers)

RequestsInv == HaloInv /\ (\A r \in Rank : RequestInv(r)) /\ ReleaseInv

-----------------------------------------------------------------------------
(* Facts about one rank.                                                   *)

(* Moving the window twice for the same steps is moving it once.           *)
LEMMA ValidStepsAgain ==
  ASSUME NEW v \in Var, NEW f \in Int, NEW a \in Int, NEW b \in Int
  PROVE  UpdateValidSteps(v, UpdateValidSteps(v, f, a, b), a, b) =
           UpdateValidSteps(v, f, a, b)
<1>1. Alloc[v] \in Int /\ Alloc[v] >= 1
  BY HaloAssumption
<1>2. CASE ~HasStep[v]
  BY <1>2 DEF UpdateValidSteps, UpdateValidStep
<1>3. CASE HasStep[v]
  <2>1. \A x, y \in Int :
          /\ y < x => UpdateValidStep(v, x, y) = y
          /\ y > x + Alloc[v] - 1 => UpdateValidStep(v, x, y) = y - Alloc[v] + 1
          /\ x <= y /\ y <= x + Alloc[v] - 1 => UpdateValidStep(v, x, y) = x
    BY <1>1, <1>3 DEF UpdateValidStep
  <2> DEFINE A == Alloc[v]
             x1 == UpdateValidStep(v, f, a)
             x2 == UpdateValidStep(v, x1, b)
             x3 == UpdateValidStep(v, x2, a)
             x4 == UpdateValidStep(v, x3, b)
  <2>2. x1 \in Int /\ x2 \in Int /\ x3 \in Int
    BY ValidStepInt
  <2>3. /\ a < f => x1 = a
        /\ a > f + A - 1 => x1 = a - A + 1
        /\ f <= a /\ a <= f + A - 1 => x1 = f
    BY <2>1
  <2>4. /\ b < x1 => x2 = b
        /\ b > x1 + A - 1 => x2 = b - A + 1
        /\ x1 <= b /\ b <= x1 + A - 1 => x2 = x1
    BY <2>1, <2>2
  <2>5. /\ a < x2 => x3 = a
        /\ a > x2 + A - 1 => x3 = a - A + 1
        /\ x2 <= a /\ a <= x2 + A - 1 => x3 = x2
    BY <2>1, <2>2
  <2>6. /\ b < x3 => x4 = b
        /\ b > x3 + A - 1 => x4 = b - A + 1
        /\ x3 <= b /\ b <= x3 + A - 1 => x4 = x3
    BY <2>1, <2>2
  <2>7. A \in Int /\ A >= 1
    BY <1>1
  <2> HIDE DEF A, x1, x2, x3, x4
  <2>8. x4 = x2
    BY <2>2, <2>3, <2>4, <2>5, <2>6, <2>7
  <2> QED
    BY <2>8 DEF UpdateValidSteps, x1, x2, x3, x4
<1> QED
  BY <1>2, <1>3

(* What is put on the list of things to do, and what is not.               *)
LEMMA TodoOfItems ==
  ASSUME NEW r \in Rank, NEW sw, NEW e \in BOOLEAN, NEW i \in BOOLEAN,
         NEW v \in Var, NEW s \in Side
  PROVE  LET T == TodoOf(r, sw, e, i)
         IN  /\ It(HaloIrecv, v, s) \in T <=>
                  e /\ HasNbr(r, s) /\ RecvBuf(v, s) /\ ~UsesShm(r, s) /\ Swapped(sw[v])
             /\ It(HaloPackIsend, v, s) \in T <=>
                  e /\ HasNbr(r, s) /\ SendBuf(v, s) /\ Swapped(sw[v])
             /\ It(HaloUnpack, v, s) \in T <=>
                  i /\ HasNbr(r, s) /\ RecvBuf(v, s) /\ Swapped(sw[v])
             /\ It(HaloFinal, v, s) \in T <=> i /\ HasNbr(r, s) /\ Swapped(sw[v])
<1>1. \A a \in {HaloIrecv, HaloPackIsend, HaloUnpack, HaloFinal} :
        /\ It(a, v, s) \in Item
        /\ It(a, v, s).act = a /\ It(a, v, s).var = v /\ It(a, v, s).side = s
  BY DEF It, Item
<1>2. \A a \in {HaloIrecv, HaloPackIsend, HaloUnpack, HaloFinal} :
        It(a, v, s) \in TodoOf(r, sw, e, i) <=>
          ItemDue(r, It(a, v, s), e, i) /\ Swapped(sw[v])
  BY <1>1 DEF TodoOf, TodoWith
<1> QED
  BY <1>1, <1>2 DEF ItemDue, HaloIrecv, HaloPackIsend, HaloUnpack, HaloFinal

(* Everything that RequestInv says of a rank depends on its own state.     *)
Same(x) ==
  /\ script' = script
  /\ op'[x] = op[x] /\ pc'[x] = pc[x] /\ step'[x] = step[x] /\ pack'[x] = pack[x]
  /\ first'[x] = first[x] /\ dirty'[x] = dirty[x] /\ todo'[x] = todo[x]
  /\ sendReq'[x] = sendReq[x] /\ recvReq'[x] = recvReq[x]
  /\ posted'[x] = posted[x] /\ chan'[x] = chan[x]

LEMMA SameRequestInv ==
  ASSUME NEW x \in Rank, Same(x), RequestInv(x)
  PROVE  RequestInv(x)'
<1>1. PlaceInCall(x)'
  BY DEF PlaceInCall, RequestInv, Same, CurCall
<1>2. ThingsDue(x)'
  BY DEF ThingsDue, RequestInv, Same, NowSwapped
<1>3. HalvesAgree(x)'
  <2>1. StopT(x)' = StopT(x) /\ OutVars(x)' = OutVars(x)
    BY DEF Same, StopT, OutVars, Selected, CurCall
  <2>2. FirstAfter(x)' = FirstAfter(x)
    BY <2>1 DEF Same, FirstAfter
  <2> QED
    BY <2>2 DEF HalvesAgree, RequestInv, Same
<1>4. RecvTracked(x)'
  BY DEF RecvTracked, RequestInv, Same, NowSwapped
<1>5. SendTracked(x)'
  BY DEF SendTracked, RequestInv, Same, NowSwapped
<1>6. PostedActive(x)'
  BY DEF PostedActive, RequestInv, Same
<1>7. SentActive(x)'
  BY DEF SentActive, RequestInv, Same
<1> QED
  BY <1>1, <1>2, <1>3, <1>4, <1>5, <1>6, <1>7 DEF RequestInv

(* A step of one rank leaves the others as they are.                       *)
LEMMA StepOthers ==
  ASSUME HaloInv, NEW r \in Rank, RankStep(r), NEW x \in Rank, x # r
  PROVE  Same(x)
<1> USE DEF Same, calc, meta, reqs, bufs, net, StartExchange, Returns, NextPack, Done
<1>t. /\ DOMAIN op = Rank /\ DOMAIN pc = Rank /\ DOMAIN step = Rank /\ DOMAIN pack = Rank
      /\ DOMAIN first = Rank /\ DOMAIN dirty = Rank /\ DOMAIN todo = Rank
      /\ DOMAIN sendReq = Rank /\ DOMAIN recvReq = Rank
      /\ DOMAIN posted = Rank /\ DOMAIN chan = Rank
  BY DEF HaloInv, TypeOK, TodoType
<1>1. CASE BeginRun(r)
  BY <1>t, <1>1 DEF BeginRun
<1>2. CASE SkipPack(r)
  BY <1>t, <1>2 DEF SkipPack
<1>3. CASE EvalExterior(r)
  BY <1>t, <1>3 DEF EvalExterior
<1>4. CASE EvalInterior(r)
  BY <1>t, <1>4 DEF EvalInterior
<1>5. CASE EvalAll(r)
  BY <1>t, <1>5 DEF EvalAll
<1>6. CASE ExchangeDone(r)
  BY <1>t, <1>6 DEF ExchangeDone
<1>7. ASSUME NEW v \in Var, NEW s \in Side,
             \/ Irecv(r, v, s) \/ PackIsend(r, v, s) \/ PackShm(r, v, s) \/ Final(r, v, s)
      PROVE  Same(x)
  BY <1>t, <1>7 DEF Irecv, PackIsend, PackShm, Final
<1>8. ASSUME NEW v \in Var, NEW s \in Side, UnpackMpi(r, v, s) \/ UnpackShm(r, v, s)
      PROVE  Same(x)
  BY <1>t, <1>8 DEF UnpackMpi, UnpackShm, Unpack
<1>9. CASE Fill(r)
  BY <1>t, <1>9 DEF Fill
<1>10. CASE SetSlice(r)
  BY <1>t, <1>10 DEF SetSlice, DirtyMarked
<1>11. CASE SetElems(r)
  BY <1>t, <1>11 DEF SetElems, DirtyMarked
<1>12. CASE SetPoint(r)
  BY <1>t, <1>12 DEF SetPoint, DirtyMarked
<1>13. CASE \E k \in TuneSteps : Tune(r, k)
  BY <1>t, <1>13 DEF Tune
<1>14. CASE BeginPrepare(r)
  BY <1>t, <1>14 DEF BeginPrepare
<1>15. CASE BeginEnd(r)
  BY <1>t, <1>15 DEF BeginEnd
<1>16. CASE LeaveBarrier(r)
  BY <1>t, <1>16 DEF LeaveBarrier, ReleaseMpiData
<1>17. CASE LeaveAllocBarrier(r)
  BY <1>t, <1>17 DEF LeaveAllocBarrier
<1>18. CASE LeaveShmBarrier(r)
  BY <1>t, <1>18 DEF LeaveShmBarrier
<1> QED
  BY <1>1, <1>2, <1>3, <1>4, <1>5, <1>6, <1>7, <1>8, <1>9, <1>10, <1>11, <1>12,
     <1>13, <1>14, <1>15, <1>16, <1>17, <1>18 DEF RankStep

(* Outside exchanges, and at the end of one, no request is open.           *)
NoneOpen(r) == \A v \in Var, s \in Side : sendReq[r][v][s] = "null" /\ recvReq[r][v][s] = "null"

LEMMA ClosedOutside ==
  ASSUME NEW r \in Rank, RequestInv(r), pc[r] \notin Halfway,
         pc[r] \in Whole => todo[r] = {}
  PROVE  NoneOpen(r)
BY DEF RequestInv, RecvTracked, SendTracked, NoneOpen

(* An exchange that is started then can be tracked.                        *)
LEMMA StartTracked ==
  ASSUME HaloInv, NEW r \in Rank, NoneOpen(r), NEW fst, NEW drt,
         NEW interior \in BOOLEAN, NEW done,
         StartExchange(r, fst, drt, TRUE, interior, done),
         sendReq' = sendReq, recvReq' = recvReq,
         IF interior THEN pc'[r] \in Whole
                     ELSE pc'[r] = "exch_ext" /\ first'[r] = fst /\ dirty'[r] = drt
  PROVE  /\ ThingsDue(r)'
         /\ RecvTracked(r)'
         /\ SendTracked(r)'
<1> DEFINE sw == SwapOf(r, fst, drt)
<1>1. todo'[r] = TodoOf(r, sw, TRUE, interior)
  BY DEF StartExchange, HaloInv, TypeOK, TodoType
<1>2. "exch_ext" \notin Whole
  BY DEF Whole
<1>3. ASSUME ~interior, NEW v \in Var
      PROVE  NowSwapped(r, v)' <=> Swapped(sw[v])
  BY <1>3 DEF NowSwapped
<1> HIDE DEF sw
<1>4. ASSUME NEW v \in Var, NEW s \in Side
      PROVE  /\ It(HaloIrecv, v, s) \in todo'[r] <=>
                  HasNbr(r, s) /\ RecvBuf(v, s) /\ ~UsesShm(r, s) /\ Swapped(sw[v])
             /\ It(HaloPackIsend, v, s) \in todo'[r] <=>
                  HasNbr(r, s) /\ SendBuf(v, s) /\ Swapped(sw[v])
             /\ It(HaloUnpack, v, s) \in todo'[r] <=>
                  interior /\ HasNbr(r, s) /\ RecvBuf(v, s) /\ Swapped(sw[v])
             /\ It(HaloFinal, v, s) \in todo'[r] <=>
                  interior /\ HasNbr(r, s) /\ Swapped(sw[v])
  <2> DEFINE T == TodoOf(r, sw, TRUE, interior)
  <2>1. /\ It(HaloIrecv, v, s) \in T <=>
             TRUE /\ HasNbr(r, s) /\ RecvBuf(v, s) /\ ~UsesShm(r, s) /\ Swapped(sw[v])
        /\ It(HaloPackIsend, v, s) \in T <=>
             TRUE /\ HasNbr(r, s) /\ SendBuf(v, s) /\ Swapped(sw[v])
        /\ It(HaloUnpack, v, s) \in T <=>
             interior /\ HasNbr(r, s) /\ RecvBuf(v, s) /\ Swapped(sw[v])
        /\ It(HaloFinal, v, s) \in T <=> interior /\ HasNbr(r, s) /\ Swapped(sw[v])
    <3>1. TRUE \in BOOLEAN
      OBVIOUS
    <3> QED
      BY ONLY <3>1, TodoOfItems, r \in Rank, interior \in BOOLEAN, v \in Var, s \in Side, Zenon
  <2> QED
    BY <1>1, <2>1
<1>5. ThingsDue(r)'
  <2>1. todo'[r] # {} => pc'[r] \in Whole \cup {"exch_ext"}
    OBVIOUS
  <2>2. ASSUME NEW v \in Var, NEW s \in Side
        PROVE  /\ It(HaloIrecv, v, s) \in todo'[r] => RecvBuf(v, s) /\ ~UsesShm(r, s)
               /\ It(HaloIrecv, v, s) \in todo'[r] =>
                    \/ pc'[r] \in Whole /\ It(HaloUnpack, v, s) \in todo'[r]
                    \/ pc'[r] = "exch_ext" /\ NowSwapped(r, v)'
               /\ It(HaloPackIsend, v, s) \in todo'[r] =>
                    \/ pc'[r] \in Whole /\ It(HaloFinal, v, s) \in todo'[r]
                    \/ pc'[r] = "exch_ext" /\ NowSwapped(r, v)'
               /\ {It(HaloUnpack, v, s), It(HaloFinal, v, s)} \cap todo'[r] # {} =>
                    pc'[r] \in Whole
    <3>1. CASE interior
      BY <3>1, <1>4
    <3>2. CASE ~interior
      BY <3>2, <1>3, <1>4
    <3> QED
      BY <3>1, <3>2
  <2> QED
    BY <2>1, <2>2 DEF ThingsDue
<1> QED
  BY <1>5 DEF RecvTracked, SendTracked, NoneOpen

(* The requests and what MPI holds are as they were.                       *)
LEMMA NetKept ==
  ASSUME NEW r \in Rank, RequestInv(r), sendReq'[r] = sendReq[r],
         recvReq'[r] = recvReq[r], posted'[r] = posted[r], chan'[r] = chan[r]
  PROVE  PostedActive(r)' /\ SentActive(r)'
BY DEF RequestInv, PostedActive, SentActive

(* A step outside exchanges, or to the end of one.                         *)
LEMMA QuietStep ==
  ASSUME NEW r \in Rank, RequestInv(r), NoneOpen(r), PlaceInCall(r)',
         todo'[r] = {}, pc'[r] \notin Halfway,
         sendReq'[r] = sendReq[r], recvReq'[r] = recvReq[r],
         posted'[r] = posted[r], chan'[r] = chan[r]
  PROVE  RequestInv(r)'
<1>1. ThingsDue(r)' /\ HalvesAgree(r)'
  BY DEF ThingsDue, HalvesAgree
<1>2. RecvTracked(r)' /\ SendTracked(r)'
  BY DEF RecvTracked, SendTracked, NoneOpen
<1> QED
  BY <1>1, <1>2, NetKept DEF RequestInv

(* Where a rank that goes on, or returns, comes to.                        *)
LEMMA NextPackPlace ==
  ASSUME HaloInv, NEW r \in Rank, NextPack(r), script' = script, PlaceInCall(r),
         pc[r] \in {"packs", "exch_int", "exch_all"}
  PROVE  PlaceInCall(r)' /\ pc'[r] \in {"packs", "call"}
<1>1. pc \in [Rank -> PcType] /\ op \in [Rank -> Nat \ {0}]
  BY DEF HaloInv, TypeOK, PcType
<1>2. \/ pc'[r] = "packs" /\ op' = op
      \/ pc'[r] = "call"
  BY <1>1 DEF NextPack, Returns
<1> QED
  BY <1>2 DEF PlaceInCall, CurCall

LEMMA SkipPackReq ==
  ASSUME HaloInv, NEW r \in Rank, RequestInv(r), SkipPack(r)
  PROVE  RequestInv(r)'
<1>1. PlaceInCall(r)' /\ pc'[r] \in {"packs", "call"}
  BY NextPackPlace DEF SkipPack, RequestInv
<1>2. NoneOpen(r) /\ todo[r] = {}
  BY ClosedOutside DEF SkipPack, Halfway, Whole, RequestInv, ThingsDue
<1> QED
  BY <1>1, <1>2, QuietStep DEF SkipPack, reqs, net, Halfway

(* The calls that exchange nothing.                                        *)
LEMMA OtherCallReq ==
  ASSUME HaloInv, NEW r \in Rank, RequestInv(r),
         \/ Fill(r) \/ SetSlice(r) \/ SetElems(r) \/ SetPoint(r)
         \/ BeginPrepare(r) \/ \E k \in TuneSteps : Tune(r, k)
  PROVE  RequestInv(r)'
<1>1. pc \in [Rank -> PcType] /\ op \in [Rank -> Nat \ {0}]
  BY DEF HaloInv, TypeOK, PcType
<1>2. /\ script' = script /\ todo' = todo /\ sendReq' = sendReq
      /\ recvReq' = recvReq /\ posted' = posted /\ chan' = chan
      /\ pc[r] = "call"
  BY DEF Fill, SetSlice, SetElems, SetPoint, BeginPrepare, Tune, reqs, net, Calling
<1>3. \/ pc'[r] = "call"
      \/ pc'[r] = "barrier" /\ op' = op /\ CurCall(r).kind \in {"tune", "prepare"}
  BY <1>1 DEF Fill, SetSlice, SetElems, SetPoint, BeginPrepare, Tune, Calling, Returns
<1>4. PlaceInCall(r)'
  BY <1>2, <1>3 DEF PlaceInCall, CurCall
<1>5. NoneOpen(r) /\ todo[r] = {}
  BY <1>2, ClosedOutside DEF Halfway, Whole, RequestInv, ThingsDue
<1> QED
  BY <1>2, <1>3, <1>4, <1>5, QuietStep DEF Halfway

(* An exchange is started with no request open.                            *)
LEMMA StartReq ==
  ASSUME HaloInv, NEW r \in Rank, RequestInv(r), NEW fst, NEW drt,
         NEW interior \in BOOLEAN, NEW done,
         StartExchange(r, fst, drt, TRUE, interior, done),
         pc[r] \in {"call", "packs"}, script' = script, op' = op,
         sendReq' = sendReq, recvReq' = recvReq, posted' = posted, chan' = chan,
         IF interior THEN pc'[r] \in Whole
                     ELSE pc'[r] = "exch_ext" /\ first'[r] = fst /\ dirty'[r] = drt,
         PlaceInCall(r)', HalvesAgree(r)'
  PROVE  RequestInv(r)'
<1>1. NoneOpen(r)
  BY ClosedOutside DEF Halfway, Whole
<1>2. ThingsDue(r)' /\ RecvTracked(r)' /\ SendTracked(r)'
  BY <1>1, StartTracked
<1> QED
  BY <1>2, NetKept DEF RequestInv

LEMMA BeginExchangeReq ==
  ASSUME HaloInv, NEW r \in Rank, RequestInv(r), BeginRun(r) \/ BeginEnd(r) \/ EvalAll(r)
  PROVE  RequestInv(r)'
<1>1. pc \in [Rank -> PcType]
  BY DEF HaloInv, TypeOK, PcType
<1>2. /\ script' = script /\ op' = op /\ sendReq' = sendReq
      /\ recvReq' = recvReq /\ posted' = posted /\ chan' = chan
  BY DEF BeginRun, BeginEnd, EvalAll, reqs, net
<1>3. /\ pc[r] \in {"call", "packs"}
      /\ \/ pc'[r] \in {"exch_init", "exch_all"} /\ CurCall(r).kind = "run"
         \/ pc'[r] = "exch_end" /\ CurCall(r).kind = "end"
  BY <1>1 DEF BeginRun, BeginEnd, EvalAll, Calling, RequestInv, PlaceInCall
<1>4. PlaceInCall(r)' /\ HalvesAgree(r)' /\ pc'[r] \in Whole
  BY <1>2, <1>3 DEF PlaceInCall, HalvesAgree, Halfway, Whole, CurCall
<1>5. \E fst, drt, done : StartExchange(r, fst, drt, TRUE, TRUE, done)
  BY DEF BeginRun, BeginEnd, EvalAll
<1> QED
  BY <1>2, <1>3, <1>4, <1>5, StartReq

LEMMA EvalExteriorReq ==
  ASSUME HaloInv, NEW r \in Rank, RequestInv(r), EvalExterior(r)
  PROVE  RequestInv(r)'
<1>1. /\ pc \in [Rank -> PcType] /\ DOMAIN first = Rank /\ DOMAIN dirty = Rank
      /\ first[r] \in [Var -> Int] /\ op[r] \in DOMAIN script
  BY DEF HaloInv, TypeOK, PcType, EvalExterior, InCall
<1>2. /\ script' = script /\ op' = op /\ step' = step /\ pack' = pack
      /\ sendReq' = sendReq /\ recvReq' = recvReq /\ posted' = posted /\ chan' = chan
      /\ first'[r] = FirstAfter(r) /\ dirty'[r] = DirtyAfter(r)
      /\ pc[r] = "packs" /\ pc'[r] = "exch_ext"
  BY <1>1 DEF EvalExterior, reqs, net
<1>3. PlaceInCall(r)'
  BY <1>2 DEF PlaceInCall, RequestInv, CurCall
<1>4. HalvesAgree(r)'
  <2>1. StopT(r)' = StopT(r) /\ OutVars(r)' = OutVars(r)
    BY <1>2 DEF StopT, OutVars, Selected, CurCall
  <2>2. step[r] + StepDir \in Int /\ StopT(r) \in Int
    BY <1>1, StopTInt, HaloAssumption DEF HaloInv, TypeOK
  <2>3. ASSUME NEW v \in Var
        PROVE  FirstAfter(r)'[v] = FirstAfter(r)[v]
    BY <1>1, <1>2, <2>1, <2>2, ValidStepsAgain DEF FirstAfter
  <2>4. FirstAfter(r)' = FirstAfter(r)
    BY <2>3 DEF FirstAfter
  <2> QED
    BY <1>2, <2>4 DEF HalvesAgree
<1>5. StartExchange(r, FirstAfter(r), DirtyAfter(r), TRUE, FALSE, 1)
  BY DEF EvalExterior
<1> QED
  BY <1>2, <1>3, <1>4, <1>5, StartReq

(* The second half finds what the first half has opened.                   *)
LEMMA EvalInteriorReq ==
  ASSUME HaloInv, NEW r \in Rank, RequestInv(r), EvalInterior(r)
  PROVE  RequestInv(r)'
<1> DEFINE sw == SwapOf(r, first[r], dirty[r])
<1>1. /\ pc \in [Rank -> PcType] /\ DOMAIN todo = Rank
  BY DEF HaloInv, TypeOK, TodoType, PcType
<1>2. /\ script' = script /\ op' = op /\ sendReq' = sendReq /\ recvReq' = recvReq
      /\ posted' = posted /\ chan' = chan /\ pc[r] = "inner" /\ pc'[r] = "exch_int"
  BY <1>1 DEF EvalInterior, reqs, net
<1>3. FirstAfter(r) = first[r]
  BY <1>2 DEF RequestInv, HalvesAgree, Halfway
<1>4. todo'[r] = TodoOf(r, sw, FALSE, TRUE)
  BY <1>1, <1>3 DEF EvalInterior, StartExchange
<1> HIDE DEF sw
<1>5. ASSUME NEW v \in Var, NEW s \in Side
      PROVE  /\ It(HaloIrecv, v, s) \notin todo'[r] /\ It(HaloPackIsend, v, s) \notin todo'[r]
             /\ It(HaloUnpack, v, s) \in todo'[r] <=>
                  HasNbr(r, s) /\ RecvBuf(v, s) /\ Swapped(sw[v])
             /\ It(HaloFinal, v, s) \in todo'[r] <=> HasNbr(r, s) /\ Swapped(sw[v])
  BY <1>4, TodoOfItems
<1>6. PlaceInCall(r)'
  BY <1>2 DEF PlaceInCall, RequestInv, CurCall
<1>7. HalvesAgree(r)' /\ pc'[r] \in Whole
  BY <1>2 DEF HalvesAgree, Halfway, Whole
<1>8. ThingsDue(r)'
  BY <1>5, <1>7 DEF ThingsDue
<1>9. ASSUME NEW v \in Var
      PROVE  NowSwapped(r, v) <=> Swapped(sw[v])
  BY DEF NowSwapped, sw
<1>10. pc[r] \notin Whole
  BY <1>2 DEF Whole
<1>11. RecvTracked(r)' /\ SendTracked(r)'
  BY <1>2, <1>5, <1>7, <1>9, <1>10 DEF RequestInv, RecvTracked, SendTracked
<1> QED
  BY <1>2, <1>6, <1>7, <1>8, <1>11, NetKept DEF RequestInv

LEMMA ExchangeDoneReq ==
  ASSUME HaloInv, NEW r \in Rank, RequestInv(r), ExchangeDone(r)
  PROVE  RequestInv(r)'
<1>1. /\ pc \in [Rank -> PcType]
      /\ script' = script /\ todo' = todo /\ sendReq' = sendReq /\ recvReq' = recvReq
      /\ posted' = posted /\ chan' = chan /\ first' = first /\ dirty' = dirty
      /\ todo[r] = {}
  BY DEF HaloInv, TypeOK, PcType, ExchangeDone, reqs, net, meta
<1>2. CASE pc[r] = "exch_ext"
  <2>1. pc'[r] = "inner" /\ op' = op /\ step' = step /\ pack' = pack
    BY <1>1, <1>2 DEF ExchangeDone
  <2>2. PlaceInCall(r)'
    BY <1>1, <1>2, <2>1 DEF PlaceInCall, RequestInv, CurCall
  <2>3. ThingsDue(r)'
    BY <1>1 DEF ThingsDue
  <2>4. FirstAfter(r)' = FirstAfter(r)
    <3>1. StopT(r)' = StopT(r) /\ OutVars(r)' = OutVars(r)
      BY <1>1, <2>1 DEF StopT, OutVars, Selected, CurCall
    <3> QED
      BY <1>1, <2>1, <3>1 DEF FirstAfter
  <2>5. HalvesAgree(r)'
    BY <1>1, <1>2, <2>4 DEF HalvesAgree, RequestInv, Halfway
  <2>6. \A v \in Var : NowSwapped(r, v)' = NowSwapped(r, v)
    BY <1>1 DEF NowSwapped
  <2>7. pc[r] \notin Whole /\ pc'[r] \in Halfway
    BY <1>2, <2>1 DEF Whole, Halfway
  <2>8. RecvTracked(r)' /\ SendTracked(r)'
    BY <1>1, <2>6, <2>7 DEF RecvTracked, SendTracked, RequestInv
  <2> QED
    BY <1>1, <2>2, <2>3, <2>5, <2>8, NetKept DEF RequestInv
<1>3. CASE pc[r] # "exch_ext"
  <2>1. NoneOpen(r)
    BY <1>1, <1>3, ClosedOutside DEF ExchangeDone, Halfway
  <2>2. PlaceInCall(r)' /\ pc'[r] \in {"packs", "call", "barrier"}
    <3>1. CASE NextPack(r) /\ pc[r] \in {"exch_int", "exch_all"}
      BY <1>1, <3>1, NextPackPlace DEF RequestInv
    <3>2. CASE \/ pc[r] = "exch_init" /\ pc'[r] = "packs" /\ op' = op
               \/ pc[r] = "exch_end" /\ pc'[r] = "barrier" /\ op' = op
      BY <1>1, <3>2 DEF PlaceInCall, RequestInv, CurCall
    <3> QED
      BY <1>1, <1>3, <3>1, <3>2 DEF ExchangeDone
  <2> QED
    BY <1>1, <2>1, <2>2, QuietStep DEF Halfway
<1> QED
  BY <1>2, <1>3

-----------------------------------------------------------------------------
(* The things to do.                                                       *)

(* What is done is crossed off; it was the first in the order.             *)
LEMMA ItemDone ==
  ASSUME HaloInv, NEW r \in Rank, RequestInv(r),
         NEW a \in {HaloIrecv, HaloPackIsend, HaloUnpack, HaloFinal},
         NEW v \in Var, NEW s \in Side,
         IsHead(r, a, v, s), Done(r, a, v, s), UNCHANGED calc
  PROVE  /\ todo'[r] = todo[r] \ {It(a, v, s)}
         /\ It(a, v, s) \in todo[r] /\ HasNbr(r, s)
         /\ \A b \in {HaloIrecv, HaloPackIsend, HaloUnpack, HaloFinal}, u \in Var, d \in Side :
              /\ b < a => It(b, u, d) \notin todo[r]
              /\ It(b, u, d) = It(a, v, s) => b = a /\ u = v /\ d = s
         /\ pc'[r] = pc[r] /\ op'[r] = op[r] /\ script' = script
         /\ pc[r] \in Whole \cup {"exch_ext"}
         /\ a \in {HaloUnpack, HaloFinal} => pc[r] \in Whole
         /\ PlaceInCall(r)'
<1>1. todo'[r] = todo[r] \ {It(a, v, s)}
  BY DEF Done, It, HaloInv, TypeOK, TodoType
<1>2. It(a, v, s) \in todo[r] /\ HasNbr(r, s)
  BY HeadType DEF IsHead, It, HaloInv
<1>3. ASSUME NEW b \in {HaloIrecv, HaloPackIsend, HaloUnpack, HaloFinal},
             NEW u \in Var, NEW d \in Side
      PROVE  /\ b < a => It(b, u, d) \notin todo[r]
             /\ It(b, u, d) = It(a, v, s) => b = a /\ u = v /\ d = s
  <2>1. It(b, u, d) = It(a, v, s) => b = a /\ u = v /\ d = s
    BY DEF It
  <2>2. ASSUME b < a, It(b, u, d) \in todo[r]
        PROVE  FALSE
    <3>1. It(b, u, d) # It(a, v, s)
      BY <2>1, <2>2 DEF HaloIrecv, HaloPackIsend, HaloUnpack, HaloFinal
    <3>2. Before(It(a, v, s), It(b, u, d))
      BY <2>2, <3>1 DEF IsHead, It
    <3> QED
      BY <2>2, <3>2 DEF Before, It, HaloIrecv, HaloPackIsend, HaloUnpack, HaloFinal
  <2> QED
    BY <2>1, <2>2
<1>4. pc'[r] = pc[r] /\ op'[r] = op[r] /\ script' = script
  BY DEF calc
<1>5. pc[r] \in Whole \cup {"exch_ext"}
  BY <1>2 DEF RequestInv, ThingsDue
<1>6. a \in {HaloUnpack, HaloFinal} => pc[r] \in Whole
  BY <1>2 DEF RequestInv, ThingsDue
<1>7. PlaceInCall(r)'
  BY <1>4 DEF PlaceInCall, RequestInv, CurCall
<1> QED
  BY <1>1, <1>2, <1>3, <1>4, <1>5, <1>6, <1>7

(* What MPI holds is typed.                                                *)
LEMMA HeldType ==
  ASSUME HaloInv, NEW r \in Rank, NEW s \in Side
  PROVE  /\ posted[r][s] \in Seq(Posting)
         /\ \A i \in DOMAIN posted[r][s] : posted[r][s][i].var \in Var
         /\ chan[r][s] \in Seq(Message)
         /\ \A k \in DOMAIN chan[r][s] :
              chan[r][s][k] \in Message /\ chan[r][s][k].var \in Var
<1>1. posted[r][s] \in Seq(Posting) /\ chan[r][s] \in Seq(Message)
  BY DEF HaloInv, TypeOK
<1>2. ASSUME NEW i \in DOMAIN posted[r][s]
      PROVE  posted[r][s][i].var \in Var
  <2>1. posted[r][s][i] \in Posting
    BY <1>1
  <2> QED
    BY <2>1 DEF Posting
<1>3. ASSUME NEW k \in DOMAIN chan[r][s]
      PROVE  chan[r][s][k] \in Message /\ chan[r][s][k].var \in Var
  <2>1. chan[r][s][k] \in Message
    BY <1>1
  <2> QED
    BY <2>1 DEF Message
<1> QED
  BY <1>1, <1>2, <1>3

(* One element more at the end of a sequence.                              *)
LEMMA Appended ==
  ASSUME NEW S, NEW q \in Seq(S), NEW x \in S, NEW i \in DOMAIN Append(q, x)
  PROVE  \/ i = Len(q) + 1 /\ Append(q, x)[i] = x
         \/ i \in DOMAIN q /\ Append(q, x)[i] = q[i]
OBVIOUS

(* The halves keep agreeing while nothing is unpacked.                     *)
LEMMA HalvesKept ==
  ASSUME HaloInv, NEW r \in Rank, RequestInv(r), UNCHANGED calc, UNCHANGED meta
  PROVE  /\ HalvesAgree(r)'
         /\ \A v \in Var : NowSwapped(r, v)' = NowSwapped(r, v)
<1>1. StopT(r)' = StopT(r) /\ OutVars(r)' = OutVars(r)
  BY DEF StopT, OutVars, Selected, CurCall, calc
<1>2. FirstAfter(r)' = FirstAfter(r)
  BY <1>1 DEF FirstAfter, calc, meta
<1> QED
  BY <1>2 DEF HalvesAgree, RequestInv, NowSwapped, calc, meta

(* A receive is posted when the last one for that buffer is over.          *)
LEMMA IrecvReq ==
  ASSUME HaloInv, NEW r \in Rank, RequestInv(r), NEW v \in Var, NEW s \in Side, Irecv(r, v, s)
  PROVE  RequestInv(r)'
<1> DEFINE a == HaloIrecv
<1>1. /\ todo'[r] = todo[r] \ {It(a, v, s)}
      /\ It(a, v, s) \in todo[r] /\ HasNbr(r, s)
      /\ \A b \in {HaloIrecv, HaloPackIsend, HaloUnpack, HaloFinal}, u \in Var, d \in Side :
           It(b, u, d) = It(a, v, s) => b = a /\ u = v /\ d = s
      /\ pc'[r] = pc[r]
      /\ pc[r] \in Whole \cup {"exch_ext"}
      /\ PlaceInCall(r)'
  BY ItemDone DEF Irecv
<1>2. HalvesAgree(r)' /\ \A u \in Var : NowSwapped(r, u)' = NowSwapped(r, u)
  BY HalvesKept DEF Irecv
<1>3. \A u \in Var, d \in Side :
        /\ It(HaloIrecv, u, d) \in todo'[r] <=>
             It(HaloIrecv, u, d) \in todo[r] /\ ~(u = v /\ d = s)
        /\ It(HaloPackIsend, u, d) \in todo'[r] <=> It(HaloPackIsend, u, d) \in todo[r]
        /\ It(HaloUnpack, u, d) \in todo'[r] <=> It(HaloUnpack, u, d) \in todo[r]
        /\ It(HaloFinal, u, d) \in todo'[r] <=> It(HaloFinal, u, d) \in todo[r]
  BY <1>1 DEF HaloIrecv, HaloPackIsend, HaloUnpack, HaloFinal
<1>4. ThingsDue(r)'
  BY <1>1, <1>2, <1>3 DEF ThingsDue, RequestInv
<1>5. /\ recvReq' = [recvReq EXCEPT ![r][v][s] = "active"]
      /\ recvReq \in [Rank -> [Var -> [Side -> Request]]]
      /\ sendReq' = sendReq /\ chan' = chan
      /\ posted \in [Rank -> [Side -> Seq(Posting)]]
  BY DEF Irecv, HaloInv, TypeOK
<1>6. recvReq[r][v][s] = "null"
  BY <1>1 DEF RequestInv, RecvTracked
<1>7. \A u \in Var, d \in Side : recvReq'[r][u][d] =
        IF u = v /\ d = s THEN "active" ELSE recvReq[r][u][d]
  BY <1>5
<1>8. RecvTracked(r)'
  <2>1. /\ RecvBuf(v, s) /\ ~UsesShm(r, s)
        /\ \/ pc[r] \in Whole /\ It(HaloUnpack, v, s) \in todo[r]
           \/ pc[r] \in Halfway /\ NowSwapped(r, v)
    BY <1>1 DEF RequestInv, ThingsDue, Halfway
  <2> QED
    BY <1>1, <1>2, <1>3, <1>7, <2>1 DEF RequestInv, RecvTracked
<1>9. SendTracked(r)'
  BY <1>1, <1>2, <1>3, <1>5 DEF RequestInv, SendTracked
<1>10. PostedActive(r)'
  <2> DEFINE p == [tag |-> Tag(r, v), var |-> v, steps |-> swap[r][v]]
  <2>1. \A d \in Side : posted'[r][d] = IF d = s THEN Append(posted[r][d], p) ELSE posted[r][d]
    BY <1>5 DEF Irecv
  <2>2. p \in Posting /\ p.var = v
    BY TagNat DEF HaloInv, TypeOK, Posting
  <2> HIDE DEF p
  <2>3. \A i \in DOMAIN posted[r][s] : posted[r][s][i].var # v
    BY <1>6 DEF RequestInv, PostedActive
  <2>4. ASSUME NEW d \in Side
        PROVE  /\ \A i \in DOMAIN posted'[r][d] : recvReq'[r][posted'[r][d][i].var][d] = "active"
               /\ \A i, j \in DOMAIN posted'[r][d] :
                    posted'[r][d][i].var = posted'[r][d][j].var => i = j
    <3>1. CASE d # s
      <4>1. posted'[r][d] = posted[r][d]
        BY <2>1, <3>1
      <4>2. \A i \in DOMAIN posted[r][d] : posted[r][d][i].var \in Var
        BY HeldType
      <4>3. ASSUME NEW i \in DOMAIN posted[r][d]
            PROVE  recvReq'[r][posted[r][d][i].var][d] = "active"
        BY <1>7, <3>1, <4>2 DEF RequestInv, PostedActive
      <4> QED
        BY <4>1, <4>3 DEF RequestInv, PostedActive
    <3>2. CASE d = s
      <4>1. posted'[r][d] = Append(posted[r][s], p) /\ posted[r][s] \in Seq(Posting)
        BY <1>5, <2>1, <3>2
      <4>2. ASSUME NEW i \in DOMAIN posted[r][s]
            PROVE  recvReq'[r][posted[r][s][i].var][s] = "active"
        <5>1. posted[r][s][i].var \in Var /\ recvReq[r][posted[r][s][i].var][s] = "active"
          BY HeldType DEF RequestInv, PostedActive
        <5> QED
          BY <1>7, <5>1
      <4>3. \A i, j \in DOMAIN posted[r][s] : posted[r][s][i].var = posted[r][s][j].var => i = j
        BY DEF RequestInv, PostedActive
      <4>4. ASSUME NEW i \in DOMAIN posted'[r][d]
            PROVE  \/ i = Len(posted[r][s]) + 1 /\ posted'[r][d][i] = p
                   \/ i \in DOMAIN posted[r][s] /\ posted'[r][d][i] = posted[r][s][i]
        BY <2>2, <4>1, Appended
      <4>5. recvReq'[r][v][s] = "active"
        BY <1>7
      <4>6. \A i \in DOMAIN posted'[r][d] : recvReq'[r][posted'[r][d][i].var][d] = "active"
        BY <2>2, <3>2, <4>2, <4>4, <4>5
      <4>7. \A i, j \in DOMAIN posted'[r][d] :
              posted'[r][d][i].var = posted'[r][d][j].var => i = j
        BY <2>2, <2>3, <4>3, <4>4
      <4> QED
        BY <4>6, <4>7
    <3> QED
      BY <3>1, <3>2
  <2> QED
    BY <2>4 DEF PostedActive
<1>11. SentActive(r)'
  BY <1>5 DEF RequestInv, SentActive
<1> QED
  BY <1>1, <1>2, <1>4, <1>8, <1>9, <1>10, <1>11 DEF RequestInv

(* A message is sent when the last one from that buffer is over.           *)
LEMMA PackIsendReq ==
  ASSUME HaloInv, NEW r \in Rank, RequestInv(r), NEW v \in Var, NEW s \in Side,
         PackIsend(r, v, s)
  PROVE  RequestInv(r)'
<1> DEFINE a == HaloPackIsend
<1>1. /\ todo'[r] = todo[r] \ {It(a, v, s)}
      /\ It(a, v, s) \in todo[r] /\ HasNbr(r, s)
      /\ \A b \in {HaloIrecv, HaloPackIsend, HaloUnpack, HaloFinal}, u \in Var, d \in Side :
           It(b, u, d) = It(a, v, s) => b = a /\ u = v /\ d = s
      /\ pc'[r] = pc[r]
      /\ pc[r] \in Whole \cup {"exch_ext"}
      /\ PlaceInCall(r)'
  BY ItemDone DEF PackIsend
<1>2. HalvesAgree(r)' /\ \A u \in Var : NowSwapped(r, u)' = NowSwapped(r, u)
  BY HalvesKept DEF PackIsend
<1>3. \A u \in Var, d \in Side :
        /\ It(HaloIrecv, u, d) \in todo'[r] <=> It(HaloIrecv, u, d) \in todo[r]
        /\ It(HaloPackIsend, u, d) \in todo'[r] <=>
             It(HaloPackIsend, u, d) \in todo[r] /\ ~(u = v /\ d = s)
        /\ It(HaloUnpack, u, d) \in todo'[r] <=> It(HaloUnpack, u, d) \in todo[r]
        /\ It(HaloFinal, u, d) \in todo'[r] <=> It(HaloFinal, u, d) \in todo[r]
  BY <1>1 DEF HaloIrecv, HaloPackIsend, HaloUnpack, HaloFinal
<1>4. ThingsDue(r)'
  BY <1>1, <1>2, <1>3 DEF ThingsDue, RequestInv
<1>5. /\ sendReq' = [sendReq EXCEPT ![r][v][s] = "active"]
      /\ sendReq \in [Rank -> [Var -> [Side -> Request]]]
      /\ recvReq' = recvReq /\ posted' = posted
      /\ chan \in [Rank -> [Side -> Seq(Message)]]
  BY DEF PackIsend, HaloInv, TypeOK
<1>6. sendReq[r][v][s] = "null"
  BY <1>1 DEF RequestInv, SendTracked
<1>7. \A u \in Var, d \in Side : sendReq'[r][u][d] =
        IF u = v /\ d = s THEN "active" ELSE sendReq[r][u][d]
  BY <1>5
<1>8. SendTracked(r)'
  <2>1. \/ pc[r] \in Whole /\ It(HaloFinal, v, s) \in todo[r]
        \/ pc[r] \in Halfway /\ NowSwapped(r, v)
    BY <1>1 DEF RequestInv, ThingsDue, Halfway
  <2> QED
    BY <1>1, <1>2, <1>3, <1>7, <2>1 DEF RequestInv, SendTracked
<1>9. RecvTracked(r)'
  BY <1>1, <1>2, <1>3, <1>5 DEF RequestInv, RecvTracked
<1>10. SentActive(r)'
  <2> DEFINE m == [tag |-> Tag(r, v), var |-> v, steps |-> swap[r][v],
                   exch |-> Len(trail[r]), eager |-> FALSE, data |-> <<>>]
  <2>1. \A d \in Side : chan'[r][d] = IF d = s THEN Append(chan[r][d], m) ELSE chan[r][d]
    BY <1>5 DEF PackIsend
  <2>2. m \in Message /\ m.var = v
    BY TagNat DEF HaloInv, TypeOK, Message
  <2> HIDE DEF m
  <2>3. \A k \in DOMAIN chan[r][s] : ~chan[r][s][k].eager => chan[r][s][k].var # v
    BY <1>6 DEF RequestInv, SentActive
  <2>4. ASSUME NEW d \in Side
        PROVE  /\ \A k \in DOMAIN chan'[r][d] : ~chan'[r][d][k].eager =>
                    sendReq'[r][chan'[r][d][k].var][d] = "active"
               /\ \A j, k \in DOMAIN chan'[r][d] :
                    ~chan'[r][d][j].eager /\ ~chan'[r][d][k].eager
                      /\ chan'[r][d][j].var = chan'[r][d][k].var => j = k
    <3>1. CASE d # s
      <4>1. chan'[r][d] = chan[r][d]
        BY <2>1, <3>1
      <4>2. \A i \in DOMAIN chan[r][d] : chan[r][d][i].var \in Var
        BY HeldType
      <4>3. ASSUME NEW i \in DOMAIN chan[r][d], ~chan[r][d][i].eager
            PROVE  sendReq'[r][chan[r][d][i].var][d] = "active"
        BY <1>7, <3>1, <4>2, <4>3 DEF RequestInv, SentActive
      <4> QED
        BY <4>1, <4>3 DEF RequestInv, SentActive
    <3>2. CASE d = s
      <4>1. chan'[r][d] = Append(chan[r][s], m) /\ chan[r][s] \in Seq(Message)
        BY <1>5, <2>1, <3>2
      <4>2. ASSUME NEW i \in DOMAIN chan[r][s], ~chan[r][s][i].eager
            PROVE  sendReq'[r][chan[r][s][i].var][s] = "active"
        <5>1. chan[r][s][i].var \in Var /\ sendReq[r][chan[r][s][i].var][s] = "active"
          BY <4>2, HeldType DEF RequestInv, SentActive
        <5> QED
          BY <1>7, <5>1
      <4>3. \A i, j \in DOMAIN chan[r][s] :
              ~chan[r][s][i].eager /\ ~chan[r][s][j].eager
                /\ chan[r][s][i].var = chan[r][s][j].var => i = j
        BY DEF RequestInv, SentActive
      <4>4. ASSUME NEW i \in DOMAIN chan'[r][d]
            PROVE  \/ i = Len(chan[r][s]) + 1 /\ chan'[r][d][i] = m
                   \/ i \in DOMAIN chan[r][s] /\ chan'[r][d][i] = chan[r][s][i]
        BY <2>2, <4>1, Appended
      <4>5. sendReq'[r][v][s] = "active"
        BY <1>7
      <4>6. \A i \in DOMAIN chan'[r][d] : ~chan'[r][d][i].eager =>
              sendReq'[r][chan'[r][d][i].var][d] = "active"
        BY <2>2, <3>2, <4>2, <4>4, <4>5
      <4>7. \A i, j \in DOMAIN chan'[r][d] :
              ~chan'[r][d][i].eager /\ ~chan'[r][d][j].eager
                /\ chan'[r][d][i].var = chan'[r][d][j].var => i = j
        BY <2>2, <2>3, <4>3, <4>4
      <4> QED
        BY <4>6, <4>7
    <3> QED
      BY <3>1, <3>2
  <2> QED
    BY <2>4 DEF SentActive
<1>11. PostedActive(r)'
  BY <1>5 DEF RequestInv, PostedActive
<1> QED
  BY <1>1, <1>2, <1>4, <1>8, <1>9, <1>10, <1>11 DEF RequestInv

LEMMA PackShmReq ==
  ASSUME HaloInv, NEW r \in Rank, RequestInv(r), NEW v \in Var, NEW s \in Side,
         PackShm(r, v, s)
  PROVE  RequestInv(r)'
<1> DEFINE a == HaloPackIsend
<1>1. /\ todo'[r] = todo[r] \ {It(a, v, s)}
      /\ \A b \in {HaloIrecv, HaloPackIsend, HaloUnpack, HaloFinal}, u \in Var, d \in Side :
           It(b, u, d) = It(a, v, s) => b = a
      /\ pc'[r] = pc[r]
      /\ PlaceInCall(r)'
  BY ItemDone DEF PackShm
<1>2. HalvesAgree(r)' /\ \A u \in Var : NowSwapped(r, u)' = NowSwapped(r, u)
  BY HalvesKept DEF PackShm
<1>3. \A u \in Var, d \in Side :
        /\ It(HaloIrecv, u, d) \in todo'[r] <=> It(HaloIrecv, u, d) \in todo[r]
        /\ It(HaloPackIsend, u, d) \in todo'[r] => It(HaloPackIsend, u, d) \in todo[r]
        /\ It(HaloUnpack, u, d) \in todo'[r] <=> It(HaloUnpack, u, d) \in todo[r]
        /\ It(HaloFinal, u, d) \in todo'[r] <=> It(HaloFinal, u, d) \in todo[r]
  BY <1>1 DEF HaloIrecv, HaloPackIsend, HaloUnpack, HaloFinal
<1>4. todo'[r] # {} => todo[r] # {}
  BY <1>1
<1>5. ThingsDue(r)'
  BY <1>1, <1>2, <1>3, <1>4 DEF ThingsDue, RequestInv
<1>6. sendReq' = sendReq /\ recvReq' = recvReq /\ posted' = posted /\ chan' = chan
  BY DEF PackShm, reqs, net
<1>7. RecvTracked(r)' /\ SendTracked(r)'
  BY <1>1, <1>2, <1>3, <1>6 DEF RequestInv, RecvTracked, SendTracked
<1> QED
  BY <1>1, <1>2, <1>5, <1>6, <1>7, NetKept DEF RequestInv

(* Unpacking and the final phase come when everything is under way.        *)
LEMMA UnpackReq ==
  ASSUME HaloInv, NEW r \in Rank, RequestInv(r), NEW v \in Var, NEW s \in Side,
         UnpackMpi(r, v, s) \/ UnpackShm(r, v, s)
  PROVE  RequestInv(r)'
<1> DEFINE a == HaloUnpack
<1>1. /\ todo'[r] = todo[r] \ {It(a, v, s)}
      /\ \A b \in {HaloIrecv, HaloPackIsend, HaloUnpack, HaloFinal}, u \in Var, d \in Side :
           /\ b < a => It(b, u, d) \notin todo[r]
           /\ It(b, u, d) = It(a, v, s) => b = a /\ u = v /\ d = s
      /\ pc'[r] = pc[r] /\ pc[r] \in Whole
      /\ PlaceInCall(r)'
  BY ItemDone DEF UnpackMpi, UnpackShm
<1>2. pc[r] \notin Halfway
  BY <1>1 DEF Whole, Halfway
<1>3. \A u \in Var, d \in Side :
        /\ It(HaloIrecv, u, d) \notin todo'[r] /\ It(HaloPackIsend, u, d) \notin todo'[r]
        /\ It(HaloUnpack, u, d) \in todo'[r] <=>
             It(HaloUnpack, u, d) \in todo[r] /\ ~(u = v /\ d = s)
        /\ It(HaloFinal, u, d) \in todo'[r] <=> It(HaloFinal, u, d) \in todo[r]
  BY <1>1 DEF HaloIrecv, HaloPackIsend, HaloUnpack, HaloFinal
<1>4. ThingsDue(r)' /\ HalvesAgree(r)'
  BY <1>1, <1>2, <1>3 DEF ThingsDue, HalvesAgree
<1>5. /\ sendReq' = sendReq /\ posted' = posted /\ chan' = chan
      /\ recvReq[r][v][s] # "active"
      /\ \A u \in Var, d \in Side :
           recvReq'[r][u][d] = IF u = v /\ d = s THEN "null" ELSE recvReq[r][u][d]
  <2>1. CASE UnpackMpi(r, v, s)
    BY <2>1, SMTT(60) DEF UnpackMpi, net, HaloInv, TypeOK
  <2>2. CASE UnpackShm(r, v, s)
    <3>1. recvReq[r][v][s] = "null"
      BY <2>2 DEF UnpackShm, RequestInv, RecvTracked
    <3> QED
      BY <2>2, <3>1 DEF UnpackShm, reqs, net
  <2> QED
    BY <2>1, <2>2
<1>6. RecvTracked(r)'
  BY <1>1, <1>2, <1>3, <1>5 DEF RequestInv, RecvTracked
<1>7. SendTracked(r)'
  BY <1>1, <1>2, <1>3, <1>5 DEF RequestInv, SendTracked
<1>8. PostedActive(r)'
  <2>1. ASSUME NEW d \in Side, NEW i \in DOMAIN posted[r][d]
        PROVE  recvReq'[r][posted[r][d][i].var][d] = "active"
    <3>1. posted[r][d][i].var \in Var /\ recvReq[r][posted[r][d][i].var][d] = "active"
      BY HeldType DEF RequestInv, PostedActive
    <3> QED
      BY <1>5, <3>1
  <2> QED
    BY <1>5, <2>1 DEF RequestInv, PostedActive
<1>9. SentActive(r)'
  BY <1>5 DEF RequestInv, SentActive
<1> QED
  BY <1>1, <1>4, <1>6, <1>7, <1>8, <1>9 DEF RequestInv

LEMMA FinalReq ==
  ASSUME HaloInv, NEW r \in Rank, RequestInv(r), NEW v \in Var, NEW s \in Side,
         Final(r, v, s)
  PROVE  RequestInv(r)'
<1> DEFINE a == HaloFinal
<1>1. /\ todo'[r] = todo[r] \ {It(a, v, s)}
      /\ \A b \in {HaloIrecv, HaloPackIsend, HaloUnpack, HaloFinal}, u \in Var, d \in Side :
           /\ b < a => It(b, u, d) \notin todo[r]
           /\ It(b, u, d) = It(a, v, s) => b = a /\ u = v /\ d = s
      /\ pc'[r] = pc[r] /\ pc[r] \in Whole
      /\ PlaceInCall(r)'
  BY ItemDone DEF Final
<1>2. pc[r] \notin Halfway
  BY <1>1 DEF Whole, Halfway
<1>3. \A u \in Var, d \in Side :
        /\ It(HaloIrecv, u, d) \notin todo'[r] /\ It(HaloPackIsend, u, d) \notin todo'[r]
        /\ It(HaloUnpack, u, d) \in todo'[r] <=> It(HaloUnpack, u, d) \in todo[r]
        /\ It(HaloFinal, u, d) \in todo'[r] <=>
             It(HaloFinal, u, d) \in todo[r] /\ ~(u = v /\ d = s)
  BY <1>1 DEF HaloIrecv, HaloPackIsend, HaloUnpack, HaloFinal
<1>4. ThingsDue(r)' /\ HalvesAgree(r)'
  BY <1>1, <1>2, <1>3 DEF ThingsDue, HalvesAgree
<1>5. /\ recvReq' = recvReq /\ posted' = posted /\ chan' = chan
      /\ sendReq[r][v][s] # "active"
      /\ \A u \in Var, d \in Side :
           sendReq'[r][u][d] = IF u = v /\ d = s THEN "null" ELSE sendReq[r][u][d]
  BY DEF Final, net, HaloInv, TypeOK
<1>6. RecvTracked(r)'
  BY <1>1, <1>2, <1>3, <1>5 DEF RequestInv, RecvTracked
<1>7. SendTracked(r)'
  BY <1>1, <1>2, <1>3, <1>5 DEF RequestInv, SendTracked
<1>8. SentActive(r)'
  <2>1. ASSUME NEW d \in Side, NEW k \in DOMAIN chan[r][d], ~chan[r][d][k].eager
        PROVE  sendReq'[r][chan[r][d][k].var][d] = "active"
    <3>1. chan[r][d][k].var \in Var /\ sendReq[r][chan[r][d][k].var][d] = "active"
      BY <2>1, HeldType DEF RequestInv, SentActive
    <3> QED
      BY <1>5, <3>1
  <2> QED
    BY <1>5, <2>1 DEF RequestInv, SentActive
<1>9. PostedActive(r)'
  BY <1>5 DEF RequestInv, PostedActive
<1> QED
  BY <1>1, <1>4, <1>6, <1>7, <1>8, <1>9 DEF RequestInv

-----------------------------------------------------------------------------
(* Barriers.                                                               *)

LEMMA LeaveBarriersReq ==
  ASSUME HaloInv, NEW r \in Rank, RequestInv(r),
         LeaveBarrier(r) \/ LeaveAllocBarrier(r) \/ LeaveShmBarrier(r)
  PROVE  RequestInv(r)'
<1>1. /\ pc \in [Rank -> PcType] /\ op \in [Rank -> Nat \ {0}]
      /\ sendReq \in [Rank -> [Var -> [Side -> Request]]]
      /\ recvReq \in [Rank -> [Var -> [Side -> Request]]]
  BY DEF HaloInv, TypeOK, PcType
<1>2. /\ script' = script /\ todo' = todo /\ posted' = posted /\ chan' = chan
      /\ pc[r] \in Barriers
  BY DEF LeaveBarrier, LeaveAllocBarrier, LeaveShmBarrier, net, Barriers
<1>3. NoneOpen(r) /\ todo[r] = {}
  BY <1>2, ClosedOutside DEF Halfway, Whole, Barriers, RequestInv, ThingsDue
<1>4. sendReq[r] = NullReqs[r] /\ recvReq[r] = NullReqs[r]
  <2>1. sendReq[r] \in [Var -> [Side -> Request]] /\ recvReq[r] \in [Var -> [Side -> Request]]
    BY <1>1
  <2>2. NullReqs[r] = [v \in Var |-> [s \in Side |-> "null"]]
    BY DEF NullReqs
  <2>3. ASSUME NEW v \in Var
        PROVE  sendReq[r][v] = [s \in Side |-> "null"] /\ recvReq[r][v] = [s \in Side |-> "null"]
    BY <1>3, <2>1 DEF NoneOpen
  <2> QED
    BY <2>1, <2>2, <2>3
<1>5. sendReq'[r] = sendReq[r] /\ recvReq'[r] = recvReq[r]
  BY <1>1, <1>4 DEF LeaveBarrier, LeaveAllocBarrier, LeaveShmBarrier, ReleaseMpiData, reqs
<1>6. \/ pc'[r] = "call"
      \/ pc'[r] \in {"alloc_barrier", "shm_barrier"} /\ op' = op /\ CurCall(r).kind = "prepare"
  BY <1>1 DEF LeaveBarrier, LeaveAllocBarrier, LeaveShmBarrier, Returns, RequestInv, PlaceInCall
<1>7. PlaceInCall(r)'
  BY <1>2, <1>6 DEF PlaceInCall, CurCall
<1> QED
  BY <1>2, <1>3, <1>5, <1>6, <1>7, QuietStep DEF Halfway

-----------------------------------------------------------------------------
(* MPI.                                                                    *)

LEMMA SameRank ==
  ASSUME HaloInv, NEW x \in Rank, RequestInv(x), UNCHANGED <<calc, meta, todo>>,
         sendReq'[x] = sendReq[x], recvReq'[x] = recvReq[x],
         posted'[x] = posted[x], chan'[x] = chan[x]
  PROVE  RequestInv(x)'
BY SameRequestInv DEF Same, calc, meta

(* Where nothing moves, closing or completing requests breaks nothing.     *)
LEMMA TrackedKept ==
  ASSUME HaloInv, NEW x \in Rank, RequestInv(x), UNCHANGED <<calc, meta, todo>>,
         \A v \in Var, s \in Side :
           /\ sendReq[x][v][s] = "null" => sendReq'[x][v][s] = "null"
           /\ recvReq[x][v][s] = "null" => recvReq'[x][v][s] = "null"
  PROVE  /\ PlaceInCall(x)' /\ ThingsDue(x)' /\ HalvesAgree(x)'
         /\ RecvTracked(x)' /\ SendTracked(x)'
<1>1. HalvesAgree(x)' /\ \A u \in Var : NowSwapped(x, u)' = NowSwapped(x, u)
  BY HalvesKept
<1>2. pc' = pc /\ op' = op /\ script' = script /\ todo' = todo
  BY DEF calc
<1>3. PlaceInCall(x)'
  BY <1>2 DEF RequestInv, PlaceInCall, CurCall
<1>4. ThingsDue(x)'
  BY <1>1, <1>2 DEF RequestInv, ThingsDue
<1>5. RecvTracked(x)' /\ SendTracked(x)'
  BY <1>1, <1>2 DEF RequestInv, RecvTracked, SendTracked
<1> QED
  BY <1>1, <1>3, <1>4, <1>5

LEMMA PokeReq ==
  ASSUME HaloInv, NEW r \in Rank, Poke(r), NEW x \in Rank, RequestInv(x)
  PROVE  RequestInv(x)'
<1>1. /\ sendReq \in [Rank -> [Var -> [Side -> Request]]]
      /\ recvReq \in [Rank -> [Var -> [Side -> Request]]]
      /\ UNCHANGED <<calc, meta, todo, posted, chan>>
  BY DEF HaloInv, TypeOK, Poke, net
<1>2. CASE x # r
  BY <1>1, <1>2, SameRank DEF Poke
<1>3. CASE x = r
  <2>1. \A v \in Var, s \in Side :
          /\ sendReq'[x][v][s] = IF sendReq[x][v][s] = "complete" THEN "null" ELSE sendReq[x][v][s]
          /\ recvReq'[x][v][s] = IF recvReq[x][v][s] = "complete" THEN "null" ELSE recvReq[x][v][s]
    BY <1>1, <1>3 DEF Poke
  <2>2. /\ PlaceInCall(x)' /\ ThingsDue(x)' /\ HalvesAgree(x)'
        /\ RecvTracked(x)' /\ SendTracked(x)'
    BY <1>1, <2>1, TrackedKept
  <2>3. PostedActive(x)'
    <3>1. ASSUME NEW d \in Side, NEW i \in DOMAIN posted[x][d]
          PROVE  recvReq'[x][posted[x][d][i].var][d] = "active"
      <4>1. posted[x][d][i].var \in Var /\ recvReq[x][posted[x][d][i].var][d] = "active"
        BY HeldType DEF RequestInv, PostedActive
      <4> QED
        BY <2>1, <4>1
    <3> QED
      BY <1>1, <3>1 DEF RequestInv, PostedActive
  <2>4. SentActive(x)'
    <3>1. ASSUME NEW d \in Side, NEW k \in DOMAIN chan[x][d], ~chan[x][d][k].eager
          PROVE  sendReq'[x][chan[x][d][k].var][d] = "active"
      <4>1. chan[x][d][k].var \in Var /\ sendReq[x][chan[x][d][k].var][d] = "active"
        BY <3>1, HeldType DEF RequestInv, SentActive
      <4> QED
        BY <2>1, <4>1
    <3> QED
      BY <1>1, <3>1 DEF RequestInv, SentActive
  <2> QED
    BY <2>2, <2>3, <2>4 DEF RequestInv
<1> QED
  BY <1>2, <1>3

(* What is left when one element has gone.                                 *)
LEMMA RemovedAt ==
  ASSUME NEW S, NEW q \in Seq(S), NEW i \in DOMAIN q, NEW j \in DOMAIN RemoveAt(q, i)
  PROVE  LET k == IF j < i THEN j ELSE j + 1
         IN  k \in DOMAIN q /\ k # i /\ RemoveAt(q, i)[j] = q[k]
<1>1. i \in 1 .. Len(q) /\ Len(q) \in Nat
  OBVIOUS
<1> DEFINE a == SubSeq(q, 1, i - 1)
           b == SubSeq(q, i + 1, Len(q))
<1>2. a \in Seq(S) /\ Len(a) = i - 1 /\ \A n \in 1 .. i - 1 : a[n] = q[n]
  BY <1>1, SubSeqProperties
<1>3. b \in Seq(S) /\ Len(b) = Len(q) - i /\ \A n \in 1 .. Len(q) - i : b[n] = q[n + i]
  BY <1>1, SubSeqProperties
<1>4. RemoveAt(q, i) = a \o b
  BY DEF RemoveAt
<1> HIDE DEF a, b
<1>5. j \in 1 .. Len(q) - 1
  BY <1>1, <1>2, <1>3, <1>4
<1>6. CASE j < i
  BY <1>1, <1>2, <1>3, <1>4, <1>5, <1>6
<1>7. CASE ~(j < i)
  <2>1. RemoveAt(q, i)[j] = b[j - (i - 1)]
    BY <1>1, <1>2, <1>3, <1>4, <1>5, <1>7
  <2>2. b[j - (i - 1)] = q[j + 1]
    BY <1>1, <1>3, <1>5, <1>7
  <2> QED
    BY <1>1, <1>5, <1>7, <2>1, <2>2
<1> QED
  BY <1>6, <1>7

(* Changing the state of one request.                                      *)
LEMMA RequestChanged ==
  ASSUME NEW f \in [Rank -> [Var -> [Side -> Request]]],
         NEW r \in Rank, NEW v \in Var, NEW s \in Side, NEW x,
         NEW g, g = [f EXCEPT ![r][v][s] = x]
  PROVE  \A y \in Rank, u \in Var, e \in Side :
           g[y][u][e] = IF y = r /\ u = v /\ e = s THEN x ELSE f[y][u][e]
OBVIOUS

(* The receive and the send that meet are complete and MPI has let go of   *)
(* both buffers.                                                           *)
LEMMA DeliverReq ==
  ASSUME HaloInv, NEW r \in Rank, NEW s \in Side, Deliver(r, s),
         \A x \in Rank : RequestInv(x), NEW x \in Rank
  PROVE  RequestInv(x)'
<1> DEFINE q == Nbr(r, s)
           d == Opp(s)
<1>1. q \in Rank /\ d \in Side /\ q # r
  <2>1. q \in Rank /\ d \in Side
    BY NbrRank DEF Deliver
  <2>2. q # r
    BY HaloAssumption DEF Nbr, Rank
  <2> QED
    BY <2>1, <2>2
<1>2. PICK i \in DOMAIN posted[r][s], k \in DOMAIN chan[q][d] :
        /\ recvReq' = [recvReq EXCEPT ![r][posted[r][s][i].var][s] = "complete"]
        /\ sendReq' = IF chan[q][d][k].eager THEN sendReq
                      ELSE [sendReq EXCEPT ![q][chan[q][d][k].var][d] = "complete"]
        /\ posted' = [posted EXCEPT ![r][s] = RemoveAt(@, i)]
        /\ chan' = [chan EXCEPT ![q][d] = RemoveAt(@, k)]
  BY DEF Deliver
<1> DEFINE pv == posted[r][s][i].var
           mv == chan[q][d][k].var
<1>3. /\ sendReq \in [Rank -> [Var -> [Side -> Request]]]
      /\ recvReq \in [Rank -> [Var -> [Side -> Request]]]
      /\ posted \in [Rank -> [Side -> Seq(Posting)]]
      /\ chan \in [Rank -> [Side -> Seq(Message)]]
      /\ UNCHANGED <<calc, meta, todo>>
  BY DEF HaloInv, TypeOK, Deliver
<1>4. pv \in Var /\ mv \in Var
  BY <1>1, HeldType
<1>5. recvReq[r][pv][s] = "active"
  BY DEF RequestInv, PostedActive
<1>6. ~chan[q][d][k].eager => sendReq[q][mv][d] = "active"
  BY <1>1 DEF RequestInv, SentActive
<1>a. /\ recvReq' = [recvReq EXCEPT ![r][pv][s] = "complete"]
      /\ chan[q][d][k].eager => sendReq' = sendReq
      /\ ~chan[q][d][k].eager => sendReq' = [sendReq EXCEPT ![q][mv][d] = "complete"]
      /\ posted' = [posted EXCEPT ![r][s] = RemoveAt(posted[r][s], i)]
      /\ chan' = [chan EXCEPT ![q][d] = RemoveAt(chan[q][d], k)]
  BY <1>2
<1> HIDE DEF pv, mv, q, d
<1>7. \A y \in Rank, u \in Var, e \in Side : recvReq'[y][u][e] =
        IF y = r /\ u = pv /\ e = s THEN "complete" ELSE recvReq[y][u][e]
  BY <1>3, <1>4, <1>a
<1>8. \A y \in Rank, u \in Var, e \in Side : sendReq'[y][u][e] =
        IF ~chan[q][d][k].eager /\ y = q /\ u = mv /\ e = d
        THEN "complete" ELSE sendReq[y][u][e]
  <2>1. CASE chan[q][d][k].eager
    BY <1>a, <2>1
  <2>2. CASE ~chan[q][d][k].eager
    <3>1. sendReq' = [sendReq EXCEPT ![q][mv][d] = "complete"]
      BY <1>a, <2>2
    <3>2. \A y \in Rank, u \in Var, e \in Side : sendReq'[y][u][e] =
            IF y = q /\ u = mv /\ e = d THEN "complete" ELSE sendReq[y][u][e]
      <4>1. sendReq \in [Rank -> [Var -> [Side -> Request]]] /\ q \in Rank /\ d \in Side
            /\ mv \in Var
        BY <1>1, <1>3, <1>4
      <4> QED
        BY ONLY <3>1, <4>1, RequestChanged
    <3> QED
      BY <2>2, <3>2
  <2> QED
    BY <2>1, <2>2
<1>9. \A y \in Rank, e \in Side :
        /\ posted'[y][e] = IF y = r /\ e = s THEN RemoveAt(posted[r][s], i) ELSE posted[y][e]
        /\ chan'[y][e] = IF y = q /\ e = d THEN RemoveAt(chan[q][d], k) ELSE chan[y][e]
  BY <1>1, <1>3, <1>a
<1>10. \A u \in Var, e \in Side :
         /\ sendReq[x][u][e] = "null" => sendReq'[x][u][e] = "null"
         /\ recvReq[x][u][e] = "null" => recvReq'[x][u][e] = "null"
  BY <1>5, <1>6, <1>7, <1>8
<1>11. /\ PlaceInCall(x)' /\ ThingsDue(x)' /\ HalvesAgree(x)'
       /\ RecvTracked(x)' /\ SendTracked(x)'
  BY <1>3, <1>10, TrackedKept
<1>12. ASSUME NEW e \in Side
       PROVE  /\ \A j \in DOMAIN posted'[x][e] :
                   recvReq'[x][posted'[x][e][j].var][e] = "active"
              /\ \A j, l \in DOMAIN posted'[x][e] :
                   posted'[x][e][j].var = posted'[x][e][l].var => j = l
  <2>0. /\ \A j \in DOMAIN posted[x][e] :
             posted[x][e][j].var \in Var /\ recvReq[x][posted[x][e][j].var][e] = "active"
        /\ \A j, l \in DOMAIN posted[x][e] :
             posted[x][e][j].var = posted[x][e][l].var => j = l
    BY HeldType DEF RequestInv, PostedActive
  <2>1. CASE x = r /\ e = s
    <3> DEFINE K(j) == IF j < i THEN j ELSE j + 1
               P == posted[r][s]
    <3>1. posted'[x][e] = RemoveAt(P, i) /\ P \in Seq(Posting) /\ i \in DOMAIN P
      BY <1>3, <1>9, <2>1
    <3>2. \A j \in DOMAIN RemoveAt(P, i) :
            K(j) \in DOMAIN P /\ K(j) # i /\ RemoveAt(P, i)[j] = P[K(j)]
      BY <3>1, RemovedAt
    <3>3. DOMAIN RemoveAt(P, i) \subseteq Int /\ i \in Int
      <4>1. RemoveAt(P, i) \in Seq(Posting)
        BY <3>1, RemoveAtType
      <4> QED
        BY <3>1, <4>1
    <3>4. \A j, l \in DOMAIN RemoveAt(P, i) : K(j) = K(l) => j = l
      BY <3>3
    <3>5. pv = P[i].var
      BY DEF pv
    <3>6. \A j \in DOMAIN P : j # i => recvReq'[x][P[j].var][e] = "active"
      BY <1>7, <2>0, <2>1, <3>1, <3>5
    <3> HIDE DEF K, P
    <3>7. \A j \in DOMAIN posted'[x][e] :
            recvReq'[x][posted'[x][e][j].var][e] = "active"
      BY <3>1, <3>2, <3>6
    <3>8. \A j, l \in DOMAIN posted'[x][e] :
            posted'[x][e][j].var = posted'[x][e][l].var => j = l
      BY <2>0, <2>1, <3>1, <3>2, <3>4 DEF P
    <3> QED
      BY <3>7, <3>8
  <2>2. CASE ~(x = r /\ e = s)
    <3>1. posted'[x][e] = posted[x][e]
      BY <1>9, <2>2
    <3>2. \A j \in DOMAIN posted[x][e] : recvReq'[x][posted[x][e][j].var][e] = "active"
      BY <1>7, <2>0, <2>2
    <3> QED
      BY <2>0, <3>1, <3>2
  <2> QED
    BY <2>1, <2>2
<1>13. ASSUME NEW e \in Side
       PROVE  /\ \A j \in DOMAIN chan'[x][e] : ~chan'[x][e][j].eager =>
                   sendReq'[x][chan'[x][e][j].var][e] = "active"
              /\ \A j, l \in DOMAIN chan'[x][e] :
                   ~chan'[x][e][j].eager /\ ~chan'[x][e][l].eager
                     /\ chan'[x][e][j].var = chan'[x][e][l].var => j = l
  <2>0. /\ \A j \in DOMAIN chan[x][e] : chan[x][e][j].var \in Var
        /\ \A j \in DOMAIN chan[x][e] : ~chan[x][e][j].eager =>
             sendReq[x][chan[x][e][j].var][e] = "active"
        /\ \A j, l \in DOMAIN chan[x][e] :
             ~chan[x][e][j].eager /\ ~chan[x][e][l].eager
               /\ chan[x][e][j].var = chan[x][e][l].var => j = l
    BY HeldType DEF RequestInv, SentActive
  <2>1. CASE x = q /\ e = d
    <3> DEFINE K(j) == IF j < k THEN j ELSE j + 1
               M == chan[q][d]
    <3>1. chan'[x][e] = RemoveAt(M, k) /\ M \in Seq(Message) /\ k \in DOMAIN M
      BY <1>1, <1>3, <1>9, <2>1 DEF q, d
    <3>2. \A j \in DOMAIN RemoveAt(M, k) :
            K(j) \in DOMAIN M /\ K(j) # k /\ RemoveAt(M, k)[j] = M[K(j)]
      BY <3>1, RemovedAt
    <3>3. DOMAIN RemoveAt(M, k) \subseteq Int /\ k \in Int
      <4>1. RemoveAt(M, k) \in Seq(Message)
        BY <3>1, RemoveAtType
      <4> QED
        BY <3>1, <4>1
    <3>4. \A j, l \in DOMAIN RemoveAt(M, k) : K(j) = K(l) => j = l
      BY <3>3
    <3>5. mv = M[k].var
      BY DEF mv, q, d
    <3>6. \A j \in DOMAIN M : j # k /\ ~M[j].eager => sendReq'[x][M[j].var][e] = "active"
      BY <1>8, <2>0, <2>1, <3>1, <3>5
    <3> HIDE DEF K, M
    <3>7. \A j \in DOMAIN chan'[x][e] : ~chan'[x][e][j].eager =>
            sendReq'[x][chan'[x][e][j].var][e] = "active"
      BY <3>1, <3>2, <3>6
    <3>8. \A j, l \in DOMAIN chan'[x][e] :
            ~chan'[x][e][j].eager /\ ~chan'[x][e][l].eager
              /\ chan'[x][e][j].var = chan'[x][e][l].var => j = l
      BY <2>0, <2>1, <3>1, <3>2, <3>4 DEF M
    <3> QED
      BY <3>7, <3>8
  <2>2. CASE ~(x = q /\ e = d)
    <3>1. chan'[x][e] = chan[x][e]
      BY <1>9, <2>2
    <3>2. \A j \in DOMAIN chan[x][e] : ~chan[x][e][j].eager =>
            sendReq'[x][chan[x][e][j].var][e] = "active"
      BY <1>8, <2>0, <2>2
    <3> QED
      BY <2>0, <3>1, <3>2
  <2> QED
    BY <2>1, <2>2
<1>14. PostedActive(x)' /\ SentActive(x)'
  BY <1>12, <1>13 DEF PostedActive, SentActive
<1> QED
  BY <1>11, <1>14 DEF RequestInv

LEMMA EagerReq ==
  ASSUME HaloInv, NEW r \in Rank, NEW s \in Side, Eager(r, s), NEW x \in Rank, RequestInv(x)
  PROVE  RequestInv(x)'
<1>1. PICK k \in DOMAIN chan[r][s] :
        /\ ~chan[r][s][k].eager
        /\ chan' = [chan EXCEPT ![r][s][k] =
                     [chan[r][s][k] EXCEPT !.eager = TRUE,
                                           !.data = sendBuf[r][chan[r][s][k].var][s]]]
        /\ sendReq' = [sendReq EXCEPT ![r][chan[r][s][k].var][s] = "complete"]
  BY DEF Eager
<1> DEFINE m == chan[r][s][k]
           mv == m.var
           n == [m EXCEPT !.eager = TRUE, !.data = sendBuf[r][m.var][s]]
<1>2. /\ sendReq \in [Rank -> [Var -> [Side -> Request]]]
      /\ chan \in [Rank -> [Side -> Seq(Message)]]
      /\ UNCHANGED <<calc, meta, todo>> /\ recvReq' = recvReq /\ posted' = posted
  BY DEF HaloInv, TypeOK, Eager
<1>3. m \in Message /\ mv \in Var
  BY HeldType
<1>4. n.eager /\ n.var = mv
  BY <1>3 DEF Message
<1>5. \A y \in Rank, u \in Var, e \in Side : sendReq'[y][u][e] =
        IF y = r /\ u = mv /\ e = s THEN "complete" ELSE sendReq[y][u][e]
  BY <1>1, <1>2, <1>3
<1>6. /\ \A y \in Rank, e \in Side : ~(y = r /\ e = s) => chan'[y][e] = chan[y][e]
      /\ DOMAIN chan'[r][s] = DOMAIN chan[r][s]
      /\ \A j \in DOMAIN chan[r][s] : chan'[r][s][j] = IF j = k THEN n ELSE chan[r][s][j]
  BY <1>1, <1>2
<1> HIDE DEF n
<1>7. CASE x # r
  <2>1. sendReq'[x] = sendReq[x] /\ chan'[x] = chan[x]
    BY <1>1, <1>2, <1>7
  <2> QED
    BY <1>2, <2>1, SameRank
<1>8. CASE x = r
  <2>1. sendReq[r][mv][s] = "active"
    BY <1>1, <1>8 DEF RequestInv, SentActive
  <2>2. \A u \in Var, e \in Side :
          /\ sendReq[x][u][e] = "null" => sendReq'[x][u][e] = "null"
          /\ recvReq[x][u][e] = "null" => recvReq'[x][u][e] = "null"
    BY <1>2, <1>5, <1>8, <2>1
  <2>3. /\ PlaceInCall(x)' /\ ThingsDue(x)' /\ HalvesAgree(x)'
        /\ RecvTracked(x)' /\ SendTracked(x)'
    BY <1>2, <2>2, TrackedKept
  <2>4. PostedActive(x)'
    BY <1>2 DEF RequestInv, PostedActive
  <2>5. ASSUME NEW e \in Side
        PROVE  /\ \A j \in DOMAIN chan'[x][e] : ~chan'[x][e][j].eager =>
                    sendReq'[x][chan'[x][e][j].var][e] = "active"
               /\ \A j, l \in DOMAIN chan'[x][e] :
                    ~chan'[x][e][j].eager /\ ~chan'[x][e][l].eager
                      /\ chan'[x][e][j].var = chan'[x][e][l].var => j = l
    <3>1. /\ \A j \in DOMAIN chan[x][e] : chan[x][e][j].var \in Var
          /\ \A j \in DOMAIN chan[x][e] : ~chan[x][e][j].eager =>
               sendReq[x][chan[x][e][j].var][e] = "active"
          /\ \A j, l \in DOMAIN chan[x][e] :
               ~chan[x][e][j].eager /\ ~chan[x][e][l].eager
                 /\ chan[x][e][j].var = chan[x][e][l].var => j = l
      BY HeldType DEF RequestInv, SentActive
    <3>2. CASE e # s
      <4>1. chan'[x][e] = chan[x][e]
        BY <1>6, <3>2
      <4>2. \A j \in DOMAIN chan[x][e] : ~chan[x][e][j].eager =>
              sendReq'[x][chan[x][e][j].var][e] = "active"
        BY <1>5, <3>1, <3>2
      <4> QED
        BY <3>1, <4>1, <4>2
    <3>3. CASE e = s
      <4>1. \A j \in DOMAIN chan'[x][e] : ~chan'[x][e][j].eager =>
              j # k /\ j \in DOMAIN chan[x][e] /\ chan'[x][e][j] = chan[x][e][j]
        BY <1>4, <1>6, <1>8, <3>3
      <4>2. \A j \in DOMAIN chan[x][e] : j # k /\ ~chan[x][e][j].eager =>
              chan[x][e][j].var # mv
        BY <1>1, <1>8, <3>1, <3>3
      <4>3. \A j \in DOMAIN chan[x][e] : j # k /\ ~chan[x][e][j].eager =>
              sendReq'[x][chan[x][e][j].var][e] = "active"
        BY <1>5, <3>1, <4>2
      <4> QED
        BY <3>1, <4>1, <4>3
    <3> QED
      BY <3>2, <3>3
  <2> QED
    BY <2>3, <2>4, <2>5 DEF RequestInv, SentActive
<1> QED
  BY <1>7, <1>8

-----------------------------------------------------------------------------
LEMMA StepReq ==
  ASSUME HaloInv, NEW r \in Rank, RankStep(r), RequestInv(r)
  PROVE  RequestInv(r)'
<1>1. CASE BeginRun(r) \/ BeginEnd(r) \/ EvalAll(r)
  BY <1>1, BeginExchangeReq
<1>2. CASE SkipPack(r)
  BY <1>2, SkipPackReq
<1>3. CASE EvalExterior(r)
  BY <1>3, EvalExteriorReq
<1>4. CASE EvalInterior(r)
  BY <1>4, EvalInteriorReq
<1>5. CASE ExchangeDone(r)
  BY <1>5, ExchangeDoneReq
<1>6. ASSUME NEW v \in Var, NEW s \in Side,
             \/ Irecv(r, v, s) \/ PackIsend(r, v, s) \/ PackShm(r, v, s)
             \/ UnpackMpi(r, v, s) \/ UnpackShm(r, v, s) \/ Final(r, v, s)
      PROVE  RequestInv(r)'
  BY <1>6, IrecvReq, PackIsendReq, PackShmReq, UnpackReq, FinalReq
<1>7. CASE \/ Fill(r) \/ SetSlice(r) \/ SetElems(r) \/ SetPoint(r)
           \/ BeginPrepare(r) \/ \E k \in TuneSteps : Tune(r, k)
  BY <1>7, OtherCallReq
<1>8. CASE LeaveBarrier(r) \/ LeaveAllocBarrier(r) \/ LeaveShmBarrier(r)
  BY <1>8, LeaveBarriersReq
<1> QED
  BY <1>1, <1>2, <1>3, <1>4, <1>5, <1>6, <1>7, <1>8 DEF RankStep

(* How a rank moves through its calls.                                     *)
Moves(r) ==
  \/ op'[r] = op[r] /\ pc'[r] \notin {"alloc_barrier", "shm_barrier"} /\ pc[r] \notin Barriers
  \/ /\ op'[r] = op[r] + 1 /\ pc'[r] = "call"
     /\ CurCall(r).kind \notin {"prepare", "end"}
  \/ /\ GlobalBarrier(r, Barriers)
     /\ \/ op'[r] = op[r] /\ pc'[r] = "alloc_barrier"
        \/ op'[r] = op[r] + 1 /\ pc'[r] = "call"
  \/ /\ pc[r] \in {"alloc_barrier", "shm_barrier"}
     /\ \/ op'[r] = op[r] /\ pc'[r] = "shm_barrier"
        \/ op'[r] = op[r] + 1 /\ pc'[r] = "call"

LEMMA NextPackMoves ==
  ASSUME HaloInv, NEW r \in Rank, NextPack(r), pc[r] \notin Barriers, CurCall(r).kind = "run"
  PROVE  Moves(r)
<1>1. pc \in [Rank -> PcType] /\ op \in [Rank -> Nat \ {0}]
  BY DEF HaloInv, TypeOK, PcType
<1>2. \/ pc'[r] = "packs" /\ op'[r] = op[r]
      \/ pc'[r] = "call" /\ op'[r] = op[r] + 1
  BY <1>1 DEF NextPack, Returns
<1> QED
  BY <1>2 DEF Moves

LEMMA StepMoves ==
  ASSUME HaloInv, NEW r \in Rank, RankStep(r), RequestInv(r)
  PROVE  Moves(r)
<1>p. PlaceInCall(r)
  BY DEF RequestInv
<1>t. pc \in [Rank -> PcType] /\ op \in [Rank -> Nat \ {0}]
  BY DEF HaloInv, TypeOK, PcType
<1>1. CASE BeginRun(r) \/ BeginEnd(r) \/ BeginPrepare(r) \/ \E k \in TuneSteps : Tune(r, k)
  BY <1>t, <1>1 DEF BeginRun, BeginEnd, BeginPrepare, Tune, Calling, Moves, Barriers
<1>2. CASE SkipPack(r)
  <2>1. pc[r] \notin Barriers /\ CurCall(r).kind = "run" /\ NextPack(r)
    BY <1>2, <1>p DEF SkipPack, PlaceInCall, Barriers
  <2> QED
    BY <2>1, NextPackMoves
<1>3. CASE EvalExterior(r) \/ EvalInterior(r) \/ EvalAll(r)
  BY <1>t, <1>3 DEF EvalExterior, EvalInterior, EvalAll, Moves, Barriers
<1>4. CASE ExchangeDone(r)
  <2>1. CASE NextPack(r) /\ pc[r] \in {"exch_int", "exch_all"}
    BY <1>p, <2>1, NextPackMoves DEF PlaceInCall, Barriers
  <2>2. CASE op' = op /\ pc[r] \notin Barriers /\ pc'[r] \notin {"alloc_barrier", "shm_barrier"}
    BY <2>2 DEF Moves
  <2> QED
    BY <1>t, <1>4, <2>1, <2>2 DEF ExchangeDone, Barriers
<1>5. ASSUME NEW v \in Var, NEW s \in Side,
             \/ Irecv(r, v, s) \/ PackIsend(r, v, s) \/ PackShm(r, v, s)
             \/ UnpackMpi(r, v, s) \/ UnpackShm(r, v, s) \/ Final(r, v, s)
      PROVE  Moves(r)
  <2>1. UNCHANGED calc /\ \E a : IsHead(r, a, v, s)
    BY <1>5 DEF Irecv, PackIsend, PackShm, UnpackMpi, UnpackShm, Final
  <2>2. pc[r] \in Whole \cup {"exch_ext"}
    BY <2>1 DEF IsHead, RequestInv, ThingsDue
  <2>3. op'[r] = op[r] /\ pc'[r] = pc[r]
    BY <2>1 DEF calc
  <2> QED
    BY <2>2, <2>3 DEF Moves, Whole, Barriers
<1>6. CASE Fill(r) \/ SetSlice(r) \/ SetElems(r) \/ SetPoint(r)
  BY <1>t, <1>6 DEF Fill, SetSlice, SetElems, SetPoint, Calling, Returns, Moves
<1>7. CASE LeaveBarrier(r)
  BY <1>t, <1>7 DEF LeaveBarrier, Returns, Moves, Barriers
<1>8. CASE LeaveAllocBarrier(r)
  BY <1>t, <1>8 DEF LeaveAllocBarrier, Moves
<1>9. CASE LeaveShmBarrier(r)
  BY <1>t, <1>9 DEF LeaveShmBarrier, Returns, Moves
<1> QED
  BY <1>1, <1>2, <1>3, <1>4, <1>5, <1>6, <1>7, <1>8, <1>9 DEF RankStep

(* A buffer goes only when every rank has come to the barrier, and no rank *)
(* goes back.                                                              *)
LEMMA StepRelease ==
  ASSUME RequestsInv, NEW x \in Rank, RankStep(x)
  PROVE  ReleaseInv'
<1>1. /\ op \in [Rank -> Nat \ {0}]
      /\ script' = script /\ HaloInv /\ \A y \in Rank : y # x => op'[y] = op[y] /\ pc'[y] = pc[y]
  <2>1. HaloInv /\ op \in [Rank -> Nat \ {0}]
    BY DEF RequestsInv, HaloInv, TypeOK
  <2>2. \A y \in Rank : y # x => op'[y] = op[y] /\ pc'[y] = pc[y]
    BY <2>1, StepOthers DEF Same
  <2>3. \E y \in Rank : y # x
    <3>1. 0 \in Rank /\ 1 \in Rank
      BY HaloAssumption DEF Rank
    <3> QED
      BY <3>1
  <2>4. script' = script
    BY <2>1, <2>3, StepOthers DEF Same
  <2> QED
    BY <2>1, <2>2, <2>4
<1>2. Moves(x)
  BY <1>1, StepMoves DEF RequestsInv
<1>3. Len(script) \in Nat /\ DOMAIN script = 1 .. Len(script)
  BY HaloAssumption DEF RequestsInv, HaloInv, TypeOK
<1> SUFFICES ASSUME NEW r \in Rank, NEW q \in Rank, NEW k \in DOMAIN script, Released(q, k)'
             PROVE  op'[r] > k \/ (op'[r] = k /\ pc'[r] \in Barriers)
  BY <1>1 DEF ReleaseInv
<1>4. ASSUME op[r] > k \/ (op[r] = k /\ pc[r] \in Barriers)
      PROVE  op'[r] > k \/ (op'[r] = k /\ pc'[r] \in Barriers)
  <2>1. k \in Nat /\ op[r] \in Nat
    BY <1>1, <1>3
  <2>2. CASE r # x
    BY <1>1, <1>4, <2>2
  <2>3. CASE r = x
    BY <1>2, <1>4, <2>1, <2>3 DEF Moves, Barriers
  <2> QED
    BY <2>2, <2>3
<1>5. CASE Released(q, k)
  BY <1>4, <1>5 DEF RequestsInv, ReleaseInv
<1>6. CASE ~Released(q, k)
  <2>1. q = x
    BY <1>1, <1>6 DEF Released
  <2>2. k \in Nat /\ op[q] \in Nat /\ op[r] \in Nat
    BY <1>1, <1>3
  <2>3. op[q] = k
    BY <1>1, <1>2, <1>6, <2>1, <2>2 DEF Released, Moves
  <2>4. CurCall(q).kind = script[k].kind
    BY <2>3 DEF CurCall
  <2>5. GlobalBarrier(q, Barriers)
    BY <1>1, <1>2, <1>6, <2>1, <2>2, <2>3, <2>4 DEF Released, Moves
  <2>6. op[r] > k \/ (op[r] = k /\ pc[r] \in Barriers)
    BY <2>3, <2>5 DEF GlobalBarrier, Reached
  <2> QED
    BY <1>4, <2>6
<1> QED
  BY <1>5, <1>6

LEMMA InitRequests == Init => RequestsInv
<1> SUFFICES ASSUME Init
             PROVE  RequestsInv
  OBVIOUS
<1>1. HaloInv
  BY InitHaloInv
<1>2. ASSUME NEW r \in Rank
      PROVE  RequestInv(r)
  <2>1. /\ pc[r] = "call" /\ todo[r] = {}
        /\ \A s \in Side : posted[r][s] = <<>> /\ chan[r][s] = <<>>
        /\ \A v \in Var, s \in Side : sendReq[r][v][s] = "null" /\ recvReq[r][v][s] = "null"
    BY DEF Init, NullReqs
  <2>2. PlaceInCall(r) /\ ThingsDue(r) /\ HalvesAgree(r) /\ RecvTracked(r) /\ SendTracked(r)
    BY <2>1 DEF PlaceInCall, ThingsDue, HalvesAgree, Halfway, RecvTracked, SendTracked
  <2>3. PostedActive(r) /\ SentActive(r)
    BY <2>1 DEF PostedActive, SentActive
  <2> QED
    BY <2>2, <2>3 DEF RequestInv
<1>3. ReleaseInv
  <2>1. DOMAIN script \subseteq Nat \ {0}
    BY <1>1, HaloAssumption DEF HaloInv, TypeOK
  <2> QED
    BY <2>1 DEF Init, ReleaseInv, Released
<1> QED
  BY <1>1, <1>2, <1>3 DEF RequestsInv

LEMMA NextRequests == RequestsInv /\ [Next]_vars => RequestsInv'
<1> SUFFICES ASSUME RequestsInv, [Next]_vars
             PROVE  RequestsInv'
  OBVIOUS
<1>1. HaloInv'
  BY NextHaloInv DEF RequestsInv
<1>2. ASSUME NEW r \in Rank, RankStep(r)
      PROVE  RequestsInv'
  <2>1. ASSUME NEW x \in Rank
        PROVE  RequestInv(x)'
    BY <1>2, StepReq, StepOthers, SameRequestInv DEF RequestsInv
  <2> QED
    BY <1>1, <1>2, <2>1, StepRelease DEF RequestsInv
<1>3. ASSUME UNCHANGED calc
      PROVE  ReleaseInv'
  BY <1>3 DEF calc, RequestsInv, ReleaseInv, Released
<1>4. ASSUME NEW r \in Rank, Poke(r)
      PROVE  RequestsInv'
  <2>1. \A x \in Rank : RequestInv(x)'
    BY <1>4, PokeReq DEF RequestsInv
  <2> QED
    BY <1>1, <1>3, <1>4, <2>1 DEF RequestsInv, Poke
<1>5. ASSUME NEW r \in Rank, NEW s \in Side, Deliver(r, s)
      PROVE  RequestsInv'
  <2>1. \A x \in Rank : RequestInv(x)'
    BY <1>5, DeliverReq DEF RequestsInv
  <2> QED
    BY <1>1, <1>3, <1>5, <2>1 DEF RequestsInv, Deliver
<1>6. ASSUME NEW r \in Rank, NEW s \in Side, Eager(r, s)
      PROVE  RequestsInv'
  <2>1. \A x \in Rank : RequestInv(x)'
    BY <1>6, EagerReq DEF RequestsInv
  <2> QED
    BY <1>1, <1>3, <1>6, <2>1 DEF RequestsInv, Eager
<1>7. CASE UNCHANGED vars
  <2>1. \A x \in Rank : RequestInv(x)'
    BY <1>7, SameRequestInv DEF Same, vars, calc, meta, reqs, net, RequestsInv
  <2> QED
    BY <1>1, <1>3, <1>7, <2>1 DEF RequestsInv, vars
<1> QED
  BY <1>2, <1>4, <1>5, <1>6, <1>7 DEF Next

-----------------------------------------------------------------------------
LEMMA RequestsAlways == Spec => []RequestsInv
BY InitRequests, NextRequests, PTL DEF Spec

(* A rank never hands MPI a buffer that MPI still owns: when a receive is  *)
(* posted or a message packed, the last request of that var and neighbour  *)
(* is closed (exchange_halos() waits for each in the same exchange).       *)
THEOREM BuffersNotReused == Spec => []NoBufferReuse
<1>1. RequestsInv => NoBufferReuse
  BY DEF RequestsInv, RequestInv, RecvTracked, SendTracked, NoBufferReuse, IsHead, It
<1> QED
  BY <1>1, RequestsAlways, PTL

(* Buffers in shared memory are released only when no rank has anything    *)
(* left to do with them.                                                   *)
THEOREM ReleasedUnused == Spec => []ReleasedBuffersUnused
<1>1. RequestsInv => ReleasedBuffersUnused
  <2> SUFFICES ASSUME RequestsInv, NEW r \in Rank, NEW q \in Rank, NEW k \in DOMAIN script,
                      todo[r] # {}, op[r] <= k, Released(q, k)
               PROVE  FALSE
    BY DEF ReleasedBuffersUnused
  <2>1. pc[r] \notin Barriers
    BY DEF RequestsInv, RequestInv, ThingsDue, Whole, Barriers
  <2>2. op[r] \in Nat /\ k \in Nat
    BY HaloAssumption DEF RequestsInv, HaloInv, TypeOK
  <2> QED
    BY <2>1, <2>2 DEF RequestsInv, ReleaseInv
<1> QED
  BY <1>1, RequestsAlways, PTL

-----------------------------------------------------------------------------
(* The ranks agree although they never compare notes: each goes, at its    *)
(* own pace, through the same sequence of program states, so that wherever *)
(* two ranks stand at the same point of the program they would swap the    *)
(* same vars and steps.                                                    *)
(*                                                                         *)
(* The program state of a rank leaves out what its neighbours and MPI have *)
(* to do with it, and jumps over an exchange to the flags that the         *)
(* exchange will leave.                                                    *)

-----------------------------------------------------------------------------
(* Program states.                                                         *)

Places == {"call", "init", "packs", "eval", "ending"}
Exchanges == {"init", "eval", "ending"}    \* those right after an exchange began

ProgState == [script : Scripts, op : Nat \ {0}, at : Places, step : Int, pack : Pack,
              first : [Var -> Int], dirty : [Var -> [Slot -> BOOLEAN]],
              trail : Seq(ExchangeRecord)]

State(scr, o, a, st, p, f, d, tr) ==
  [script |-> scr, op |-> o, at |-> a, step |-> st, pack |-> p,
   first |-> f, dirty |-> d, trail |-> tr]

(* What an exchange that swaps sw makes of the flags.                      *)
Clean(d, sw) ==
  [v \in Var |-> [n \in Slot |->
     d[v][n] /\ \A t \in sw[v].first .. sw[v].last : Wrap(v, t) # n]]

(* Where a rank is.  The tuner's barrier comes after what the call does,   *)
(* that of end_solution() after its exchange.                              *)
InExchange == Whole \cup Halfway
Tuned(r) == pc[r] = "barrier" /\ CurCall(r).kind = "tune"
Ending(r) == pc[r] = "exch_end" \/ (pc[r] = "barrier" /\ CurCall(r).kind = "end")

At(r) ==
  IF pc[r] = "exch_init" THEN "init"
  ELSE IF pc[r] = "packs" THEN "packs"
  ELSE IF pc[r] \in Halfway \cup {"exch_int", "exch_all"} THEN "eval"
  ELSE IF Ending(r) THEN "ending"
  ELSE "call"

FlagsAfter(r) ==
  IF pc[r] \in InExchange THEN Clean(dirty[r], Last(trail[r]).swap) ELSE dirty[r]

Prog(r) ==
  State(script, IF Tuned(r) THEN op[r] + 1 ELSE op[r], At(r), step[r], pack[r],
        first[r], FlagsAfter(r), trail[r])

(* The operators of HaloExchange that a step of the program needs, of a    *)
(* program state.                                                          *)
XCall(x) == x.script[x.op]
XStop(x) ==
  LET stop == x.step + StepDir * Stride
      end == XCall(x).last + StepDir
  IN  IF (StepDir > 0) = (stop < end) THEN stop ELSE end
XSelected(x) == IF WfSteps = 0 THEN {x.pack} ELSE Pack
XOut(x) == UNION {Packs[p].writes : p \in XSelected(x)}
XSteps(x) == IF StepDir > 0 THEN x.step .. XStop(x) - 1 ELSE XStop(x) + 1 .. x.step
XFirst(x) ==
  [v \in Var |-> IF v \in XOut(x)
                  THEN UpdateValidSteps(v, x.first[v], x.step + StepDir, XStop(x))
                  ELSE x.first[v]]
XDirty(x) ==
  [v \in Var |-> [n \in Slot |->
     \/ x.dirty[v][n]
     \/ v \in XOut(x) /\ \E t \in {u + StepDir : u \in XSteps(x)} : Wrap(v, t) = n]]
XEvals(x) == IF x.trail = <<>> THEN 0 ELSE Last(x.trail).evals

(* One step of the program.                                                *)
Began(x, f, d, n) == [swap |-> SwapOf(0, f, d), evals |-> XEvals(x) + n]
Exchanged(x, o, a, st, p, f, d, n) ==
  State(x.script, o, a, st, p, f, Clean(d, SwapOf(0, f, d)),
        Append(x.trail, Began(x, f, d, n)))

Onward(x) ==
  IF WfSteps = 0 /\ x.pack < Len(Packs)
  THEN State(x.script, x.op, "packs", x.step, x.pack + 1, x.first, x.dirty, x.trail)
  ELSE IF XStop(x) # XCall(x).last + StepDir
  THEN State(x.script, x.op, "packs", XStop(x), 1, x.first, x.dirty, x.trail)
  ELSE State(x.script, x.op + 1, "call", x.step, 1, x.first, x.dirty, x.trail)

NextCall(x, f, d) == State(x.script, x.op + 1, "call", x.step, x.pack, f, d, x.trail)

OneDirty(x, c) == [x.dirty EXCEPT ![c.var][Wrap(c.var, c.first)] = TRUE]

AfterTune(x, k) ==
  LET written == UNION {Packs[p].writes : p \in Pack}
      outs == {StepDir * i : i \in 1 .. k * Stride}
      end == StepDir * k * Stride
  IN  NextCall(x,
        [v \in Var |-> IF v \in written
                        THEN UpdateValidSteps(v, x.first[v], StepDir, end) ELSE x.first[v]],
        [v \in Var |-> [n \in Slot |->
           \/ x.dirty[v][n]
           \/ v \in written /\ \E t \in outs : Wrap(v, t) = n]])

AfterCall(x) ==
  LET c == XCall(x)
  IN  CASE c.kind = "run" ->
             Exchanged(x, x.op, "init", c.first, 1, x.first, x.dirty, 0)
        [] c.kind = "end" ->
             Exchanged(x, x.op, "ending", x.step, x.pack, x.first, x.dirty, 0)
        [] c.kind = "fill" ->
             NextCall(x, x.first, [x.dirty EXCEPT ![c.var] = [n \in Slot |-> TRUE]])
        [] c.kind = "slice" ->
             NextCall(x, [x.first EXCEPT ![c.var] = UpdateValidStep(c.var, @, c.first)],
                      OneDirty(x, c))
        [] c.kind = "elems" -> NextCall(x, x.first, OneDirty(x, c))
        [] c.kind = "tune" /\ TuneSteps # {} -> AfterTune(x, CHOOSE k \in TuneSteps : TRUE)
        [] OTHER -> NextCall(x, x.first, x.dirty)

XSkips(x) == WfSteps = 0 /\ x.step \in Packs[x.pack].skip

Nxt(x) ==
  IF x.op > Len(x.script) THEN x
  ELSE IF x.at = "call" THEN AfterCall(x)
  ELSE IF x.at = "init" THEN
    State(x.script, x.op, "packs", x.step, x.pack, x.first, x.dirty, x.trail)
  ELSE IF x.at = "ending" THEN NextCall(x, x.first, x.dirty)
  ELSE IF x.at = "packs" /\ ~XSkips(x) THEN
    Exchanged(x, x.op, "eval", x.step, x.pack, XFirst(x), XDirty(x), 1)
  ELSE Onward(x)

(* The calls that all ranks answer alike: no rank owns a point, and the    *)
(* tuners of all ranks need the same number of steps.                      *)
UniformCalls ==
  \A k \in DOMAIN script :
    /\ script[k].kind # "point"
    /\ script[k].kind = "tune" => \A m, n \in TuneSteps : m = n

-----------------------------------------------------------------------------
(* What holds in an exchange.                                              *)

CurSwap(r) == Last(trail[r]).swap

(* The second half swaps what the first does.                              *)
HalvesSwap(r) ==
  /\ pc[r] \in InExchange => trail[r] # <<>>
  /\ pc[r] \in Whole \cup {"exch_ext"} => swap[r] = CurSwap(r)
  /\ pc[r] \in Halfway => SwapOf(r, first[r], dirty[r]) = CurSwap(r)

(* There are things to do only for what is swapped, and that is in the     *)
(* window.                                                                 *)
SwapsInWindow(r) ==
  /\ \A i \in todo[r] : Swapped(swap[r][i.var])
  /\ pc[r] \in InExchange => \A v \in Var : Swapped(CurSwap(r)[v]) =>
       {CurSwap(r)[v].first, CurSwap(r)[v].last} \subseteq Window(v, first[r][v])

(* The final phase comes when everything is unpacked, and what it has seen *)
(* is clean.                                                               *)
FinalsClean(r) ==
  pc[r] \in Whole => \A v \in Var, s \in Side :
    Swapped(swap[r][v]) /\ HasNbr(r, s) /\ It(HaloFinal, v, s) \notin todo[r] =>
      /\ \A u \in Var, d \in Side : It(HaloUnpack, u, d) \notin todo[r]
      /\ \A t \in swap[r][v].first .. swap[r][v].last : ~dirty[r][v][Wrap(v, t)]

ExchangeInv(r) == HalvesSwap(r) /\ SwapsInWindow(r) /\ FinalsClean(r)

-----------------------------------------------------------------------------
(* Steps, windows and what is swapped.                                     *)

(* A bounded set of steps has a first and a last one.                      *)
LEMMA LeastNat ==
  ASSUME NEW T \in SUBSET Nat, T # {}
  PROVE  \E m \in T : \A n \in T : m <= n
<1> DEFINE R == {ss \in Nat \X Nat : ss[1] < ss[2]}
<1>1. R = OpToRel(<, Nat)
  BY Zenon DEF OpToRel
<1>2. IsWellFoundedOn(R, Nat)
  BY <1>1, NatLessThanWellFounded, Zenon
<1>3. \E m \in T : \A n \in T : ~ (<<n, m>> \in R)
  <2> HIDE DEF R
  <2> QED
    BY <1>2, WFMin, Zenon
<1>4. ASSUME NEW m \in T, NEW n \in T, ~ (<<n, m>> \in R)
      PROVE  m <= n
  <2>1. <<n, m>> \in Nat \X Nat /\ <<n, m>>[1] = n /\ <<n, m>>[2] = m
    OBVIOUS
  <2>2. ~ (n < m)
    BY <1>4, <2>1
  <2> QED
    BY <2>2
<1> HIDE DEF R
<1> QED
  BY <1>3, <1>4

LEMMA HighLowOf ==
  ASSUME NEW a \in Int, NEW b \in Int, NEW D \in SUBSET (a .. b), D # {}
  PROVE  /\ High(D) \in D /\ \A y \in D : High(D) >= y
         /\ Low(D) \in D /\ \A y \in D : Low(D) <= y
<1>1. \E x \in D : \A y \in D : x <= y
  <2> DEFINE T == {n \in Nat : n + a \in D}
  <2>1. PICK d \in D : TRUE
    OBVIOUS
  <2>2. d - a \in T
    BY <2>1
  <2>3. PICK m \in T : \A n \in T : m <= n
    BY <2>2, LeastNat
  <2>4. ASSUME NEW y \in D
        PROVE  m + a <= y
    <3>1. y - a \in T
      OBVIOUS
    <3> QED
      BY <2>3, <3>1
  <2> QED
    BY <2>3, <2>4
<1>2. \E x \in D : \A y \in D : x >= y
  <2> DEFINE T == {n \in Nat : b - n \in D}
  <2>1. PICK d \in D : TRUE
    OBVIOUS
  <2>2. b - d \in T
    BY <2>1
  <2>3. PICK m \in T : \A n \in T : m <= n
    BY <2>2, LeastNat
  <2>4. ASSUME NEW y \in D
        PROVE  b - m >= y
    <3>1. b - y \in Nat /\ b - (b - y) = y
      OBVIOUS
    <3>2. m <= b - y
      BY <2>3, <3>1
    <3> QED
      BY <3>2
  <2> QED
    BY <2>3, <2>4
<1> QED
  BY <1>1, <1>2 DEF High, Low

(* Every rank has a neighbour, and swaps the vars with a halo.             *)
LEMMA SomeNbr ==
  ASSUME NEW r \in Rank
  PROVE  \E s \in Side : HasNbr(r, s)
BY HaloAssumption DEF Rank, Side, HasNbr

LEMMA SwapOfAll ==
  ASSUME NEW r \in Rank, NEW fst, NEW drt
  PROVE  SwapOf(r, fst, drt) = SwapOf(0, fst, drt)
<1>1. 0 \in Rank
  BY HaloAssumption DEF Rank
<1>2. ASSUME NEW x \in Rank, NEW v \in Var
      PROVE  HasMpiData(x, v) <=> LeftHalo[v] \/ RightHalo[v]
  BY SomeNbr DEF HasMpiData, RecvBuf, SendBuf, Side
<1>3. \A v \in Var : HasMpiData(r, v) <=> HasMpiData(0, v)
  BY <1>1, <1>2
<1> QED
  BY <1>3 DEF SwapOf

(* What is swapped is in the window, and so leaves it where it is.         *)
LEMMA SwapInWindow ==
  ASSUME NEW r, NEW fst \in [Var -> Int], NEW drt, NEW v \in Var,
         Swapped(SwapOf(r, fst, drt)[v])
  PROVE  LET w == SwapOf(r, fst, drt)[v]
         IN  /\ {w.first, w.last} \subseteq Window(v, fst[v])
             /\ \A t \in Window(v, fst[v]) : drt[v][Wrap(v, t)] => t \in w.first .. w.last
<1> DEFINE D == {t \in Window(v, fst[v]) : drt[v][Wrap(v, t)]}
           w == SwapOf(r, fst, drt)[v]
<1>1. D # {} /\ w = [first |-> Low(D), last |-> High(D)]
  BY DEF SwapOf, NoSteps, Swapped
<1>2. \E a, b \in Int : D \in SUBSET (a .. b)
  <2>1. CASE HasStep[v]
    <3>1. D \in SUBSET (fst[v] .. fst[v] + Alloc[v] - 1)
      BY <2>1 DEF Window
    <3>2. fst[v] \in Int /\ fst[v] + Alloc[v] - 1 \in Int
      BY HaloAssumption
    <3> QED
      BY <3>1, <3>2
  <2>2. CASE ~HasStep[v]
    <3>1. D \in SUBSET (0 .. 0)
      BY <2>2 DEF Window
    <3> QED
      BY <3>1
  <2> QED
    BY <2>1, <2>2
<1>3. /\ High(D) \in D /\ \A y \in D : High(D) >= y
      /\ Low(D) \in D /\ \A y \in D : Low(D) <= y
  BY <1>1, <1>2, HighLowOf
<1>4. D \subseteq Window(v, fst[v]) /\ Window(v, fst[v]) \subseteq Int
  BY HaloAssumption DEF Window
<1>5. \A t \in Window(v, fst[v]) : drt[v][Wrap(v, t)] => t \in D
  OBVIOUS
<1> HIDE DEF D
<1>6. w.first = Low(D) /\ w.last = High(D)
  BY <1>1
<1> HIDE DEF w
<1>7. {w.first, w.last} \subseteq Window(v, fst[v])
  BY <1>3, <1>4, <1>6
<1>8. \A t \in Window(v, fst[v]) : drt[v][Wrap(v, t)] => t \in w.first .. w.last
  BY <1>3, <1>4, <1>5, <1>6
<1> QED
  BY <1>7, <1>8 DEF w

LEMMA InsideStays ==
  ASSUME NEW v \in Var, NEW f \in Int, NEW a \in Window(v, f), NEW b \in Window(v, f)
  PROVE  UpdateValidSteps(v, f, a, b) = f
<1>1. ASSUME NEW t \in Window(v, f)
      PROVE  UpdateValidStep(v, f, t) = f
  BY HaloAssumption DEF Window, UpdateValidStep
<1> QED
  BY <1>1 DEF UpdateValidSteps

-----------------------------------------------------------------------------
(* The sequence of program states.                                         *)

LEMMA FieldType ==
  ASSUME NEW x \in ProgState
  PROVE  /\ x.script \in Scripts /\ x.op \in Nat \ {0} /\ x.at \in Places
         /\ x.step \in Int /\ x.pack \in Pack /\ x.first \in [Var -> Int]
         /\ x.dirty \in [Var -> [Slot -> BOOLEAN]] /\ x.trail \in Seq(ExchangeRecord)
BY DEF ProgState

LEMMA XCallType ==
  ASSUME NEW x \in ProgState, x.op <= Len(x.script)
  PROVE  XCall(x) \in Call
<1>1. x.script \in Seq(Call) /\ x.op \in Nat \ {0}
  BY FieldType, HaloAssumption
<1>2. x.op \in DOMAIN x.script
  BY <1>1
<1> QED
  BY <1>1, <1>2 DEF XCall

LEMMA XStopInt ==
  ASSUME NEW x \in ProgState, x.op <= Len(x.script)
  PROVE  /\ XStop(x) \in Int
         /\ XStop(x) # XCall(x).last + StepDir => StepDir * x.step < StepDir * XStop(x)
<1>1. XCall(x).last \in Int /\ x.step \in Int
  BY XCallType, FieldType DEF Call
<1>2. Stride \in Nat /\ Stride >= 1
  BY HaloAssumption DEF Stride
<1>3. CASE StepDir = 1
  BY <1>1, <1>2, <1>3 DEF XStop
<1>4. CASE StepDir = -1
  BY <1>1, <1>2, <1>4 DEF XStop
<1> QED
  BY <1>3, <1>4, HaloAssumption

LEMMA CleanType ==
  ASSUME NEW d \in [Var -> [Slot -> BOOLEAN]], NEW sw
  PROVE  Clean(d, sw) \in [Var -> [Slot -> BOOLEAN]]
BY DEF Clean

LEMMA XEvalsNat ==
  ASSUME NEW x \in ProgState
  PROVE  XEvals(x) \in Nat
<1>1. x.trail \in Seq(ExchangeRecord)
  BY FieldType
<1>2. CASE x.trail = <<>>
  BY <1>2 DEF XEvals
<1>3. CASE x.trail # <<>>
  <2>1. x.trail[Len(x.trail)] \in ExchangeRecord
    BY <1>1, <1>3
  <2> QED
    BY <1>3, <2>1 DEF XEvals, Last, ExchangeRecord
<1> QED
  BY <1>2, <1>3

LEMMA BeganType ==
  ASSUME NEW x \in ProgState, NEW f \in [Var -> Int], NEW d, NEW n \in Nat
  PROVE  Began(x, f, d, n) \in ExchangeRecord
<1>1. 0 \in Rank
  BY HaloAssumption DEF Rank
<1>2. SwapOf(0, f, d) \in [Var -> SwapRange]
  BY <1>1, SwapOfType
<1> QED
  BY <1>2, XEvalsNat DEF Began, ExchangeRecord

LEMMA ExchangedType ==
  ASSUME NEW x \in ProgState, NEW o \in Nat \ {0}, NEW a \in Places, NEW st \in Int,
         NEW p \in Pack, NEW f \in [Var -> Int], NEW d \in [Var -> [Slot -> BOOLEAN]],
         NEW n \in Nat
  PROVE  Exchanged(x, o, a, st, p, f, d, n) \in ProgState
<1> DEFINE e == Began(x, f, d, n)
           sw == SwapOf(0, f, d)
<1>1. e \in ExchangeRecord
  BY BeganType
<1>2. Clean(d, sw) \in [Var -> [Slot -> BOOLEAN]]
  BY CleanType
<1>3. Exchanged(x, o, a, st, p, f, d, n) =
        State(x.script, o, a, st, p, f, Clean(d, sw), Append(x.trail, e))
  BY DEF Exchanged
<1> HIDE DEF e, sw
<1>4. Append(x.trail, e) \in Seq(ExchangeRecord) /\ x.script \in Scripts
  BY <1>1, FieldType
<1> QED
  BY <1>2, <1>3, <1>4 DEF State, ProgState

LEMMA OnwardType ==
  ASSUME NEW x \in ProgState, x.op <= Len(x.script)
  PROVE  LET y == Onward(x)
         IN  /\ y \in ProgState
             /\ y.trail = x.trail
             /\ \/ y.op = x.op /\ y.at = "packs" /\ y.step = x.step /\ y.pack > x.pack
                \/ y.op = x.op /\ y.at = "packs" /\ StepDir * x.step < StepDir * y.step
                \/ y.op = x.op + 1 /\ y.at = "call"
<1>1. /\ x.script \in Scripts /\ x.op \in Nat \ {0} /\ x.step \in Int /\ x.pack \in Pack
      /\ x.first \in [Var -> Int] /\ x.dirty \in [Var -> [Slot -> BOOLEAN]]
      /\ x.trail \in Seq(ExchangeRecord)
  BY FieldType
<1>2. Pack = 1 .. Len(Packs) /\ Len(Packs) \in Nat /\ Len(Packs) > 0
  BY HaloAssumption DEF Pack
<1>3. {"packs", "call"} \subseteq Places
  BY DEF Places
<1>4. CASE WfSteps = 0 /\ x.pack < Len(Packs)
  <2>1. Onward(x) = State(x.script, x.op, "packs", x.step, x.pack + 1, x.first, x.dirty, x.trail)
    BY <1>4 DEF Onward
  <2>2. x.pack + 1 \in Pack /\ x.pack + 1 > x.pack
    BY <1>1, <1>2, <1>4
  <2> QED
    BY <1>1, <1>3, <2>1, <2>2 DEF State, ProgState
<1>5. CASE ~(WfSteps = 0 /\ x.pack < Len(Packs)) /\ XStop(x) # XCall(x).last + StepDir
  <2>1. Onward(x) = State(x.script, x.op, "packs", XStop(x), 1, x.first, x.dirty, x.trail)
    BY <1>5 DEF Onward
  <2>2. 1 \in Pack /\ XStop(x) \in Int /\ StepDir * x.step < StepDir * XStop(x)
    BY <1>2, <1>5, XStopInt
  <2> QED
    BY <1>1, <1>3, <2>1, <2>2 DEF State, ProgState
<1>6. CASE ~(WfSteps = 0 /\ x.pack < Len(Packs)) /\ XStop(x) = XCall(x).last + StepDir
  <2>1. Onward(x) = State(x.script, x.op + 1, "call", x.step, 1, x.first, x.dirty, x.trail)
    BY <1>6 DEF Onward
  <2>2. 1 \in Pack /\ x.op + 1 \in Nat \ {0}
    BY <1>1, <1>2
  <2> QED
    BY <1>1, <1>3, <2>1, <2>2 DEF State, ProgState
<1> QED
  BY <1>4, <1>5, <1>6

LEMMA NextCallType ==
  ASSUME NEW x \in ProgState, NEW f \in [Var -> Int], NEW d \in [Var -> [Slot -> BOOLEAN]]
  PROVE  LET y == NextCall(x, f, d)
         IN  /\ y \in ProgState
             /\ y.trail = x.trail /\ y.op = x.op + 1 /\ y.at = "call"
<1>1. /\ x.script \in Scripts /\ x.op + 1 \in Nat \ {0} /\ x.step \in Int /\ x.pack \in Pack
      /\ x.trail \in Seq(ExchangeRecord)
  BY FieldType
<1>2. "call" \in Places
  BY DEF Places
<1> QED
  BY <1>1, <1>2 DEF NextCall, State, ProgState

LEMMA DirtyType ==
  ASSUME NEW x \in ProgState, NEW v \in Var, NEW t \in Int
  PROVE  /\ [x.dirty EXCEPT ![v] = [n \in Slot |-> TRUE]] \in [Var -> [Slot -> BOOLEAN]]
         /\ [x.dirty EXCEPT ![v][Wrap(v, t)] = TRUE] \in [Var -> [Slot -> BOOLEAN]]
<1>1. x.dirty \in [Var -> [Slot -> BOOLEAN]] /\ Wrap(v, t) \in Slot
  BY FieldType, WrapSlot
<1> QED
  BY <1>1

LEMMA AfterTuneType ==
  ASSUME NEW x \in ProgState, NEW k \in TuneSteps
  PROVE  LET y == AfterTune(x, k)
         IN  /\ y \in ProgState
             /\ y.trail = x.trail /\ y.op = x.op + 1 /\ y.at = "call"
<1> DEFINE written == UNION {Packs[p].writes : p \in Pack}
           outs == {StepDir * i : i \in 1 .. k * Stride}
           end == StepDir * k * Stride
           f == [v \in Var |-> IF v \in written
                   THEN UpdateValidSteps(v, x.first[v], StepDir, end) ELSE x.first[v]]
           d == [v \in Var |-> [n \in Slot |->
                   \/ x.dirty[v][n]
                   \/ v \in written /\ \E t \in outs : Wrap(v, t) = n]]
<1>1. x.first \in [Var -> Int] /\ x.dirty \in [Var -> [Slot -> BOOLEAN]]
  BY FieldType
<1>2. StepDir \in Int /\ end \in Int
  <2>1. StepDir \in Int /\ k \in Int /\ Stride \in Int
    BY HaloAssumption DEF Stride
  <2>2. StepDir * k \in Int
    BY <2>1
  <2> QED
    BY <2>1, <2>2
<1> HIDE DEF end, written, outs
<1>3. f \in [Var -> Int]
  BY <1>1, <1>2, ValidStepInt
<1>4. d \in [Var -> [Slot -> BOOLEAN]]
  BY <1>1
<1>5. AfterTune(x, k) = NextCall(x, f, d)
  BY DEF AfterTune, end, written, outs
<1> HIDE DEF f, d
<1> QED
  BY <1>3, <1>4, <1>5, NextCallType

(* The order of the points of the program.                                 *)
Stage(x) == IF x.at = "call" THEN 0 ELSE IF x.at \in {"init", "ending"} THEN 1 ELSE 2

Later(x, y) ==
  \/ x.op < y.op
  \/ x.op = y.op /\ Stage(x) < Stage(y)
  \/ /\ x.op = y.op /\ Stage(x) = 2 /\ Stage(y) = 2
     /\ \/ StepDir * x.step < StepDir * y.step
        \/ x.step = y.step /\ x.pack < y.pack
        \/ x.step = y.step /\ x.pack = y.pack /\ x.at = "packs" /\ y.at = "eval"

(* A step of the program goes to a later point, and keeps the exchanges    *)
(* there were or adds the one it begins.                                   *)
Follows(x, y) ==
  /\ Later(x, y)
  /\ y.trail = x.trail \/ \E e \in ExchangeRecord : y.trail = Append(x.trail, e)
  /\ y.at \in Exchanges => y.trail # x.trail

LEMMA AfterCallFollows ==
  ASSUME NEW x \in ProgState, x.op <= Len(x.script), x.at = "call"
  PROVE  AfterCall(x) \in ProgState /\ Follows(x, AfterCall(x))
<1> DEFINE c == XCall(x)
<1>1. c \in Call
  BY XCallType
<1>2. c.kind \in Kind /\ c.var \in Var /\ c.first \in Int
  BY <1>1 DEF Call
<1>3. /\ x.op \in Nat \ {0} /\ x.step \in Int /\ x.pack \in Pack /\ x.first \in [Var -> Int]
      /\ x.dirty \in [Var -> [Slot -> BOOLEAN]] /\ x.trail \in Seq(ExchangeRecord)
  BY FieldType
<1>4. ASSUME NEW y \in ProgState, y.trail = x.trail, y.op = x.op + 1, y.at = "call"
      PROVE  Follows(x, y)
  BY <1>3, <1>4 DEF Follows, Later, Exchanges
<1>5. ASSUME NEW y \in ProgState, y.op = x.op, y.at \in {"init", "ending"},
             \E e \in ExchangeRecord : y.trail = Append(x.trail, e)
      PROVE  Follows(x, y)
  <2>1. Stage(x) = 0 /\ Stage(y) = 1
    BY <1>5 DEF Stage
  <2>2. y.trail # x.trail
    BY <1>3, <1>5
  <2> QED
    BY <1>3, <1>5, <2>1, <2>2 DEF Follows, Later
<1>6. CASE c.kind = "run"
  <2> DEFINE y == Exchanged(x, x.op, "init", c.first, 1, x.first, x.dirty, 0)
  <2>1. AfterCall(x) = y
    BY <1>6 DEF AfterCall
  <2>2. 1 \in Pack /\ "init" \in Places /\ 0 \in Nat
    BY HaloAssumption DEF Pack, Places
  <2>3. y \in ProgState
    BY <1>2, <1>3, <2>2, ExchangedType
  <2>4. Began(x, x.first, x.dirty, 0) \in ExchangeRecord
    BY <1>3, <2>2, BeganType
  <2>5. /\ y.op = x.op /\ y.at = "init"
        /\ y.trail = Append(x.trail, Began(x, x.first, x.dirty, 0))
    BY DEF Exchanged, State
  <2> HIDE DEF y
  <2>6. Follows(x, y)
    BY <1>5, <2>3, <2>4, <2>5
  <2> QED
    BY <2>1, <2>3, <2>6
<1>7. CASE c.kind = "end"
  <2> DEFINE y == Exchanged(x, x.op, "ending", x.step, x.pack, x.first, x.dirty, 0)
  <2>1. AfterCall(x) = y
    BY <1>7 DEF AfterCall
  <2>2. "ending" \in Places /\ 0 \in Nat
    BY DEF Places
  <2>3. y \in ProgState
    BY <1>3, <2>2, ExchangedType
  <2>4. Began(x, x.first, x.dirty, 0) \in ExchangeRecord
    BY <1>3, <2>2, BeganType
  <2>5. /\ y.op = x.op /\ y.at = "ending"
        /\ y.trail = Append(x.trail, Began(x, x.first, x.dirty, 0))
    BY DEF Exchanged, State
  <2> HIDE DEF y
  <2>6. Follows(x, y)
    BY <1>5, <2>3, <2>4, <2>5
  <2> QED
    BY <2>1, <2>3, <2>6
<1>8. ASSUME NEW f \in [Var -> Int], NEW d \in [Var -> [Slot -> BOOLEAN]],
             AfterCall(x) = NextCall(x, f, d)
      PROVE  AfterCall(x) \in ProgState /\ Follows(x, AfterCall(x))
  BY <1>4, <1>8, NextCallType
<1>9. CASE c.kind = "fill"
  <2>1. AfterCall(x) =
          NextCall(x, x.first, [x.dirty EXCEPT ![c.var] = [n \in Slot |-> TRUE]])
    BY <1>9 DEF AfterCall
  <2> QED
    BY <1>2, <1>3, <1>8, <2>1, DirtyType
<1>10. OneDirty(x, c) \in [Var -> [Slot -> BOOLEAN]]
  BY <1>2, DirtyType DEF OneDirty
<1>11. CASE c.kind = "slice"
  <2> DEFINE f == [x.first EXCEPT ![c.var] = UpdateValidStep(c.var, @, c.first)]
  <2>1. AfterCall(x) = NextCall(x, f, OneDirty(x, c))
    BY <1>11 DEF AfterCall
  <2>2. f \in [Var -> Int]
    BY <1>2, <1>3, ValidStepInt
  <2> QED
    BY <1>8, <1>10, <2>1, <2>2
<1>12. CASE c.kind = "elems"
  <2>1. AfterCall(x) = NextCall(x, x.first, OneDirty(x, c))
    BY <1>12 DEF AfterCall
  <2> QED
    BY <1>3, <1>8, <1>10, <2>1
<1>13. CASE c.kind = "tune" /\ TuneSteps # {}
  <2> DEFINE k == CHOOSE k \in TuneSteps : TRUE
  <2>1. k \in TuneSteps
    BY <1>13
  <2>2. AfterCall(x) = AfterTune(x, k)
    BY <1>13 DEF AfterCall
  <2> HIDE DEF k
  <2> QED
    BY <1>4, <2>1, <2>2, AfterTuneType
<1>14. CASE /\ c.kind \notin {"run", "end", "fill", "slice", "elems"}
            /\ ~ (c.kind = "tune" /\ TuneSteps # {})
  <2>1. AfterCall(x) = NextCall(x, x.first, x.dirty)
    BY <1>14 DEF AfterCall
  <2> QED
    BY <1>3, <1>8, <2>1
<1> QED
  BY <1>6, <1>7, <1>9, <1>11, <1>12, <1>13, <1>14

LEMMA NxtFollows ==
  ASSUME NEW x \in ProgState
  PROVE  Nxt(x) \in ProgState /\ (Nxt(x) = x \/ Follows(x, Nxt(x)))
<1>1. /\ x.op \in Nat \ {0} /\ x.step \in Int /\ x.pack \in Pack /\ x.at \in Places
      /\ x.first \in [Var -> Int] /\ x.dirty \in [Var -> [Slot -> BOOLEAN]]
      /\ x.trail \in Seq(ExchangeRecord) /\ x.script \in Scripts
  BY FieldType
<1>2. CASE x.op > Len(x.script)
  BY <1>2 DEF Nxt
<1>n. x.op <= Len(x.script) \/ x.op > Len(x.script)
  <2>1. x.script \in Seq(Call)
    BY <1>1, HaloAssumption
  <2> QED
    BY <1>1, <2>1
<1>3. CASE x.op <= Len(x.script) /\ x.at = "call"
  <2>1. ~ (x.op > Len(x.script))
    <3>1. x.script \in Seq(Call)
      BY <1>1, HaloAssumption
    <3> QED
      BY <1>1, <1>3, <3>1
  <2>2. Nxt(x) = AfterCall(x)
    BY <1>3, <2>1 DEF Nxt
  <2> QED
    BY <1>3, <2>2, AfterCallFollows
<1>4. CASE x.op <= Len(x.script) /\ x.at # "call"
  <2>0. ~ (x.op > Len(x.script))
    <3>1. x.script \in Seq(Call)
      BY <1>1, HaloAssumption
    <3> QED
      BY <1>1, <1>4, <3>1
  <2>1. CASE x.at = "init"
    <3> DEFINE y == State(x.script, x.op, "packs", x.step, x.pack, x.first, x.dirty, x.trail)
    <3>1. Nxt(x) = y
      BY <1>4, <2>0, <2>1 DEF Nxt
    <3>2. "packs" \in Places
      BY DEF Places
    <3>3. y \in ProgState /\ y.op = x.op /\ y.at = "packs" /\ y.trail = x.trail
      BY <1>1, <3>2 DEF State, ProgState
    <3> HIDE DEF y
    <3>4. Stage(x) = 1 /\ Stage(y) = 2
      BY <2>1, <3>3 DEF Stage
    <3>5. Follows(x, y)
      BY <3>3, <3>4 DEF Follows, Later, Exchanges
    <3> QED
      BY <3>1, <3>3, <3>5
  <2>2. CASE x.at = "ending"
    <3> DEFINE y == NextCall(x, x.first, x.dirty)
    <3>1. Nxt(x) = y
      BY <1>4, <2>0, <2>2 DEF Nxt
    <3>2. y \in ProgState /\ y.trail = x.trail /\ y.op = x.op + 1 /\ y.at = "call"
      BY <1>1, NextCallType
    <3> HIDE DEF y
    <3>3. Follows(x, y)
      BY <1>1, <3>2 DEF Follows, Later, Exchanges
    <3> QED
      BY <3>1, <3>2, <3>3
  <2>3. CASE x.at = "packs" /\ ~XSkips(x)
    <3> DEFINE y == Exchanged(x, x.op, "eval", x.step, x.pack, XFirst(x), XDirty(x), 1)
    <3>1. Nxt(x) = y
      BY <1>4, <2>0, <2>3 DEF Nxt
    <3>2. XFirst(x) \in [Var -> Int]
      <4>1. x.step + StepDir \in Int /\ XStop(x) \in Int
        BY <1>1, <1>4, XStopInt, HaloAssumption
      <4> QED
        BY <1>1, <4>1, ValidStepInt DEF XFirst
    <3>3. XDirty(x) \in [Var -> [Slot -> BOOLEAN]]
      BY <1>1 DEF XDirty
    <3>4. "eval" \in Places /\ 1 \in Nat
      BY DEF Places
    <3>5. y \in ProgState
      BY <1>1, <3>2, <3>3, <3>4, ExchangedType
    <3>9. Began(x, XFirst(x), XDirty(x), 1) \in ExchangeRecord
      BY <3>2, <3>4, BeganType
    <3>10. /\ y.op = x.op /\ y.at = "eval" /\ y.step = x.step /\ y.pack = x.pack
           /\ y.trail = Append(x.trail, Began(x, XFirst(x), XDirty(x), 1))
      BY DEF Exchanged, State
    <3> HIDE DEF y
    <3>6. Stage(x) = 2 /\ Stage(y) = 2
      BY <2>3, <3>10 DEF Stage
    <3>7. y.trail # x.trail
      BY <1>1, <3>9, <3>10
    <3>8. Follows(x, y)
      BY <2>3, <3>5, <3>6, <3>7, <3>9, <3>10 DEF Follows, Later
    <3> QED
      BY <3>1, <3>5, <3>8
  <2>4. CASE x.at = "eval" \/ (x.at = "packs" /\ XSkips(x))
    <3> DEFINE y == Onward(x)
    <3>1. Nxt(x) = y
      BY <1>4, <2>0, <2>4 DEF Nxt
    <3>2. /\ y \in ProgState
          /\ y.trail = x.trail
          /\ \/ y.op = x.op /\ y.at = "packs" /\ y.step = x.step /\ y.pack > x.pack
             \/ y.op = x.op /\ y.at = "packs" /\ StepDir * x.step < StepDir * y.step
             \/ y.op = x.op + 1 /\ y.at = "call"
      BY <1>4, OnwardType
    <3> HIDE DEF y
    <3>3. Stage(x) = 2 /\ (y.at = "packs" => Stage(y) = 2) /\ y.at \notin Exchanges
      BY <2>4, <3>2 DEF Stage, Exchanges
    <3>4. x.pack \in Int /\ y.pack \in Int
      <4>1. x.pack \in Pack /\ y.pack \in Pack
        BY <1>1, <3>2, FieldType
      <4> QED
        BY <4>1, HaloAssumption DEF Pack
    <3>5. Follows(x, y)
      BY <1>1, <3>2, <3>3, <3>4 DEF Follows, Later
    <3> QED
      BY <3>1, <3>2, <3>5
  <2> QED
    BY <1>1, <1>4, <2>1, <2>2, <2>3, <2>4 DEF Places
<1> QED
  BY <1>n, <1>2, <1>3, <1>4

(* y is where a rank at x can come to: it is in every set of states that   *)
(* has x and is closed under the steps of the program.                     *)
Reach(x, y) == \A S : x \in S /\ (\A z \in S : Nxt(z) \in S) => y \in S

LEMMA ReachSelf ==
  ASSUME NEW x
  PROVE  Reach(x, x)
BY DEF Reach

LEMMA ReachStep ==
  ASSUME NEW x, NEW y, Reach(x, y)
  PROVE  Reach(x, Nxt(y))
BY DEF Reach

LEMMA ReachFirst ==
  ASSUME NEW x, NEW y, Reach(x, y)
  PROVE  y = x \/ Reach(Nxt(x), y)
<1> SUFFICES ASSUME y # x, NEW S, Nxt(x) \in S, \A z \in S : Nxt(z) \in S
             PROVE  y \in S
  BY DEF Reach
<1>1. x \in S \cup {x} /\ \A z \in S \cup {x} : Nxt(z) \in S \cup {x}
  OBVIOUS
<1>2. y \in S \cup {x}
  BY <1>1 DEF Reach
<1> QED
  BY <1>2

LEMMA LaterOrder ==
  ASSUME NEW x \in ProgState, NEW y \in ProgState, NEW z \in ProgState, Later(x, y), Later(y, z)
  PROVE  Later(x, z)
<1>1. Pack \subseteq Int /\ StepDir \in {1, -1}
  BY HaloAssumption DEF Pack
<1>2. \A w \in ProgState :
        w.op \in Int /\ Stage(w) \in 0 .. 2 /\ StepDir * w.step \in Int /\ w.pack \in Int
  <2> TAKE w \in ProgState
  <2>1. w.op \in Int /\ w.step \in Int /\ w.pack \in Int
    BY HaloAssumption, FieldType DEF Pack
  <2>2. StepDir * w.step \in Int
    <3>1. CASE StepDir = 1
      BY <2>1, <3>1
    <3>2. CASE StepDir = -1
      BY <2>1, <3>2
    <3> QED
      BY <1>1, <3>1, <3>2
  <2>3. Stage(w) \in 0 .. 2
    BY DEF Stage
  <2> QED
    BY <2>1, <2>2, <2>3
<1> DEFINE st(w) == StepDir * w.step
<1>3. /\ x.step = y.step => st(x) = st(y)
      /\ y.step = z.step => st(y) = st(z)
  OBVIOUS
<1>4. /\ st(x) \in Int /\ st(y) \in Int /\ st(z) \in Int
      /\ x.op \in Int /\ y.op \in Int /\ z.op \in Int
      /\ x.pack \in Int /\ y.pack \in Int /\ z.pack \in Int
      /\ Stage(x) \in 0 .. 2 /\ Stage(y) \in 0 .. 2 /\ Stage(z) \in 0 .. 2
  BY <1>2
<1> DEFINE L(u, w) ==
             \/ u.op < w.op
             \/ u.op = w.op /\ Stage(u) < Stage(w)
             \/ /\ u.op = w.op /\ Stage(u) = 2 /\ Stage(w) = 2
                /\ \/ st(u) < st(w)
                   \/ u.step = w.step /\ u.pack < w.pack
                   \/ u.step = w.step /\ u.pack = w.pack /\ u.at = "packs" /\ w.at = "eval"
<1>5. L(x, y) /\ L(y, z) /\ (L(x, z) => Later(x, z))
  BY DEF Later
<1> HIDE DEF st
<1>6. L(x, z)
  BY <1>3, <1>4, <1>5
<1> QED
  BY <1>5, <1>6

Begins(s, t) == Len(s) <= Len(t) /\ \A i \in 1 .. Len(s) : s[i] = t[i]

LEMMA BeginsAppend ==
  ASSUME NEW E, NEW s \in Seq(E), NEW t \in Seq(E), NEW e \in E, Begins(s, t)
  PROVE  Begins(s, Append(t, e)) /\ Len(s) < Len(Append(t, e))
<1>1. /\ Len(Append(t, e)) = Len(t) + 1
      /\ \A i \in 1 .. Len(t) : Append(t, e)[i] = t[i]
  OBVIOUS
<1> DEFINE u == Append(t, e)
<1> HIDE DEF u
<1>2. Len(u) = Len(t) + 1 /\ \A i \in 1 .. Len(t) : u[i] = t[i]
  BY <1>1 DEF u
<1>3. Len(s) \in Nat /\ Len(t) \in Nat
  OBVIOUS
<1>4. Begins(s, u) /\ Len(s) < Len(u)
  BY <1>2, <1>3 DEF Begins
<1> QED
  BY <1>4 DEF u

(* What lies between two states of the program.                            *)
Between(x, y) ==
  /\ y = x \/ Later(x, y)
  /\ Begins(x.trail, y.trail)
  /\ y.at \in Exchanges /\ y # x => Len(x.trail) < Len(y.trail)

LEMMA ReachBetween ==
  ASSUME NEW x \in ProgState, NEW y, Reach(x, y)
  PROVE  y \in ProgState /\ Between(x, y)
<1> DEFINE S == {z \in ProgState : Between(x, z)}
<1>1. x \in S
  <2>1. x.trail \in Seq(ExchangeRecord)
    BY FieldType
  <2> QED
    BY <2>1 DEF Between, Begins
<1>2. ASSUME NEW z \in S
      PROVE  Nxt(z) \in S
  <2>1. Nxt(z) \in ProgState /\ (Nxt(z) = z \/ Follows(z, Nxt(z)))
    BY NxtFollows
  <2>2. ASSUME Follows(z, Nxt(z))
        PROVE  Between(x, Nxt(z))
    <3> DEFINE w == Nxt(z)
    <3>1. /\ x.trail \in Seq(ExchangeRecord) /\ z.trail \in Seq(ExchangeRecord)
          /\ Begins(x.trail, z.trail) /\ (z = x \/ Later(x, z))
      BY FieldType DEF Between
    <3>2. /\ w \in ProgState /\ Later(z, w)
          /\ w.trail = z.trail \/ \E e \in ExchangeRecord : w.trail = Append(z.trail, e)
          /\ w.at \in Exchanges => w.trail # z.trail
      BY <2>1, <2>2 DEF Follows
    <3> HIDE DEF w
    <3>3. Later(x, w)
      BY <3>1, <3>2, LaterOrder
    <3>4. Begins(x.trail, w.trail) /\ (w.trail # z.trail => Len(x.trail) < Len(w.trail))
      BY <3>1, <3>2, BeginsAppend
    <3>5. Between(x, w)
      BY <3>2, <3>3, <3>4 DEF Between
    <3> QED
      BY <3>5 DEF w
  <2> QED
    BY <2>1, <2>2
<1> HIDE DEF S
<1>3. y \in S
  BY <1>1, <1>2 DEF Reach
<1> QED
  BY <1>3 DEF S

-----------------------------------------------------------------------------
(* The operators of HaloExchange and those of a program state.             *)

Advances(r) == Prog(r)' = Prog(r) \/ Prog(r)' = Nxt(Prog(r))

LEMMA ProgFields ==
  ASSUME NEW r \in Rank
  PROVE  /\ Prog(r).script = script /\ Prog(r).at = At(r)
         /\ Prog(r).op = IF Tuned(r) THEN op[r] + 1 ELSE op[r]
         /\ Prog(r).step = step[r] /\ Prog(r).pack = pack[r] /\ Prog(r).first = first[r]
         /\ Prog(r).dirty = FlagsAfter(r) /\ Prog(r).trail = trail[r]
BY DEF Prog, State

LEMMA ProgOps ==
  ASSUME NEW r \in Rank, ~Tuned(r)
  PROVE  LET x == Prog(r)
         IN  /\ XCall(x) = CurCall(r) /\ XStop(x) = StopT(r)
             /\ XFirst(x) = FirstAfter(r) /\ (XSkips(x) <=> Skips(r))
             /\ FlagsAfter(r) = dirty[r] => XDirty(x) = DirtyAfter(r)
<1> DEFINE x == Prog(r)
<1>1. /\ x.script = script /\ x.op = op[r] /\ x.step = step[r] /\ x.pack = pack[r]
      /\ x.first = first[r] /\ x.dirty = FlagsAfter(r) /\ x.trail = trail[r]
  BY ProgFields
<1> HIDE DEF x
<1>2. XCall(x) = CurCall(r)
  BY <1>1 DEF XCall, CurCall
<1>3. XStop(x) = StopT(r)
  BY <1>1, <1>2 DEF XStop, StopT
<1>4. XOut(x) = OutVars(r)
  BY <1>1 DEF XOut, XSelected, OutVars, Selected
<1>5. XSteps(x) = Steps(r)
  BY <1>1, <1>3 DEF XSteps, Steps
<1>6. XFirst(x) = FirstAfter(r)
  BY <1>1, <1>3, <1>4 DEF XFirst, FirstAfter
<1>7. XSkips(x) <=> Skips(r)
  BY <1>1 DEF XSkips, Skips
<1>8. ASSUME FlagsAfter(r) = dirty[r]
      PROVE  XDirty(x) = DirtyAfter(r)
  BY <1>1, <1>4, <1>5, <1>8 DEF XDirty, DirtyAfter, DirtyWith, OutSteps
<1> QED
  BY <1>2, <1>3, <1>6, <1>7, <1>8 DEF x

(* The exchange that a program begins is the one that its rank begins.     *)
LEMMA ProgBegan ==
  ASSUME NEW r \in Rank, NEW f, NEW d, NEW n
  PROVE  Began(Prog(r), f, d, n) = [swap |-> SwapOf(r, f, d), evals |-> Evals(r) + n]
<1>1. XEvals(Prog(r)) = Evals(r)
  BY ProgFields DEF XEvals, Evals
<1> QED
  BY <1>1, SwapOfAll DEF Began

(* A rank with a call to make is not past the end of its program.          *)
LEMMA NotAtEnd ==
  ASSUME HaloInv, NEW r \in Rank, op[r] <= Len(script) \/ pc[r] # "call", ~Tuned(r)
  PROVE  ~ (Prog(r).op > Len(Prog(r).script))
<1>1. script \in Seq(Call) /\ op[r] \in Nat
  BY HaloAssumption DEF HaloInv, TypeOK
<1>2. op[r] <= Len(script)
  BY <1>1 DEF HaloInv, InCall
<1> QED
  BY <1>1, <1>2, ProgFields

-----------------------------------------------------------------------------
(* An exchange that begins.                                                *)

LEMMA ExchangeBegins ==
  ASSUME HaloInv, NEW r \in Rank, NEW fst \in [Var -> Int], NEW drt,
         NEW interior \in BOOLEAN, NEW done \in Nat,
         StartExchange(r, fst, drt, TRUE, interior, done),
         first'[r] = fst, dirty'[r] = drt,
         interior => pc'[r] \in Whole,
         ~interior => pc'[r] = "exch_ext"
  PROVE  /\ ExchangeInv(r)'
         /\ trail'[r] = Append(trail[r],
                          [swap |-> SwapOf(r, fst, drt), evals |-> Evals(r) + done])
         /\ FlagsAfter(r)' = Clean(drt, SwapOf(r, fst, drt))
<1> DEFINE sw == SwapOf(r, fst, drt)
           e == [swap |-> sw, evals |-> Evals(r) + done]
<1>1. /\ swap'[r] = sw /\ todo'[r] = TodoOf(r, sw, TRUE, interior)
      /\ trail'[r] = Append(trail[r], e)
  BY DEF StartExchange, HaloInv, TypeOK, TodoType
<1>2. trail[r] \in Seq(ExchangeRecord) /\ e \in ExchangeRecord
  <2>1. trail[r] \in Seq(ExchangeRecord)
    BY DEF HaloInv, TypeOK
  <2>2. sw \in [Var -> SwapRange] /\ Evals(r) \in Nat
    BY <2>1, SwapOfType, EvalsNat
  <2> HIDE DEF sw
  <2> QED
    BY <2>1, <2>2 DEF ExchangeRecord
<1>3. e.swap = sw
  OBVIOUS
<1>4. trail'[r] # <<>> /\ Last(trail'[r]) = e
  <2> HIDE DEF e
  <2> QED
    BY <1>1, <1>2 DEF Last
<1>5. CurSwap(r)' = sw
  BY <1>3, <1>4 DEF CurSwap
<1>6. pc'[r] \in InExchange
  BY DEF InExchange, Halfway
<1>7. FlagsAfter(r)' = Clean(drt, sw)
  BY <1>5, <1>6 DEF FlagsAfter, CurSwap
<1>8. \A i \in todo'[r] : Swapped(swap'[r][i.var])
  BY <1>1 DEF TodoOf, TodoWith
<1>9. pc'[r] \in Halfway => SwapOf(r, first'[r], dirty'[r]) = CurSwap(r)'
  BY <1>5
<1>10. ASSUME NEW v \in Var, Swapped(sw[v])
       PROVE  {sw[v].first, sw[v].last} \subseteq Window(v, fst[v])
  <2>1. Swapped(SwapOf(r, fst, drt)[v])
    BY <1>10
  <2>2. /\ SwapOf(r, fst, drt)[v].first \in Window(v, fst[v])
        /\ SwapOf(r, fst, drt)[v].last \in Window(v, fst[v])
    BY ONLY <2>1, SwapInWindow, v \in Var, fst \in [Var -> Int], Zenon
  <2> QED
    BY <2>2
<1>11. ASSUME pc'[r] \in Whole, NEW v \in Var, NEW s \in Side, Swapped(sw[v]), HasNbr(r, s)
       PROVE  It(HaloFinal, v, s) \in todo'[r]
  <2>1. interior = TRUE
    BY <1>11 DEF Whole
  <2>2. TRUE \in BOOLEAN
    OBVIOUS
  <2> HIDE DEF sw
  <2>3. It(HaloFinal, v, s) \in TodoOf(r, sw, TRUE, TRUE)
    BY ONLY <1>11, <2>2, TodoOfItems, r \in Rank, v \in Var, s \in Side, Zenon
  <2> QED
    BY <1>1, <2>1, <2>3
<1> HIDE DEF sw, e
<1>12. HalvesSwap(r)'
  BY <1>1, <1>4, <1>5, <1>9 DEF HalvesSwap
<1>13. SwapsInWindow(r)'
  BY <1>5, <1>8, <1>10 DEF SwapsInWindow
<1>14. FinalsClean(r)'
  BY <1>1, <1>11 DEF FinalsClean
<1> QED
  BY <1>1, <1>7, <1>12, <1>13, <1>14 DEF sw, e, ExchangeInv

LEMMA BeginStep ==
  ASSUME HaloInv, NEW r \in Rank, BeginRun(r) \/ BeginEnd(r)
  PROVE  ExchangeInv(r)' /\ Advances(r)
<1> DEFINE sw == SwapOf(r, first[r], dirty[r])
           e == [swap |-> sw, evals |-> Evals(r) + 0]
           x == Prog(r)
<1>t. /\ pc \in [Rank -> PcType] /\ op \in [Rank -> Nat \ {0}] /\ step \in [Rank -> Int]
      /\ pack \in [Rank -> Pack] /\ first[r] \in [Var -> Int]
  BY DEF HaloInv, TypeOK, PcType
<1>1. /\ pc[r] = "call" /\ op[r] <= Len(script) /\ script' = script /\ op' = op
      /\ first' = first /\ dirty' = dirty
      /\ StartExchange(r, first[r], dirty[r], TRUE, TRUE, 0)
  BY DEF BeginRun, BeginEnd, Calling, meta
<1>2. pc'[r] \in {"exch_init", "exch_end"}
  BY <1>t DEF BeginRun, BeginEnd
<1>3. /\ ExchangeInv(r)'
      /\ trail'[r] = Append(trail[r], e)
      /\ FlagsAfter(r)' = Clean(dirty[r], sw)
  <2>1. TRUE \in BOOLEAN /\ 0 \in Nat /\ pc'[r] \in Whole
    BY <1>2 DEF Whole
  <2> QED
    BY <1>t, <1>1, <2>1, ExchangeBegins, ZenonT(60)
<1>4. ~Tuned(r) /\ ~Tuned(r)'
  BY <1>1, <1>2 DEF Tuned
<1>5. At(r) = "call" /\ FlagsAfter(r) = dirty[r]
  BY <1>1 DEF At, Halfway, Ending, FlagsAfter, InExchange, Whole
<1>6. /\ x.script = script /\ x.op = op[r] /\ x.at = "call" /\ x.step = step[r]
      /\ x.pack = pack[r] /\ x.first = first[r] /\ x.dirty = dirty[r] /\ x.trail = trail[r]
  BY <1>4, <1>5, ProgFields
<1>7. XCall(x) = CurCall(r) /\ ~ (x.op > Len(x.script))
  BY <1>1, <1>4, ProgOps, NotAtEnd
<1>8. Began(x, first[r], dirty[r], 0) = e /\ SwapOf(0, first[r], dirty[r]) = sw
  BY ProgBegan, SwapOfAll
<1>9. Nxt(x) = AfterCall(x)
  BY <1>6, <1>7 DEF Nxt
<1>10. CASE BeginRun(r)
  <2> DEFINE c == CurCall(r)
  <2>1. c.kind = "run" /\ pc'[r] = "exch_init" /\ step'[r] = c.first /\ pack'[r] = 1
    BY <1>t, <1>10 DEF BeginRun, Calling
  <2>2. At(r)' = "init"
    BY <2>1 DEF At
  <2>3. AfterCall(x) = Exchanged(x, x.op, "init", c.first, 1, x.first, x.dirty, 0)
    BY <1>7, <2>1 DEF AfterCall
  <2> HIDE DEF x, e, sw, c
  <2>4. AfterCall(x) = State(script, op[r], "init", c.first, 1, first[r],
                             Clean(dirty[r], sw), Append(trail[r], e))
    BY <1>6, <1>8, <2>3 DEF Exchanged
  <2>5. Prog(r)' = State(script, op[r], "init", c.first, 1, first[r],
                         Clean(dirty[r], sw), Append(trail[r], e))
    BY <1>1, <1>3, <1>4, <2>1, <2>2 DEF Prog
  <2>6. Prog(r)' = Nxt(x)
    BY <1>9, <2>4, <2>5
  <2> QED
    BY <1>3, <2>6 DEF Advances, x
<1>11. CASE BeginEnd(r)
  <2>1. CurCall(r).kind = "end" /\ pc'[r] = "exch_end" /\ step' = step /\ pack' = pack
    BY <1>t, <1>11 DEF BeginEnd, Calling
  <2>2. At(r)' = "ending"
    BY <2>1 DEF At, Halfway, Ending
  <2>3. AfterCall(x) = Exchanged(x, x.op, "ending", x.step, x.pack, x.first, x.dirty, 0)
    BY <1>7, <2>1 DEF AfterCall
  <2> HIDE DEF x, e, sw
  <2>4. AfterCall(x) = State(script, op[r], "ending", step[r], pack[r], first[r],
                             Clean(dirty[r], sw), Append(trail[r], e))
    BY <1>6, <1>8, <2>3 DEF Exchanged
  <2>5. Prog(r)' = State(script, op[r], "ending", step[r], pack[r], first[r],
                         Clean(dirty[r], sw), Append(trail[r], e))
    BY <1>1, <1>3, <1>4, <2>1, <2>2 DEF Prog
  <2>6. Prog(r)' = Nxt(x)
    BY <1>9, <2>4, <2>5
  <2> QED
    BY <1>3, <2>6 DEF Advances, x
<1> QED
  BY <1>10, <1>11

LEMMA EvalStep ==
  ASSUME HaloInv, NEW r \in Rank, EvalExterior(r) \/ EvalAll(r)
  PROVE  ExchangeInv(r)' /\ Advances(r)
<1> DEFINE f == FirstAfter(r)
           d == DirtyAfter(r)
           sw == SwapOf(r, f, d)
           e == [swap |-> sw, evals |-> Evals(r) + 1]
           x == Prog(r)
<1>t. /\ pc \in [Rank -> PcType] /\ op \in [Rank -> Nat \ {0}] /\ step \in [Rank -> Int]
      /\ pack \in [Rank -> Pack] /\ first \in [Rank -> [Var -> Int]]
      /\ DOMAIN dirty = Rank
  BY DEF HaloInv, TypeOK, PcType
<1>1. /\ pc[r] = "packs" /\ ~Skips(r) /\ script' = script /\ op' = op /\ step' = step
      /\ pack' = pack /\ first'[r] = f /\ dirty'[r] = d
      /\ \/ pc'[r] = "exch_ext" /\ StartExchange(r, f, d, TRUE, FALSE, 1)
         \/ pc'[r] = "exch_all" /\ StartExchange(r, f, d, TRUE, TRUE, 1)
  <2>1. CASE EvalExterior(r)
    BY <1>t, <2>1 DEF EvalExterior
  <2>2. CASE EvalAll(r)
    BY <1>t, <2>2 DEF EvalAll
  <2> QED
    BY <2>1, <2>2
<1>2. f \in [Var -> Int]
  BY <1>1, AfterType DEF HaloInv, InCall
<1>3. /\ ExchangeInv(r)'
      /\ trail'[r] = Append(trail[r], e)
      /\ FlagsAfter(r)' = Clean(d, sw)
  <2> HIDE DEF f, d
  <2>1. TRUE \in BOOLEAN /\ FALSE \in BOOLEAN /\ 1 \in Nat /\ "exch_all" \in Whole
    BY DEF Whole
  <2>2. CASE pc'[r] = "exch_ext" /\ StartExchange(r, f, d, TRUE, FALSE, 1)
    BY <1>1, <1>2, <2>1, <2>2, ExchangeBegins
  <2>3. CASE pc'[r] = "exch_all" /\ StartExchange(r, f, d, TRUE, TRUE, 1)
    BY <1>1, <1>2, <2>1, <2>3, ExchangeBegins
  <2> QED
    BY <1>1, <2>2, <2>3
<1>4. ~Tuned(r) /\ ~Tuned(r)'
  BY <1>1 DEF Tuned
<1>5. At(r) = "packs" /\ FlagsAfter(r) = dirty[r]
  BY <1>1 DEF At, FlagsAfter, InExchange, Whole, Halfway
<1>6. /\ x.script = script /\ x.op = op[r] /\ x.at = "packs" /\ x.step = step[r]
      /\ x.pack = pack[r] /\ x.trail = trail[r]
  BY <1>4, <1>5, ProgFields
<1>7. XFirst(x) = f /\ XDirty(x) = d /\ ~XSkips(x) /\ ~ (x.op > Len(x.script))
  BY <1>1, <1>4, <1>5, ProgOps, NotAtEnd
<1>8. Began(x, f, d, 1) = e /\ SwapOf(0, f, d) = sw
  BY ProgBegan, SwapOfAll
<1>9. Nxt(x) = Exchanged(x, x.op, "eval", x.step, x.pack, XFirst(x), XDirty(x), 1)
  BY <1>6, <1>7 DEF Nxt
<1>10. At(r)' = "eval"
  BY <1>1 DEF At, Halfway
<1> HIDE DEF x, e, sw, f, d
<1>11. Nxt(x) = State(script, op[r], "eval", step[r], pack[r], f, Clean(d, sw),
                      Append(trail[r], e))
  BY <1>6, <1>7, <1>8, <1>9 DEF Exchanged
<1>12. Prog(r)' = State(script, op[r], "eval", step[r], pack[r], f, Clean(d, sw),
                        Append(trail[r], e))
  BY <1>1, <1>3, <1>4, <1>10 DEF Prog
<1> QED
  BY <1>3, <1>11, <1>12 DEF Advances, x

LEMMA OutOfExchange ==
  ASSUME NEW r \in Rank, pc'[r] \notin InExchange, todo'[r] = {}
  PROVE  ExchangeInv(r)'
<1>1. pc'[r] \notin Whole \cup {"exch_ext"} /\ pc'[r] \notin Halfway /\ pc'[r] \notin Whole
  BY DEF InExchange, Halfway
<1> QED
  BY <1>1 DEF ExchangeInv, HalvesSwap, SwapsInWindow, FinalsClean

(* NextPack() and what comes after it in the program.                      *)
LEMMA NextPackStep ==
  ASSUME HaloInv, NEW r \in Rank, NextPack(r), pc[r] # "call", ~Tuned(r),
         script' = script, trail' = trail, first' = first, dirty' = dirty,
         FlagsAfter(r) = dirty[r],
         Nxt(Prog(r)) = Onward(Prog(r))
  PROVE  pc'[r] \notin InExchange /\ Advances(r)
<1> DEFINE x == Prog(r)
<1>t. /\ pc \in [Rank -> PcType] /\ op \in [Rank -> Nat \ {0}] /\ step \in [Rank -> Int]
      /\ pack \in [Rank -> Pack]
  BY DEF HaloInv, TypeOK, PcType
<1>1. /\ x.script = script /\ x.op = op[r] /\ x.step = step[r] /\ x.pack = pack[r]
      /\ x.first = first[r] /\ x.dirty = dirty[r] /\ x.trail = trail[r]
  BY ProgFields
<1>2. XStop(x) = StopT(r) /\ XCall(x) = CurCall(r)
  BY ProgOps
<1>3. pc'[r] \in {"packs", "call"}
  BY <1>t DEF NextPack, Returns
<1>4. /\ pc'[r] \notin InExchange /\ ~Tuned(r)' /\ At(r)' = pc'[r]
      /\ FlagsAfter(r)' = dirty[r]
  BY <1>3 DEF InExchange, Whole, Halfway, Tuned, At, Ending, FlagsAfter
<1>5. Prog(r)' = State(script, op'[r], pc'[r], step'[r], pack'[r], first[r], dirty[r], trail[r])
  BY <1>4 DEF Prog
<1> HIDE DEF x
<1>6. CASE WfSteps = 0 /\ pack[r] < Len(Packs)
  <2>1. op'[r] = op[r] /\ pc'[r] = "packs" /\ step'[r] = step[r] /\ pack'[r] = pack[r] + 1
    BY <1>t, <1>6 DEF NextPack
  <2>2. Onward(x) = State(script, op[r], "packs", step[r], pack[r] + 1, first[r], dirty[r],
                          trail[r])
    BY <1>1, <1>6 DEF Onward
  <2> QED
    BY <1>4, <1>5, <2>1, <2>2 DEF Advances, x
<1>7. CASE ~(WfSteps = 0 /\ pack[r] < Len(Packs)) /\ StopT(r) # CurCall(r).last + StepDir
  <2>1. op'[r] = op[r] /\ pc'[r] = "packs" /\ step'[r] = StopT(r) /\ pack'[r] = 1
    BY <1>t, <1>7 DEF NextPack
  <2>2. Onward(x) = State(script, op[r], "packs", StopT(r), 1, first[r], dirty[r], trail[r])
    BY <1>1, <1>2, <1>7 DEF Onward
  <2> QED
    BY <1>4, <1>5, <2>1, <2>2 DEF Advances, x
<1>8. CASE ~(WfSteps = 0 /\ pack[r] < Len(Packs)) /\ StopT(r) = CurCall(r).last + StepDir
  <2>1. op'[r] = op[r] + 1 /\ pc'[r] = "call" /\ step'[r] = step[r] /\ pack'[r] = 1
    BY <1>t, <1>8 DEF NextPack, Returns
  <2>2. Onward(x) = State(script, op[r] + 1, "call", step[r], 1, first[r], dirty[r], trail[r])
    BY <1>1, <1>2, <1>8 DEF Onward
  <2> QED
    BY <1>4, <1>5, <2>1, <2>2 DEF Advances, x
<1> QED
  BY <1>6, <1>7, <1>8

LEMMA SkipPackStep ==
  ASSUME HaloInv, NEW r \in Rank, RequestInv(r), SkipPack(r)
  PROVE  ExchangeInv(r)' /\ Advances(r)
<1>1. /\ pc[r] = "packs" /\ Skips(r) /\ NextPack(r) /\ script' = script /\ trail' = trail
      /\ first' = first /\ dirty' = dirty /\ todo' = todo
  BY DEF SkipPack, meta
<1>2. ~Tuned(r) /\ At(r) = "packs" /\ FlagsAfter(r) = dirty[r]
  BY <1>1 DEF Tuned, At, FlagsAfter, InExchange, Whole, Halfway
<1>3. XSkips(Prog(r)) /\ ~ (Prog(r).op > Len(Prog(r).script)) /\ Prog(r).at = "packs"
  BY <1>1, <1>2, ProgOps, NotAtEnd, ProgFields
<1>4. Nxt(Prog(r)) = Onward(Prog(r))
  BY <1>3 DEF Nxt
<1>5. pc'[r] \notin InExchange /\ Advances(r)
  BY <1>1, <1>2, <1>4, NextPackStep
<1>6. todo'[r] = {}
  BY <1>1 DEF RequestInv, ThingsDue, Whole
<1> QED
  BY <1>5, <1>6, OutOfExchange

LEMMA EvalInteriorStep ==
  ASSUME HaloInv, NEW r \in Rank, RequestInv(r), ExchangeInv(r), EvalInterior(r)
  PROVE  ExchangeInv(r)' /\ Advances(r)
<1> DEFINE sw == CurSwap(r)
<1>t. pc \in [Rank -> PcType] /\ first \in [Rank -> [Var -> Int]]
      /\ swap \in [Rank -> [Var -> SwapRange]] /\ todo \in TodoType
  BY DEF HaloInv, TypeOK, PcType
<1>0. pc[r] = "inner" /\ pc'[r] = "exch_int"
  BY <1>t DEF EvalInterior
<1>1. FirstAfter(r) = first[r]
  BY <1>0 DEF RequestInv, HalvesAgree, Halfway
<1>2. /\ script' = script /\ op' = op /\ step' = step /\ pack' = pack /\ dirty' = dirty
      /\ first'[r] = first[r]
      /\ StartExchange(r, first[r], dirty[r], FALSE, TRUE, 0)
  BY <1>t, <1>1 DEF EvalInterior
<1>3. SwapOf(r, first[r], dirty[r]) = sw
  BY <1>0 DEF ExchangeInv, HalvesSwap, Halfway
<1>4. trail' = trail /\ swap'[r] = sw /\ todo'[r] = TodoOf(r, sw, FALSE, TRUE)
  BY <1>t, <1>2, <1>3 DEF StartExchange, TodoType
<1>5. CurSwap(r)' = sw /\ FlagsAfter(r)' = FlagsAfter(r)
  BY <1>0, <1>2, <1>4 DEF CurSwap, FlagsAfter, InExchange, Whole, Halfway
<1>6. At(r)' = "eval" /\ At(r) = "eval" /\ ~Tuned(r) /\ ~Tuned(r)'
  BY <1>0 DEF At, Tuned, Halfway
<1>7. Prog(r)' = Prog(r)
  BY <1>2, <1>4, <1>5, <1>6 DEF Prog
<1>8. HalvesSwap(r)'
  BY <1>0, <1>4, <1>5 DEF HalvesSwap, ExchangeInv, InExchange, Whole, Halfway
<1>9. SwapsInWindow(r)'
  <2>1. \A i \in todo'[r] : Swapped(swap'[r][i.var])
    BY <1>4 DEF TodoOf, TodoWith
  <2>2. \A v \in Var : Swapped(sw[v]) => {sw[v].first, sw[v].last} \subseteq Window(v, first[r][v])
    BY <1>0 DEF ExchangeInv, SwapsInWindow, InExchange, Halfway
  <2> QED
    BY <1>2, <1>5, <2>1, <2>2 DEF SwapsInWindow
<1>10. FinalsClean(r)'
  <2>1. ASSUME NEW v \in Var, NEW s \in Side, Swapped(sw[v]), HasNbr(r, s)
        PROVE  It(HaloFinal, v, s) \in todo'[r]
    <3>1. TRUE \in BOOLEAN /\ FALSE \in BOOLEAN
      OBVIOUS
    <3> HIDE DEF sw
    <3>2. It(HaloFinal, v, s) \in TodoOf(r, sw, FALSE, TRUE)
      BY ONLY <2>1, <3>1, TodoOfItems, r \in Rank, v \in Var, s \in Side, Zenon
    <3> QED
      BY <1>4, <3>2
  <2> QED
    BY <1>4, <2>1 DEF FinalsClean
<1> QED
  BY <1>7, <1>8, <1>9, <1>10 DEF Advances, ExchangeInv

(* At the end of an exchange what it has swapped is clean.                 *)
LEMMA CleanAtEnd ==
  ASSUME HaloInv, NEW r \in Rank, ExchangeInv(r), pc[r] \in Whole, todo[r] = {}
  PROVE  FlagsAfter(r) = dirty[r]
<1>1. dirty[r] \in [Var -> [Slot -> BOOLEAN]]
  BY DEF HaloInv, TypeOK
<1>2. swap[r] = CurSwap(r)
  BY DEF ExchangeInv, HalvesSwap
<1>3. ASSUME NEW v \in Var, NEW n \in Slot, dirty[r][v][n]
      PROVE  \A t \in swap[r][v].first .. swap[r][v].last : Wrap(v, t) # n
  <2>1. CASE Swapped(swap[r][v])
    <3>1. PICK s \in Side : HasNbr(r, s)
      BY SomeNbr
    <3>2. \A t \in swap[r][v].first .. swap[r][v].last : ~dirty[r][v][Wrap(v, t)]
      BY <2>1, <3>1 DEF ExchangeInv, FinalsClean
    <3> QED
      BY <1>3, <3>2
  <2>2. CASE ~Swapped(swap[r][v])
    <3>1. swap[r][v].first \in Int /\ swap[r][v].last \in Int
      BY DEF HaloInv, TypeOK, SwapRange
    <3> QED
      BY <2>2, <3>1 DEF Swapped
  <2> QED
    BY <2>1, <2>2
<1>4. ASSUME NEW v \in Var, NEW n \in Slot
      PROVE  (dirty[r][v][n] /\ \A t \in swap[r][v].first .. swap[r][v].last : Wrap(v, t) # n)
               = dirty[r][v][n]
  BY <1>1, <1>3
<1>5. Clean(dirty[r], swap[r]) = dirty[r]
  BY <1>1, <1>4 DEF Clean
<1> QED
  BY <1>2, <1>5 DEF FlagsAfter, InExchange, CurSwap

LEMMA ExchangeDoneStep ==
  ASSUME HaloInv, NEW r \in Rank, RequestInv(r), ExchangeInv(r), ExchangeDone(r)
  PROVE  ExchangeInv(r)' /\ Advances(r)
<1>t. pc \in [Rank -> PcType] /\ op \in [Rank -> Nat \ {0}]
  BY DEF HaloInv, TypeOK, PcType
<1>1. /\ script' = script /\ trail' = trail /\ first' = first /\ dirty' = dirty /\ todo' = todo
      /\ todo[r] = {}
  BY DEF ExchangeDone, meta
<1>2. CASE pc[r] = "exch_ext"
  <2>1. pc'[r] = "inner" /\ op' = op /\ step' = step /\ pack' = pack
    BY <1>t, <1>2 DEF ExchangeDone
  <2>2. CurSwap(r)' = CurSwap(r) /\ FlagsAfter(r)' = FlagsAfter(r)
    BY <1>1, <1>2, <2>1 DEF CurSwap, FlagsAfter, InExchange, Whole, Halfway
  <2>3. At(r)' = "eval" /\ At(r) = "eval" /\ ~Tuned(r) /\ ~Tuned(r)'
    BY <1>2, <2>1 DEF At, Tuned, Halfway
  <2>4. Prog(r)' = Prog(r)
    BY <1>1, <2>1, <2>2, <2>3 DEF Prog
  <2>5. HalvesSwap(r)'
    BY <1>1, <1>2, <2>1, <2>2 DEF HalvesSwap, ExchangeInv, InExchange, Whole, Halfway
  <2>6. SwapsInWindow(r)'
    BY <1>1, <1>2, <2>1, <2>2 DEF SwapsInWindow, ExchangeInv, InExchange, Whole, Halfway
  <2>7. FinalsClean(r)'
    BY <2>1 DEF FinalsClean, Whole
  <2> QED
    BY <2>4, <2>5, <2>6, <2>7 DEF Advances, ExchangeInv
<1>3. CASE pc[r] \in Whole
  <2>1. FlagsAfter(r) = dirty[r]
    BY <1>1, <1>3, CleanAtEnd
  <2>2. ~Tuned(r)
    BY <1>3 DEF Tuned, Whole
  <2>3. ~ (Prog(r).op > Len(Prog(r).script))
    BY <1>3, <2>2, NotAtEnd DEF Whole
  <2>4. CASE pc[r] = "exch_init"
    <3> DEFINE x == Prog(r)
    <3>1. pc'[r] = "packs" /\ op' = op /\ step' = step /\ pack' = pack
      BY <1>t, <2>4 DEF ExchangeDone
    <3>2. /\ At(r) = "init" /\ At(r)' = "packs" /\ FlagsAfter(r)' = dirty[r] /\ ~Tuned(r)'
          /\ pc'[r] \notin InExchange
      BY <1>1, <2>4, <3>1 DEF At, FlagsAfter, InExchange, Whole, Halfway, Tuned
    <3>3. Prog(r)' = State(script, op[r], "packs", step[r], pack[r], first[r], dirty[r], trail[r])
      BY <1>1, <3>1, <3>2 DEF Prog
    <3>4. /\ x.script = script /\ x.op = op[r] /\ x.at = "init" /\ x.step = step[r]
          /\ x.pack = pack[r] /\ x.first = first[r] /\ x.dirty = dirty[r] /\ x.trail = trail[r]
      BY <2>1, <2>2, <3>2, ProgFields
    <3>5. Nxt(x) = State(script, op[r], "packs", step[r], pack[r], first[r], dirty[r], trail[r])
      BY <2>3, <3>4 DEF Nxt
    <3> QED
      BY <1>1, <3>2, <3>3, <3>5, OutOfExchange DEF Advances
  <2>5. CASE pc[r] = "exch_end"
    <3>1. pc'[r] = "barrier" /\ op' = op /\ step' = step /\ pack' = pack
      BY <1>t, <2>5 DEF ExchangeDone
    <3>2. CurCall(r).kind = "end" /\ CurCall(r)' = CurCall(r)
      BY <1>1, <2>5, <3>1 DEF RequestInv, PlaceInCall, CurCall
    <3>3. /\ At(r) = "ending" /\ At(r)' = "ending" /\ FlagsAfter(r)' = dirty[r] /\ ~Tuned(r)'
          /\ pc'[r] \notin InExchange
      BY <1>1, <2>5, <3>1, <3>2 DEF At, Ending, FlagsAfter, InExchange, Whole, Halfway, Tuned
    <3>4. Prog(r)' = Prog(r)
      BY <1>1, <2>1, <2>2, <3>1, <3>3 DEF Prog
    <3> QED
      BY <1>1, <3>3, <3>4, OutOfExchange DEF Advances
  <2>6. CASE pc[r] \in {"exch_int", "exch_all"}
    <3>1. NextPack(r)
      BY <2>6 DEF ExchangeDone
    <3>2. At(r) = "eval"
      BY <2>6 DEF At
    <3>3. Prog(r).at = "eval"
      BY <3>2, ProgFields
    <3>4. Nxt(Prog(r)) = Onward(Prog(r))
      BY <2>3, <3>3 DEF Nxt
    <3>5. pc'[r] \notin InExchange /\ Advances(r)
      BY <1>1, <2>1, <2>2, <2>6, <3>1, <3>4, NextPackStep
    <3> QED
      BY <1>1, <3>5, OutOfExchange
  <2> QED
    BY <1>3, <2>4, <2>5, <2>6 DEF Whole
<1> QED
  BY <1>2, <1>3 DEF ExchangeDone, Whole

(* One thing done in an exchange: the flags it will leave stay the same.   *)
LEMMA ItemStep ==
  ASSUME HaloInv, NEW r \in Rank, ExchangeInv(r), pc[r] \in InExchange, UNCHANGED calc,
         swap'[r] = swap[r], first'[r] = first[r], todo'[r] \subseteq todo[r],
         Clean(dirty'[r], CurSwap(r)) = Clean(dirty[r], CurSwap(r)),
         pc[r] \in Halfway => dirty'[r] = dirty[r],
         FinalsClean(r)'
  PROVE  ExchangeInv(r)' /\ Advances(r)
<1>1. /\ script' = script /\ op' = op /\ pc' = pc /\ step' = step /\ pack' = pack
      /\ trail' = trail
  BY DEF calc
<1>2. CurSwap(r)' = CurSwap(r) /\ FlagsAfter(r)' = FlagsAfter(r)
  BY <1>1 DEF CurSwap, FlagsAfter
<1>3. At(r)' = At(r) /\ (Tuned(r)' <=> Tuned(r))
  BY <1>1 DEF At, Ending, Tuned, CurCall
<1>4. Prog(r)' = Prog(r)
  BY <1>1, <1>2, <1>3 DEF Prog
<1>5. HalvesSwap(r)'
  BY <1>1, <1>2 DEF HalvesSwap, ExchangeInv
<1>6. SwapsInWindow(r)'
  BY <1>1, <1>2 DEF SwapsInWindow, ExchangeInv
<1> QED
  BY <1>4, <1>5, <1>6 DEF Advances, ExchangeInv

LEMMA SendStep ==
  ASSUME HaloInv, NEW r \in Rank, RequestInv(r), ExchangeInv(r), NEW v \in Var, NEW s \in Side,
         Irecv(r, v, s) \/ PackIsend(r, v, s) \/ PackShm(r, v, s)
  PROVE  ExchangeInv(r)' /\ Advances(r)
<1>1. /\ UNCHANGED calc /\ swap' = swap /\ first' = first /\ dirty' = dirty
      /\ \E a \in {HaloIrecv, HaloPackIsend} :
           It(a, v, s) \in todo[r] /\ todo' = [todo EXCEPT ![r] = @ \ {It(a, v, s)}]
  BY DEF Irecv, PackIsend, PackShm, Done, IsHead, It, meta
<1>2. pc[r] \in InExchange /\ pc' = pc
  BY <1>1 DEF RequestInv, ThingsDue, InExchange, Halfway, calc
<1>3. todo'[r] \subseteq todo[r]
  BY <1>1 DEF HaloInv, TypeOK, TodoType
<1>4. ASSUME NEW u \in Var, NEW d \in Side, It(HaloFinal, u, d) \notin todo'[r]
      PROVE  It(HaloFinal, u, d) \notin todo[r]
  <2>1. \A a \in {HaloIrecv, HaloPackIsend} : It(a, v, s) # It(HaloFinal, u, d)
    BY DEF It, HaloIrecv, HaloPackIsend, HaloFinal
  <2> QED
    BY <1>1, <1>4, <2>1, SMTT(60) DEF HaloInv, TypeOK, TodoType
<1>5. FinalsClean(r)'
  BY <1>1, <1>2, <1>3, <1>4 DEF FinalsClean, ExchangeInv
<1> QED
  BY <1>1, <1>2, <1>3, <1>5, ItemStep

LEMMA UnpackStep ==
  ASSUME HaloInv, NEW r \in Rank, RequestInv(r), ExchangeInv(r), NEW v \in Var, NEW s \in Side,
         UnpackMpi(r, v, s) \/ UnpackShm(r, v, s)
  PROVE  ExchangeInv(r)' /\ Advances(r)
<1> DEFINE w == swap[r][v]
<1>t. /\ first \in [Rank -> [Var -> Int]] /\ dirty \in [Rank -> [Var -> [Slot -> BOOLEAN]]]
      /\ DOMAIN todo = Rank
  BY DEF HaloInv, TypeOK, TodoType
<1>1. /\ UNCHANGED calc /\ swap' = swap
      /\ It(HaloUnpack, v, s) \in todo[r]
      /\ todo' = [todo EXCEPT ![r] = @ \ {It(HaloUnpack, v, s)}]
      /\ first' = [first EXCEPT ![r][v] = UpdateValidSteps(v, @, w.first, w.last)]
      /\ dirty' = [dirty EXCEPT ![r][v] =
                     [n \in Slot |-> @[n] \/ \E t \in w.first .. w.last : Wrap(v, t) = n]]
  BY DEF UnpackMpi, UnpackShm, Unpack, Done, IsHead, It
<1>2. pc[r] \in Whole /\ pc' = pc
  BY <1>1 DEF RequestInv, ThingsDue, calc
<1>3. pc[r] \in InExchange /\ pc[r] \notin Halfway
  BY <1>2 DEF InExchange, Whole, Halfway
<1>4. w = CurSwap(r)[v] /\ swap[r] = CurSwap(r)
  BY <1>2 DEF ExchangeInv, HalvesSwap
<1>5. Swapped(w)
  <2>1. It(HaloUnpack, v, s).var = v
    BY DEF It
  <2> QED
    BY <1>1, <2>1 DEF ExchangeInv, SwapsInWindow
<1>6. w.first \in Window(v, first[r][v]) /\ w.last \in Window(v, first[r][v])
  BY <1>3, <1>4, <1>5 DEF ExchangeInv, SwapsInWindow
<1>7. first'[r] = first[r]
  <2>1. UpdateValidSteps(v, first[r][v], w.first, w.last) = first[r][v]
    BY <1>t, <1>6, InsideStays
  <2> HIDE DEF w
  <2> QED
    BY <1>t, <1>1, <2>1
<1>8. Clean(dirty'[r], CurSwap(r)) = Clean(dirty[r], CurSwap(r))
  <2> DEFINE T == w.first .. w.last
             sw == CurSwap(r)
  <2>1. /\ \A u \in Var : u # v => dirty'[r][u] = dirty[r][u]
        /\ \A n \in Slot : dirty'[r][v][n] = (dirty[r][v][n] \/ \E t \in T : Wrap(v, t) = n)
    <3> HIDE DEF T
    <3> QED
      BY <1>t, <1>1 DEF T
  <2>2. ASSUME NEW u \in Var, NEW n \in Slot
        PROVE  (dirty'[r][u][n] /\ \A t \in sw[u].first .. sw[u].last : Wrap(u, t) # n) =
               (dirty[r][u][n] /\ \A t \in sw[u].first .. sw[u].last : Wrap(u, t) # n)
    <3>1. CASE u = v
      BY <1>4, <2>1, <3>1
    <3>2. CASE u # v
      BY <2>1, <3>2
    <3> QED
      BY <3>1, <3>2
  <2> HIDE DEF sw, T
  <2>3. Clean(dirty'[r], sw) = Clean(dirty[r], sw)
    BY <2>2 DEF Clean
  <2> QED
    BY <2>3 DEF sw
<1>9. todo'[r] \subseteq todo[r]
  BY <1>t, <1>1
<1>10. FinalsClean(r)'
  <2>1. ASSUME NEW u \in Var, NEW d \in Side, Swapped(swap[r][u]), HasNbr(r, d)
        PROVE  It(HaloFinal, u, d) \in todo'[r]
    <3>1. It(HaloFinal, u, d) \in todo[r]
      BY <1>1, <1>2, <2>1 DEF ExchangeInv, FinalsClean
    <3>2. It(HaloFinal, u, d) # It(HaloUnpack, v, s)
      BY DEF It, HaloFinal, HaloUnpack
    <3> QED
      BY <1>t, <1>1, <3>1, <3>2
  <2> QED
    BY <1>1, <2>1 DEF FinalsClean
<1> QED
  BY <1>1, <1>3, <1>7, <1>8, <1>9, <1>10, ItemStep

LEMMA FinalStep ==
  ASSUME HaloInv, NEW r \in Rank, RequestInv(r), ExchangeInv(r), NEW v \in Var, NEW s \in Side,
         Final(r, v, s)
  PROVE  ExchangeInv(r)' /\ Advances(r)
<1> DEFINE w == swap[r][v]
           T == w.first .. w.last
<1>t. /\ dirty \in [Rank -> [Var -> [Slot -> BOOLEAN]]] /\ DOMAIN todo = Rank
      /\ swap \in [Rank -> [Var -> SwapRange]]
  BY DEF HaloInv, TypeOK, TodoType
<1>1. /\ UNCHANGED calc /\ swap' = swap /\ first' = first
      /\ It(HaloFinal, v, s) \in todo[r]
      /\ \A j \in todo[r] \ {It(HaloFinal, v, s)} : Before(It(HaloFinal, v, s), j)
      /\ todo' = [todo EXCEPT ![r] = @ \ {It(HaloFinal, v, s)}]
      /\ dirty' = [dirty EXCEPT ![r][v] = [n \in Slot |-> @[n] /\ \A t \in T : Wrap(v, t) # n]]
  BY DEF Final, Done, IsHead, It, Cleaned
<1>2. pc[r] \in Whole /\ pc' = pc
  BY <1>1 DEF RequestInv, ThingsDue, calc
<1>3. pc[r] \in InExchange /\ pc[r] \notin Halfway
  BY <1>2 DEF InExchange, Whole, Halfway
<1>4. w = CurSwap(r)[v] /\ swap[r] = CurSwap(r)
  BY <1>2 DEF ExchangeInv, HalvesSwap
<1>5. /\ \A u \in Var : u # v => dirty'[r][u] = dirty[r][u]
      /\ \A n \in Slot : dirty'[r][v][n] = (dirty[r][v][n] /\ \A t \in T : Wrap(v, t) # n)
  <2> HIDE DEF T
  <2> QED
    BY <1>t, <1>1
<1>6. Clean(dirty'[r], CurSwap(r)) = Clean(dirty[r], CurSwap(r))
  <2> DEFINE sw == CurSwap(r)
  <2>1. ASSUME NEW u \in Var, NEW n \in Slot
        PROVE  (dirty'[r][u][n] /\ \A t \in sw[u].first .. sw[u].last : Wrap(u, t) # n) =
               (dirty[r][u][n] /\ \A t \in sw[u].first .. sw[u].last : Wrap(u, t) # n)
    <3>1. CASE u = v
      BY <1>4, <1>5, <3>1
    <3>2. CASE u # v
      BY <1>5, <3>2
    <3> QED
      BY <3>1, <3>2
  <2> HIDE DEF sw
  <2>2. Clean(dirty'[r], sw) = Clean(dirty[r], sw)
    BY <2>1 DEF Clean
  <2> QED
    BY <2>2 DEF sw
<1>7. todo'[r] \subseteq todo[r]
  BY <1>t, <1>1
<1>8. ASSUME NEW u \in Var, NEW d \in Side
      PROVE  It(HaloUnpack, u, d) \notin todo[r]
  <2>1. /\ It(HaloFinal, v, s).act = HaloFinal /\ It(HaloUnpack, u, d).act = HaloUnpack
        /\ It(HaloUnpack, u, d) # It(HaloFinal, v, s)
    BY DEF It, HaloFinal, HaloUnpack
  <2>2. ~Before(It(HaloFinal, v, s), It(HaloUnpack, u, d))
    BY <2>1 DEF Before, HaloFinal, HaloUnpack
  <2> QED
    BY <1>1, <2>1, <2>2
<1>9. FinalsClean(r)'
  <2> SUFFICES ASSUME NEW u \in Var, NEW d \in Side, Swapped(swap[r][u]), HasNbr(r, d),
                      It(HaloFinal, u, d) \notin todo'[r]
               PROVE  /\ \A x \in Var, y \in Side : It(HaloUnpack, x, y) \notin todo'[r]
                      /\ \A t \in swap[r][u].first .. swap[r][u].last :
                           ~dirty'[r][u][Wrap(u, t)]
    BY <1>1, <1>2 DEF FinalsClean
  <2>1. \A x \in Var, y \in Side : It(HaloUnpack, x, y) \notin todo'[r]
    BY <1>7, <1>8
  <2>2. ASSUME NEW t \in swap[r][u].first .. swap[r][u].last
        PROVE  Wrap(u, t) \in Slot
    BY <1>t, WrapSlot DEF SwapRange
  <2>3. CASE u = v
    <3>1. \A n \in Slot : (\E t \in T : Wrap(v, t) = n) => ~dirty'[r][v][n]
      BY <1>5
    <3> QED
      BY <2>1, <2>2, <2>3, <3>1
  <2>4. CASE u # v
    <3>1. It(HaloFinal, u, d) # It(HaloFinal, v, s)
      BY <2>4 DEF It
    <3>2. It(HaloFinal, u, d) \notin todo[r]
      BY <1>t, <1>1, <3>1
    <3>3. \A t \in swap[r][u].first .. swap[r][u].last : ~dirty[r][u][Wrap(u, t)]
      BY <1>2, <3>2 DEF ExchangeInv, FinalsClean
    <3> QED
      BY <1>5, <2>1, <2>4, <3>3
  <2> QED
    BY <2>3, <2>4
<1> QED
  BY <1>1, <1>3, <1>6, <1>7, <1>9, ItemStep

(* The calls without an exchange.  A rank tunes itself in as many steps as *)
(* the others, and does not own a point alone: UniformCalls.               *)
LEMMA CallStep ==
  ASSUME HaloInv, NEW r \in Rank, RequestInv(r),
         \/ Fill(r) \/ SetSlice(r) \/ SetElems(r) \/ SetPoint(r)
         \/ BeginPrepare(r) \/ \E k \in TuneSteps : Tune(r, k)
  PROVE  ExchangeInv(r)' /\ (UniformCalls => Advances(r))
<1> DEFINE x == Prog(r)
           c == CurCall(r)
<1>t. /\ pc \in [Rank -> PcType] /\ op \in [Rank -> Nat \ {0}]
      /\ first \in [Rank -> [Var -> Int]] /\ dirty \in [Rank -> [Var -> [Slot -> BOOLEAN]]]
      /\ script \in Seq(Call)
  BY HaloAssumption DEF HaloInv, TypeOK, PcType
<1>1. /\ pc[r] = "call" /\ op[r] <= Len(script) /\ script' = script /\ step' = step
      /\ pack' = pack /\ trail' = trail /\ todo' = todo
      /\ pc'[r] \in {"call", "barrier"}
  BY <1>t DEF Fill, SetSlice, SetElems, SetPoint, Tune, BeginPrepare, Calling, Returns, meta
<1>2. ExchangeInv(r)'
  <2>1. todo'[r] = {}
    BY <1>1 DEF RequestInv, ThingsDue, Whole
  <2>2. pc'[r] \notin InExchange
    BY <1>1 DEF InExchange, Whole, Halfway
  <2> QED
    BY <2>1, <2>2, OutOfExchange
<1>3. ~Tuned(r) /\ At(r) = "call" /\ FlagsAfter(r) = dirty[r] /\ FlagsAfter(r)' = dirty'[r]
  BY <1>1 DEF Tuned, At, Ending, FlagsAfter, InExchange, Whole, Halfway
<1>4. /\ x.script = script /\ x.op = op[r] /\ x.at = "call" /\ x.step = step[r]
      /\ x.pack = pack[r] /\ x.first = first[r] /\ x.dirty = dirty[r] /\ x.trail = trail[r]
  BY <1>3, ProgFields
<1>5. XCall(x) = c /\ Nxt(x) = AfterCall(x)
  BY <1>1, <1>3, <1>4, ProgOps, NotAtEnd DEF Nxt
<1>6. c \in Call /\ (UniformCalls => c.kind # "point")
  <2>1. op[r] \in DOMAIN script
    BY <1>t, <1>1
  <2> QED
    BY <2>1, CallType DEF UniformCalls, CurCall
<1>7. c.var \in Var
  BY <1>6 DEF Call
<1>8. NextCall(x, first'[r], dirty'[r]) =
        State(script, op[r] + 1, "call", step[r], pack[r], first'[r], dirty'[r], trail[r])
  BY <1>4 DEF NextCall
<1>9. ASSUME pc'[r] = "call", op'[r] = op[r] + 1
      PROVE  Prog(r)' = NextCall(x, first'[r], dirty'[r])
  <2>1. ~Tuned(r)' /\ At(r)' = "call"
    BY <1>9 DEF Tuned, At, Halfway, Ending
  <2> QED
    BY <1>1, <1>3, <1>8, <1>9, <2>1 DEF Prog
<1>10. CASE Fill(r)
  <2>1. /\ c.kind = "fill" /\ pc'[r] = "call" /\ op'[r] = op[r] + 1 /\ first' = first
        /\ dirty'[r] = [dirty[r] EXCEPT ![c.var] = [n \in Slot |-> TRUE]]
    BY <1>t, <1>10 DEF Fill, Calling, Returns
  <2>2. AfterCall(x) = NextCall(x, x.first, [x.dirty EXCEPT ![c.var] = [n \in Slot |-> TRUE]])
    BY <1>5, <2>1 DEF AfterCall
  <2> HIDE DEF x
  <2>3. Prog(r)' = Nxt(x)
    BY <1>4, <1>5, <1>9, <2>1, <2>2
  <2> QED
    BY <1>2, <2>3 DEF Advances, x
<1>11. CASE SetSlice(r)
  <2>1. /\ c.kind = "slice" /\ pc'[r] = "call" /\ op'[r] = op[r] + 1
        /\ first'[r] = [first[r] EXCEPT ![c.var] = UpdateValidStep(c.var, @, c.first)]
        /\ dirty'[r] = [dirty[r] EXCEPT ![c.var][Wrap(c.var, c.first)] = TRUE]
    BY <1>t, <1>7, <1>11 DEF SetSlice, Calling, Returns, DirtyMarked
  <2>2. AfterCall(x) = NextCall(x,
          [x.first EXCEPT ![c.var] = UpdateValidStep(c.var, @, c.first)], OneDirty(x, c))
    BY <1>5, <2>1 DEF AfterCall
  <2> HIDE DEF x, c
  <2>3. Prog(r)' = Nxt(x)
    BY <1>4, <1>5, <1>9, <2>1, <2>2 DEF OneDirty
  <2> QED
    BY <1>2, <2>3 DEF Advances, x
<1>12. CASE SetElems(r)
  <2>1. /\ c.kind = "elems" /\ pc'[r] = "call" /\ op'[r] = op[r] + 1 /\ first' = first
        /\ dirty'[r] = [dirty[r] EXCEPT ![c.var][Wrap(c.var, c.first)] = TRUE]
    BY <1>t, <1>7, <1>12 DEF SetElems, Calling, Returns, DirtyMarked
  <2>2. AfterCall(x) = NextCall(x, x.first, OneDirty(x, c))
    BY <1>5, <2>1 DEF AfterCall
  <2> HIDE DEF x, c
  <2>3. Prog(r)' = Nxt(x)
    BY <1>4, <1>5, <1>9, <2>1, <2>2 DEF OneDirty
  <2> QED
    BY <1>2, <2>3 DEF Advances, x
<1>13. CASE SetPoint(r)
  BY <1>2, <1>6, <1>13 DEF SetPoint, Calling
<1>14. CASE BeginPrepare(r)
  <2>1. /\ c.kind = "prepare" /\ pc'[r] = "barrier" /\ op' = op /\ first' = first
        /\ dirty' = dirty
    BY <1>t, <1>14 DEF BeginPrepare, Calling, meta
  <2>2. CurCall(r)' = c
    BY <1>1, <2>1 DEF CurCall
  <2>3. ~Tuned(r)' /\ At(r)' = "call"
    BY <2>1, <2>2 DEF Tuned, At, Halfway, Ending
  <2>4. Prog(r)' = Prog(r)
    BY <1>1, <1>3, <2>1, <2>3 DEF Prog
  <2> QED
    BY <1>2, <2>4 DEF Advances
<1>15. ASSUME NEW k \in TuneSteps, Tune(r, k), UniformCalls
       PROVE  Advances(r)
  <2> DEFINE written == UNION {Packs[p].writes : p \in Pack}
             outs == {StepDir * i : i \in 1 .. k * Stride}
             end == StepDir * k * Stride
             f == [v \in Var |-> IF v \in written
                     THEN UpdateValidSteps(v, first[r][v], StepDir, end) ELSE first[r][v]]
             d == [v \in Var |-> [n \in Slot |->
                     \/ dirty[r][v][n]
                     \/ v \in written /\ \E t \in outs : Wrap(v, t) = n]]
  <2>1. c.kind = "tune" /\ pc'[r] = "barrier" /\ op' = op
    BY <1>t, <1>15 DEF Tune, Calling
  <2>2. first'[r] = f /\ dirty'[r] = d
    BY <1>t, <1>15 DEF Tune
  <2>3. CurCall(r)' = c
    BY <1>1, <2>1 DEF CurCall
  <2>4. Tuned(r)' /\ At(r)' = "call"
    BY <2>1, <2>3 DEF Tuned, At, Halfway, Ending
  <2>5. k = CHOOSE m \in TuneSteps : TRUE
    <3>1. op[r] \in DOMAIN script
      BY <1>t, <1>1
    <3>2. \A m, n \in TuneSteps : m = n
      BY <1>15, <2>1, <3>1 DEF UniformCalls, CurCall
    <3> QED
      BY <1>15, <3>2
  <2>6. AfterCall(x) = AfterTune(x, k)
    BY <1>5, <2>1, <2>5 DEF AfterCall
  <2> HIDE DEF x
  <2>7. AfterTune(x, k) = NextCall(x, f, d)
    BY <1>4 DEF AfterTune
  <2> HIDE DEF f, d
  <2>8. Prog(r)' = NextCall(x, f, d)
    BY <1>1, <1>3, <1>8, <2>1, <2>2, <2>4 DEF Prog
  <2> QED
    BY <1>5, <2>6, <2>7, <2>8 DEF Advances, x
<1> QED
  BY <1>2, <1>10, <1>11, <1>12, <1>13, <1>14, <1>15

LEMMA BarrierStep ==
  ASSUME HaloInv, NEW r \in Rank, RequestInv(r),
         LeaveBarrier(r) \/ LeaveAllocBarrier(r) \/ LeaveShmBarrier(r)
  PROVE  ExchangeInv(r)' /\ Advances(r)
<1> DEFINE x == Prog(r)
<1>t. pc \in [Rank -> PcType] /\ op \in [Rank -> Nat \ {0}]
  BY DEF HaloInv, TypeOK, PcType
<1>1. /\ pc[r] \in Barriers /\ script' = script /\ step' = step /\ pack' = pack
      /\ trail' = trail /\ todo' = todo /\ first' = first /\ dirty' = dirty
      /\ \/ pc'[r] = "call" /\ op'[r] = op[r] + 1
         \/ pc'[r] \in {"alloc_barrier", "shm_barrier"} /\ op'[r] = op[r]
  BY <1>t DEF LeaveBarrier, LeaveAllocBarrier, LeaveShmBarrier, Returns, Barriers, meta
<1>2. ExchangeInv(r)'
  <2>1. todo'[r] = {}
    BY <1>1 DEF RequestInv, ThingsDue, Whole, Barriers
  <2>2. pc'[r] \notin InExchange
    BY <1>1 DEF InExchange, Whole, Halfway
  <2> QED
    BY <2>1, <2>2, OutOfExchange
<1>3. FlagsAfter(r) = dirty[r] /\ FlagsAfter(r)' = dirty[r] /\ ~Tuned(r)' /\ At(r)' = "call"
  BY <1>1 DEF FlagsAfter, InExchange, Whole, Halfway, Barriers, Tuned, At, Ending
<1>4. Prog(r)' = State(script, op'[r], "call", step[r], pack[r], first[r], dirty[r], trail[r])
  BY <1>1, <1>3 DEF Prog
<1>5. CASE pc'[r] # "call"
  <2>1. CurCall(r).kind = "prepare"
    BY <1>t, <1>5 DEF RequestInv, PlaceInCall, LeaveBarrier, LeaveAllocBarrier, LeaveShmBarrier, Returns
  <2>2. ~Tuned(r) /\ At(r) = "call"
    BY <1>1, <2>1 DEF Tuned, At, Ending, Barriers, Halfway
  <2>3. Prog(r)' = Prog(r)
    BY <1>1, <1>3, <1>4, <1>5, <2>2 DEF Prog
  <2> QED
    BY <1>2, <2>3 DEF Advances
<1>6. CASE pc'[r] = "call" /\ Tuned(r)
  <2>1. At(r) = "call"
    BY <1>6 DEF Tuned, At, Ending, Halfway
  <2>2. Prog(r)' = Prog(r)
    BY <1>1, <1>3, <1>4, <1>6, <2>1 DEF Prog
  <2> QED
    BY <1>2, <2>2 DEF Advances
<1>7. CASE pc'[r] = "call" /\ ~Tuned(r)
  <2>1. op'[r] = op[r] + 1
    BY <1>1, <1>7
  <2>2. ~ (x.op > Len(x.script))
    BY <1>1, <1>7, NotAtEnd DEF Barriers
  <2>3. /\ x.script = script /\ x.op = op[r] /\ x.at = At(r) /\ x.step = step[r]
        /\ x.pack = pack[r] /\ x.first = first[r] /\ x.dirty = dirty[r] /\ x.trail = trail[r]
    BY <1>3, <1>7, ProgFields
  <2>4. XCall(x) = CurCall(r)
    BY <1>7, ProgOps
  <2>5. NextCall(x, x.first, x.dirty) = Prog(r)'
    <3> HIDE DEF x
    <3> QED
      BY <1>4, <2>1, <2>3 DEF NextCall
  <2>6. CASE CurCall(r).kind = "end" /\ pc[r] = "barrier"
    <3>1. At(r) = "ending"
      BY <2>6 DEF At, Halfway, Ending
    <3>2. Nxt(x) = NextCall(x, x.first, x.dirty)
      BY <2>2, <2>3, <3>1 DEF Nxt
    <3> QED
      BY <1>2, <2>5, <3>2 DEF Advances
  <2>7. CASE ~(CurCall(r).kind = "end" /\ pc[r] = "barrier")
    <3>1. CurCall(r).kind = "prepare"
      BY <1>1, <1>7, <2>7 DEF RequestInv, PlaceInCall, Tuned, Barriers
    <3>2. At(r) = "call"
      BY <1>1, <2>7 DEF At, Halfway, Ending, Barriers
    <3>3. Nxt(x) = AfterCall(x)
      BY <2>2, <2>3, <3>2 DEF Nxt
    <3>4. AfterCall(x) = NextCall(x, x.first, x.dirty)
      BY <2>4, <3>1 DEF AfterCall
    <3> QED
      BY <1>2, <2>5, <3>3, <3>4 DEF Advances
  <2> QED
    BY <2>6, <2>7
<1> QED
  BY <1>5, <1>6, <1>7

LEMMA StepAdvances ==
  ASSUME HaloInv, NEW r \in Rank, RequestInv(r), ExchangeInv(r), RankStep(r)
  PROVE  ExchangeInv(r)' /\ (UniformCalls => Advances(r))
<1>1. CASE BeginRun(r) \/ BeginEnd(r)
  BY <1>1, BeginStep
<1>2. CASE EvalExterior(r) \/ EvalAll(r)
  BY <1>2, EvalStep
<1>3. CASE SkipPack(r)
  BY <1>3, SkipPackStep
<1>4. CASE EvalInterior(r)
  BY <1>4, EvalInteriorStep
<1>5. CASE ExchangeDone(r)
  BY <1>5, ExchangeDoneStep
<1>6. ASSUME NEW v \in Var, NEW s \in Side,
             \/ Irecv(r, v, s) \/ PackIsend(r, v, s) \/ PackShm(r, v, s)
             \/ UnpackMpi(r, v, s) \/ UnpackShm(r, v, s) \/ Final(r, v, s)
      PROVE  ExchangeInv(r)' /\ Advances(r)
  BY <1>6, SendStep, UnpackStep, FinalStep
<1>7. CASE \/ Fill(r) \/ SetSlice(r) \/ SetElems(r) \/ SetPoint(r)
           \/ BeginPrepare(r) \/ \E k \in TuneSteps : Tune(r, k)
  BY <1>7, CallStep
<1>8. CASE LeaveBarrier(r) \/ LeaveAllocBarrier(r) \/ LeaveShmBarrier(r)
  BY <1>8, BarrierStep
<1> QED
  BY <1>1, <1>2, <1>3, <1>4, <1>5, <1>6, <1>7, <1>8 DEF RankStep

-----------------------------------------------------------------------------
(* The other ranks, and the inductive invariant.                           *)

SameExchange(x) ==
  /\ script' = script
  /\ op'[x] = op[x] /\ pc'[x] = pc[x] /\ step'[x] = step[x] /\ pack'[x] = pack[x]
  /\ first'[x] = first[x] /\ dirty'[x] = dirty[x] /\ todo'[x] = todo[x]
  /\ swap'[x] = swap[x] /\ trail'[x] = trail[x]

LEMMA SameExchangeInv ==
  ASSUME NEW x \in Rank, SameExchange(x)
  PROVE  (ExchangeInv(x) => ExchangeInv(x)') /\ Prog(x)' = Prog(x)
<1>1. CurSwap(x)' = CurSwap(x) /\ FlagsAfter(x)' = FlagsAfter(x)
  BY DEF SameExchange, CurSwap, FlagsAfter
<1>2. At(x)' = At(x) /\ (Tuned(x)' <=> Tuned(x))
  BY DEF SameExchange, At, Ending, Tuned, CurCall
<1>3. Prog(x)' = Prog(x)
  BY <1>1, <1>2 DEF SameExchange, Prog
<1>4. HalvesSwap(x) => HalvesSwap(x)'
  BY <1>1 DEF SameExchange, HalvesSwap
<1>5. SwapsInWindow(x) => SwapsInWindow(x)'
  BY <1>1 DEF SameExchange, SwapsInWindow
<1>6. FinalsClean(x) => FinalsClean(x)'
  BY DEF SameExchange, FinalsClean
<1> QED
  BY <1>3, <1>4, <1>5, <1>6 DEF ExchangeInv

LEMMA StepOthersExchange ==
  ASSUME HaloInv, NEW r \in Rank, RankStep(r), NEW x \in Rank, x # r
  PROVE  SameExchange(x)
<1>1. Same(x)
  BY StepOthers
<1>t. DOMAIN swap = Rank /\ DOMAIN trail = Rank
  BY DEF HaloInv, TypeOK
<1>2. swap'[x] = swap[x] /\ trail'[x] = trail[x]
  <2>1. ASSUME UNCHANGED <<swap, trail>>
        PROVE  swap'[x] = swap[x] /\ trail'[x] = trail[x]
    BY <2>1
  <2>2. ASSUME NEW f, NEW d, NEW e, NEW i, NEW n, StartExchange(r, f, d, e, i, n)
        PROVE  swap'[x] = swap[x] /\ trail'[x] = trail[x]
    BY <1>t, <2>2 DEF StartExchange
  <2>3. CASE BeginRun(r) \/ BeginEnd(r) \/ EvalExterior(r) \/ EvalInterior(r) \/ EvalAll(r)
    BY <2>2, <2>3 DEF BeginRun, BeginEnd, EvalExterior, EvalInterior, EvalAll
  <2>4. CASE ExchangeDone(r)
    BY <1>t, <2>4 DEF ExchangeDone
  <2>5. ASSUME NEW v \in Var, NEW s \in Side,
               \/ Irecv(r, v, s) \/ PackIsend(r, v, s) \/ PackShm(r, v, s)
               \/ UnpackMpi(r, v, s) \/ UnpackShm(r, v, s) \/ Final(r, v, s)
        PROVE  UNCHANGED <<swap, trail>>
    BY <2>5 DEF Irecv, PackIsend, PackShm, UnpackMpi, UnpackShm, Final, calc
  <2>6. CASE \/ SkipPack(r) \/ Fill(r) \/ SetSlice(r) \/ SetElems(r) \/ SetPoint(r)
             \/ BeginPrepare(r) \/ LeaveBarrier(r) \/ LeaveAllocBarrier(r) \/ LeaveShmBarrier(r)
             \/ \E k \in TuneSteps : Tune(r, k)
    <3>1. UNCHANGED <<swap, trail>>
      BY <2>6 DEF SkipPack, Fill, SetSlice, SetElems, SetPoint, BeginPrepare, LeaveBarrier,
                  LeaveAllocBarrier, LeaveShmBarrier, Tune
    <3> QED
      BY <2>1, <3>1
  <2> QED
    BY <2>1, <2>3, <2>4, <2>5, <2>6 DEF RankStep
<1> QED
  BY <1>1, <1>2 DEF Same, SameExchange

(* Of any two ranks one is where the other will come to.                   *)
Together == \A r, q \in Rank : Reach(Prog(r), Prog(q)) \/ Reach(Prog(q), Prog(r))

AgreementInv ==
  /\ RequestsInv
  /\ \A r \in Rank : ExchangeInv(r)
  /\ UniformCalls => Together

LEMMA TogetherKept ==
  ASSUME NEW x \in Rank, Advances(x), \A y \in Rank : y # x => Prog(y)' = Prog(y), Together
  PROVE  Together'
<1> SUFFICES ASSUME NEW r \in Rank, NEW q \in Rank
             PROVE  Reach(Prog(r)', Prog(q)') \/ Reach(Prog(q)', Prog(r)')
  BY DEF Together, Reach
<1>1. ASSUME NEW y \in Rank, y # x
      PROVE  Reach(Prog(x)', Prog(y)) \/ Reach(Prog(y), Prog(x)')
  <2> DEFINE a == Prog(x)
             b == Prog(y)
  <2>1. Reach(a, b) \/ Reach(b, a)
    BY DEF Together
  <2>2. Prog(x)' = a \/ Prog(x)' = Nxt(a)
    BY DEF Advances
  <2> HIDE DEF a, b
  <2>3. CASE Reach(a, b)
    <3>1. b = a \/ Reach(Nxt(a), b)
      BY <2>3, ReachFirst
    <3>2. Reach(a, Nxt(a))
      BY ReachSelf, ReachStep
    <3> QED
      BY <2>1, <2>2, <3>1, <3>2 DEF b
  <2>4. CASE Reach(b, a)
    <3>1. Reach(b, Nxt(a))
      BY <2>4, ReachStep
    <3> QED
      BY <2>2, <2>4, <3>1 DEF b
  <2> QED
    BY <2>1, <2>3, <2>4
<1>2. CASE r = x /\ q = x
  BY <1>2, ReachSelf
<1>3. CASE r = x /\ q # x
  BY <1>1, <1>3
<1>4. CASE r # x /\ q = x
  BY <1>1, <1>4
<1>5. CASE r # x /\ q # x
  BY <1>5 DEF Together
<1> QED
  BY <1>2, <1>3, <1>4, <1>5

LEMMA InitAgreement == Init => AgreementInv
<1> SUFFICES ASSUME Init
             PROVE  AgreementInv
  OBVIOUS
<1>1. RequestsInv
  BY InitRequests
<1>2. ASSUME NEW r \in Rank
      PROVE  ExchangeInv(r)
  BY DEF Init, ExchangeInv, HalvesSwap, SwapsInWindow, FinalsClean, InExchange, Whole, Halfway
<1>3. Together
  <2>1. ASSUME NEW r \in Rank
        PROVE  Prog(r) = State(script, 1, "call", 0, 1, [v \in Var |-> 0],
                               [v \in Var |-> [n \in Slot |-> TRUE]], <<>>)
    <3>1. pc[r] = "call" /\ ~Tuned(r)
      BY DEF Init, Tuned
    <3>2. At(r) = "call" /\ FlagsAfter(r) = dirty[r]
      BY <3>1 DEF At, Ending, FlagsAfter, InExchange, Whole, Halfway
    <3> QED
      BY <3>1, <3>2 DEF Init, Prog
  <2>2. \A r, q \in Rank : Prog(r) = Prog(q)
    BY <2>1
  <2> QED
    BY <2>2, ReachSelf DEF Together
<1> QED
  BY <1>1, <1>2, <1>3 DEF AgreementInv

LEMMA NextAgreement == AgreementInv /\ [Next]_vars => AgreementInv'
<1> SUFFICES ASSUME AgreementInv, [Next]_vars
             PROVE  AgreementInv'
  OBVIOUS
<1>1. RequestsInv' /\ HaloInv
  BY NextRequests DEF AgreementInv, RequestsInv
<1>2. ASSUME NEW r \in Rank, RankStep(r)
      PROVE  AgreementInv'
  <2>1. ExchangeInv(r)' /\ (UniformCalls => Advances(r))
    BY <1>1, <1>2, StepAdvances DEF AgreementInv, RequestsInv
  <2>2. ASSUME NEW x \in Rank, x # r
        PROVE  SameExchange(x) /\ ExchangeInv(x)' /\ Prog(x)' = Prog(x)
    BY <1>1, <1>2, <2>2, StepOthersExchange, SameExchangeInv DEF AgreementInv
  <2>3. script' = script
    <3>1. \E y \in Rank : y # r
      <4>1. 0 \in Rank /\ 1 \in Rank
        BY HaloAssumption DEF Rank
      <4> QED
        BY <4>1
    <3> QED
      BY <2>2, <3>1 DEF SameExchange
  <2>4. UniformCalls' => Together'
    <3> SUFFICES ASSUME UniformCalls'
                 PROVE  Together'
      OBVIOUS
    <3>1. UniformCalls
      BY <2>3 DEF UniformCalls
    <3> QED
      BY <2>1, <2>2, <3>1, TogetherKept DEF AgreementInv
  <2> QED
    BY <1>1, <2>1, <2>2, <2>4 DEF AgreementInv
<1>3. ASSUME UNCHANGED <<calc, meta, swap, todo>>
      PROVE  AgreementInv'
  <2>1. \A x \in Rank : SameExchange(x)
    BY <1>3 DEF SameExchange, calc, meta
  <2>2. \A x \in Rank : ExchangeInv(x)' /\ Prog(x)' = Prog(x)
    BY <2>1, SameExchangeInv DEF AgreementInv
  <2>3. UniformCalls' => Together'
    <3>1. UniformCalls' <=> UniformCalls
      BY <1>3 DEF UniformCalls, calc
    <3>2. Together => Together'
      BY <2>2 DEF Together, Reach
    <3> QED
      BY <3>1, <3>2 DEF AgreementInv
  <2> QED
    BY <1>1, <2>2, <2>3 DEF AgreementInv
<1> QED
  BY <1>2, <1>3, ZenonT(60) DEF Next, Poke, Deliver, Eager, vars

LEMMA AgreementAlways == Spec => []AgreementInv
BY InitAgreement, NextAgreement, PTL DEF Spec

(* Two ranks at the same place of the program are in the same state of it. *)
LEMMA SameProg ==
  ASSUME AgreementInv, UniformCalls, NEW r \in Rank, NEW q \in Rank,
         Prog(r) \in ProgState, Prog(q) \in ProgState,
         ~Later(Prog(r), Prog(q)), ~Later(Prog(q), Prog(r))
  PROVE  Prog(r) = Prog(q)
BY ReachBetween DEF AgreementInv, Together, Between

LEMMA ProgType ==
  ASSUME HaloInv, NEW r \in Rank
  PROVE  Prog(r) \in ProgState
<1>1. /\ script \in Scripts /\ op[r] \in Nat \ {0} /\ step[r] \in Int /\ pack[r] \in Pack
      /\ first[r] \in [Var -> Int] /\ dirty[r] \in [Var -> [Slot -> BOOLEAN]]
      /\ trail[r] \in Seq(ExchangeRecord)
  BY DEF HaloInv, TypeOK
<1>2. At(r) \in Places
  BY DEF At, Places
<1>3. FlagsAfter(r) \in [Var -> [Slot -> BOOLEAN]]
  BY <1>1, CleanType DEF FlagsAfter
<1>4. (IF Tuned(r) THEN op[r] + 1 ELSE op[r]) \in Nat \ {0}
  BY <1>1
<1> QED
  BY <1>1, <1>2, <1>3, <1>4 DEF Prog, State, ProgState

(* All ranks have the same information about which vars are possibly dirty *)
(* (context.cpp:403-405): at the same point of the program any two ranks   *)
(* would swap the same vars and steps, whatever each has unpacked so far.  *)
(* The exceptions are the calls that only one rank answers.                *)
THEOREM RanksAgree == Spec => [](UniformCalls => DirtyAgreement)
<1>1. ASSUME AgreementInv, UniformCalls
      PROVE  DirtyAgreement
  <2> SUFFICES ASSUME NEW r \in Rank, NEW q \in Rank, SamePlace(r, q)
               PROVE  SwapOf(r, first[r], dirty[r]) = SwapOf(q, first[q], dirty[q])
    BY DEF DirtyAgreement
  <2>1. HaloInv
    BY <1>1 DEF AgreementInv, RequestsInv
  <2>2. ASSUME NEW x \in {r, q}
        PROVE  /\ ~Tuned(x) /\ FlagsAfter(x) = dirty[x] /\ At(x) = pc[x]
               /\ pc[x] \in {"call", "packs"}
    BY <2>2 DEF SamePlace, Tuned, FlagsAfter, InExchange, Whole, Halfway, At, Ending
  <2> DEFINE a == Prog(r)
             b == Prog(q)
  <2>3. a \in ProgState /\ b \in ProgState
    BY <2>1, ProgType
  <2>4. a.op = op[r] /\ b.op = op[q] /\ a.at = pc[r] /\ b.at = pc[q]
    BY <2>2, ProgFields
  <2>5. /\ a.step = step[r] /\ a.pack = pack[r] /\ a.first = first[r] /\ a.dirty = dirty[r]
        /\ b.step = step[q] /\ b.pack = pack[q] /\ b.first = first[q] /\ b.dirty = dirty[q]
    BY <2>2, ProgFields
  <2>6. op[r] \in Int /\ op[q] \in Int /\ pack[r] \in Int /\ pack[q] \in Int
    BY <2>1, HaloAssumption DEF HaloInv, TypeOK, Pack
  <2>7. StepDir * step[r] \in Int
    <3>1. step[r] \in Int
      BY <2>1 DEF HaloInv, TypeOK
    <3>2. CASE StepDir = 1
      BY <3>1, <3>2
    <3>3. CASE StepDir = -1
      BY <3>1, <3>3
    <3> QED
      BY <3>2, <3>3, HaloAssumption
  <2> HIDE DEF a, b
  <2>8. Stage(a) = Stage(b) /\ Stage(a) \in {0, 2} /\ (Stage(a) = 2 => pc[r] = "packs")
    BY <2>2, <2>4 DEF SamePlace, Stage
  <2>9. ~Later(a, b) /\ ~Later(b, a)
    BY <2>4, <2>5, <2>6, <2>7, <2>8 DEF SamePlace, Later
  <2>10. a = b
    BY <1>1, <2>3, <2>9, SameProg DEF a, b
  <2>11. first[r] = first[q] /\ dirty[r] = dirty[q]
    BY <2>5, <2>10
  <2> QED
    BY <2>11, SwapOfAll
<1> QED
  BY <1>1, AgreementAlways, PTL
=============================================================================
