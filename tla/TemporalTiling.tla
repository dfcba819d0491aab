--------------------------- MODULE TemporalTiling ---------------------------
(***************************************************************************)
(* How one rank evaluates one stride of run_solution()'s step loop with    *)
(* wave-front rank tiling and temporal blocking: sections one after the    *)
(* other, regions in increasing order, layers and phases inside a region,  *)
(* and all blocks of a phase at once, each by a thread of its own that     *)
(* walks through its shapes, mini-blocks, steps and packs.                 *)
(*                                                                         *)
(* The valid (step, pack) pairs of the stride are numbered from 0; pair n  *)
(* takes a point from level n to level n + 1.  Halo points that a          *)
(* neighbour owns stay at level 0: the exchange before the stride filled   *)
(* them.  Points beyond the edge of the whole problem are never computed   *)
(* and may be read at any time.                                            *)
(***************************************************************************)
EXTENDS TilingGeometry

CONSTANT Settings   \* the settings of the ranks to look at

(* The settings of a rank of "dims" dimensions: tile sizes of 0 are unset, *)
(* and valid[i] of the packs have a step condition that holds in step i of *)
(* the stride; some pack has to be valid, or there is nothing to evaluate. *)
(* A stride has no more steps than the wave front, or one if there is none.*)
RankSettings(dims) ==
  [rank : [1..dims -> Nat \ {0}], fold : [1..dims -> Nat \ {0}],
   region : [1..dims -> Nat], block : [1..dims -> Nat], mini_block : [1..dims -> Nat],
   max_halo : [1..dims -> Nat], region_steps : Nat, block_steps : Nat,
   packs : Nat \ {0}, valid : Seq(Nat), left : [1..dims -> BOOLEAN],
   right : [1..dims -> BOOLEAN], overlap : BOOLEAN, min_exterior : Nat]

ASSUME SettingsAssumption ==
  \A s \in Settings : /\ s.rank \in Seq(Nat \ {0}) /\ s \in RankSettings(Len(s.rank))
                      /\ \A i \in DOMAIN s.valid : s.valid[i] <= s.packs
                      /\ TupleSum(s.valid) > 0
                      /\ Len(s.valid) <= Max({1, s.region_steps, s.block_steps})

VARIABLES
  ctx,       \* the context prepare_solution() has built
  section,   \* the section being evaluated, Len(Sections) + 1 when all are done
  region,    \* the region in the rank loop
  layer,     \* the iteration of calc_region()'s time and pack loops
  phase,     \* the tesselation phase
  todo,      \* todo[b]: what the thread of block b has still to evaluate
  level      \* level[p]: the evaluations point p has seen

vars == <<ctx, section, region, layer, phase, todo, level>>

-----------------------------------------------------------------------------
(* The points of the rank, its extensions and its neighbours' halos.       *)

BoxPoints(box) ==
  {p \in [DOMAIN box -> UNION {box[j].lo..(box[j].hi - 1) : j \in DOMAIN box}] :
     InBox(p, box)}

Stored(c) ==
  [j \in Dims(c) |->
     [lo |-> c.ext_bb[j].lo - IF c.left[j] THEN c.max_halo[j] ELSE 0,
      hi |-> c.ext_bb[j].hi + IF c.right[j] THEN c.max_halo[j] ELSE 0]]

Around(c, box) ==
  [j \in Dims(c) |-> [lo |-> box[j].lo - c.max_halo[j], hi |-> box[j].hi + c.max_halo[j]]]

Reads(c) ==
  [p \in BoxPoints(c.ext_bb) |->
     BoxPoints([j \in Dims(c) |->
                 Cap(Around(c, [i \in Dims(c) |-> [lo |-> p[i], hi |-> p[i] + 1]])[j],
                     Stored(c)[j])])]

-----------------------------------------------------------------------------
(* The loops above a block.                                                *)

(* With overlapped communication every side is evaluated before the        *)
(* interior, dimension by dimension and left before right.                 *)
Exterior(c) ==
  {side \in [part : {"left", "right"}, dim : Dims(c)] :
     DoesExteriorExist(c, side.dim, side.part = "left")}
SideBefore(s, t) ==
  s.dim < t.dim \/ (s.dim = t.dim /\ s.part = "left" /\ t.part = "right")
Sections(c) ==
  IF ~c.overlap THEN <<[part |-> "whole", dim |-> 0]>>
  ELSE LET sides == Exterior(c)
       IN Append(Listed(sides, {st \in sides \X sides : SideBefore(st[1], st[2])}),
                 [part |-> "interior", dim |-> 0])

\* Mutant: the last rank's scan ends with its domain.
RegionsMutant(c) ==
  LET box == c.ext_bb IN InOrder(Tiles(box, StrideIn(box, c.region, c.rank)))

(* The right-most rank's scan is lengthened so that shifted regions still  *)
(* reach its end.                                                          *)
Regions(c) ==
  LET box == [j \in Dims(c) |->
                [c.ext_bb[j] EXCEPT !.hi =
                   @ + IF c.wf_steps > 0 /\ c.right_wf_exts[j] = 0
                         THEN c.wf_shift_pts[j] ELSE 0]]
  IN InOrder(Tiles(box, StrideIn(box, c.region, c.rank)))

(* Layers(c)[i]: how many levels layer i of a region evaluates.  Without   *)
(* wave fronts the stride is one pack; without temporal blocking a layer   *)
(* is one pack; else it is every valid pack of tb_steps steps.             *)
Layers(c) ==
  LET T == Len(c.valid)
      chunk(i) == SubSeq(c.valid, (i-1) * c.tb_steps + 1, Min({i * c.tb_steps, T}))
  IN CASE c.wf_steps = 0 -> <<1>>
       [] c.wf_steps > 0 /\ c.tb_steps = 0 ->
            [i \in 1..TupleSum(c.valid) |-> 1]
       [] OTHER -> [i \in 1..CeilDiv(T, c.tb_steps) |-> TupleSum(chunk(i))]

NumLevels(c) == TupleSum(Layers(c))
\* Mutant: one shift per layer, however many packs and steps it has.
RegionShiftNumMutant(c, i) == i - 1
RegionShiftNum(c, i) == TupleSum(SubSeq(Layers(c), 1, i - 1))
NumPhases(c) == IF c.tb_steps = 0 THEN 1 ELSE Len(c.rank) + 1

(* What calc_region() scans for blocks: trimmed to the rank and section    *)
(* only without temporal blocking.                                         *)
RegionBase(c, sec, rgn, shift) ==
  IF c.tb_steps = 0 THEN ShiftRegion(c, sec, rgn, shift) ELSE Shifted(c, rgn, shift)

Blocks(c, base) ==
  IF NonEmpty(base) THEN Tiles(base, StrideIn(base, c.block, c.region)) ELSE {}

-----------------------------------------------------------------------------
(* Inside a block: calc_block() and calc_mini_block().                     *)

(* The sets of dimensions bridged in a phase, in order of combination().   *)
ShapeBefore(A, B) == \E x \in A \ B : \A y \in B \ A : x < y
Shapes(c, ph) ==
  LET shapes == kSubset(ph, Dims(c))
  IN Listed(shapes, {AB \in shapes \X shapes : ShapeBefore(AB[1], AB[2])})

(* Temporal shapes reach to the right, up to the next block.               *)
AdjBlock(c, blk) ==
  IF c.tb_steps = 0 THEN blk
  ELSE [j \in Dims(c) |-> [blk[j] EXCEPT !.hi = @ + (@ - blk[j].lo)]]

MiniBlocks(c, blk) ==
  LET adj == AdjBlock(c, blk)
  IN InOrder(Tiles(adj, IF c.tb_steps = 0 THEN c.mini_block
                        ELSE StrideIn(adj, c.mini_block, c.block)))

(* Those of a sequence of evaluations that have a point to evaluate.       *)
Pending(evals) ==
  LET first[n \in 0..Len(evals)] ==
        IF n = 0 THEN <<>>
        ELSE IF NonEmpty(evals[n].box) THEN Append(first[n-1], evals[n])
        ELSE first[n-1]
  IN first[Len(evals)]

(* What the thread of block "blk" evaluates of a shape and a mini-block    *)
(* after n shifts.                                                         *)
Evaluation(c, sec, rgn, base, shift, blk, bridged, mb, n) ==
  LET box == ShiftRegion(c, sec, rgn, shift + n)
  IN [level |-> shift + n,
      box |-> IF NonEmpty(box)
                THEN ShiftMiniBlock(c, mb, AdjBlock(c, blk), blk, base, n,
                                    NumPhases(c), bridged, box)
                ELSE box]

(* The evaluations of block "blk" in one phase, in the order its thread    *)
(* makes them; those with nothing to do are left out.                      *)
Evaluations(c, sec, rgn, base, shift, nlevels, ph, blk) ==
  LET mbs == MiniBlocks(c, blk)
      shapes == Shapes(c, ph)
      steps(bridged, mb) ==
        [n \in 1..nlevels |-> Evaluation(c, sec, rgn, base, shift, blk, bridged, mb, n - 1)]
      scan(bridged) == FlattenSeq([k \in 1..Len(mbs) |-> steps(bridged, mbs[k])])
  IN Pending(FlattenSeq([k \in 1..Len(shapes) |-> scan(shapes[k])]))

Work(c, s, r, l, ph) ==
  LET sec == Sections(c)[s]
      rgn == Regions(c)[r]
      shift == RegionShiftNum(c, l)
      base == RegionBase(c, sec, rgn, shift)
  IN [blk \in Blocks(c, base) |->
        Evaluations(c, sec, rgn, base, shift, Layers(c)[l], ph, blk)]

-----------------------------------------------------------------------------
Context(s) == LET c == PrepareSolution(s) IN Extend(c, [reads |-> Reads(c)])

Init ==
  /\ ctx \in {Context(s) : s \in Settings}
  /\ LargeEnough(ctx)
  /\ section = 1 /\ region = 1 /\ layer = 1 /\ phase = 0
  /\ todo = Work(ctx, 1, 1, 1, 0)
  /\ level = [p \in BoxPoints(Stored(ctx)) |-> 0]

(* The thread of block "b" evaluates its next box.                         *)
CalcMiniBlock(b) ==
  /\ todo[b] # <<>>
  /\ LET e == Head(todo[b])
     IN level' = [p \in DOMAIN level |->
                    IF InBox(p, e.box) THEN e.level + 1 ELSE level[p]]
  /\ todo' = [todo EXCEPT ![b] = Tail(@)]
  /\ UNCHANGED <<ctx, section, region, layer, phase>>

(* The barrier at the end of the parallel loop over the blocks.            *)
ThreadsSynced == \A b \in DOMAIN todo : todo[b] = <<>>

Start(s, r, l, ph) ==
  /\ section' = s /\ region' = r /\ layer' = l /\ phase' = ph
  /\ todo' = Work(ctx, s, r, l, ph)
  /\ UNCHANGED <<ctx, level>>

Done == section > Len(Sections(ctx))
LastPhase == phase + 1 = NumPhases(ctx)
LastLayer == layer = Len(Layers(ctx))
LastRegion == region = Len(Regions(ctx))

NextPhase ==
  /\ ~Done /\ ThreadsSynced /\ ~LastPhase
  /\ Start(section, region, layer, phase + 1)

NextLayer ==
  /\ ~Done /\ ThreadsSynced /\ LastPhase /\ ~LastLayer
  /\ Start(section, region, layer + 1, 0)

NextRegion ==
  /\ ~Done /\ ThreadsSynced /\ LastPhase /\ LastLayer /\ ~LastRegion
  /\ Start(section, region + 1, 1, 0)

NextSection ==
  /\ ~Done /\ ThreadsSynced /\ LastPhase /\ LastLayer /\ LastRegion
  /\ IF section < Len(Sections(ctx))
       THEN Start(section + 1, 1, 1, 0)
       ELSE /\ section' = section + 1
            /\ UNCHANGED <<ctx, region, layer, phase, todo, level>>

Returned == Done /\ UNCHANGED vars

Next ==
  \/ \E b \in DOMAIN todo : CalcMiniBlock(b)
  \/ NextPhase
  \/ NextLayer
  \/ NextRegion
  \/ NextSection
  \/ Returned

Spec == Init /\ [][Next]_vars

-----------------------------------------------------------------------------
(* Type correctness of the loop counters, the work and the levels.         *)
TypeOK ==
  /\ section \in 1..(Len(Sections(ctx)) + 1)
  /\ region \in 1..Len(Regions(ctx))
  /\ layer \in 1..Len(Layers(ctx))
  /\ phase \in 0..(NumPhases(ctx) - 1)
  /\ level \in [BoxPoints(Stored(ctx)) -> 0..NumLevels(ctx)]
  /\ \A b \in DOMAIN todo : \A i \in DOMAIN todo[b] :
       /\ todo[b][i].level \in 0..(NumLevels(ctx) - 1)
       /\ \A j \in Dims(ctx) : /\ todo[b][i].box[j].lo >= ctx.ext_bb[j].lo
                               /\ todo[b][i].box[j].hi <= ctx.ext_bb[j].hi

(* What calc_region() relies on when it evaluates all blocks of a phase    *)
(* concurrently: no pending box of one block is the same point or within   *)
(* the halo of a pending box of another block at another level.            *)
BlocksIndependent ==
  \A b, c \in DOMAIN todo : b # c =>
    \A i \in DOMAIN todo[b], k \in DOMAIN todo[c] :
      LET e == todo[b][i]
          f == todo[c][k]
          zone == IF e.level = f.level THEN e.box ELSE Around(ctx, e.box)
      IN ~NonEmpty([j \in Dims(ctx) |-> Cap(zone[j], f.box[j])])

(* The settings for which the last block of a region is wide enough when   *)
(* it is a remainder: temporal blocks of more than two levels need it to   *)
(* be at most an angle wide, or at least as wide as the bridges to its     *)
(* left reach.  MCNarrowRemainder shows why.                               *)
WideRemainders(c) ==
  LET num_tb_shifts == c.packs * c.tb_steps - 1
  IN \A j \in Dims(c), i \in DOMAIN Regions(c) :
       LET rgn == Regions(c)[i][j]
           remainder == (rgn.hi - rgn.lo) % c.block[j]
       IN c.tb_angles[j] > 0 /\ num_tb_shifts > 1 =>
            \/ remainder <= c.tb_angles[j]
            \/ remainder >= (2 * num_tb_shifts - 1) * c.tb_angles[j] + c.max_halo[j]

(* Every point gets its levels in turn: the box a thread is about to       *)
(* evaluate for level n holds only points that have had exactly n, so no   *)
(* tile skips a level and none evaluates one twice.                        *)
EvaluatedInTurn ==
  \A b \in DOMAIN todo : todo[b] # <<>> =>
    \A p \in DOMAIN level :
      InBox(p, Head(todo[b]).box) => level[p] = Head(todo[b]).level

(* When the exterior is done and the halos go out, every point of the      *)
(* slabs that are packed has its final value.                              *)
SlabsFinalBeforeSend ==
  ~Done /\ Sections(ctx)[section].part = "interior" =>
    \A p \in BoxPoints([j \in Dims(ctx) |-> [lo |-> 0, hi |-> ctx.rank[j]]]) :
      (\E j \in Dims(ctx) :
         LET width == ctx.max_halo[j] + ctx.wf_shift_pts[j]
         IN \/ ctx.left[j] /\ p[j] < width
            \/ ctx.right[j] /\ p[j] >= ctx.rank[j] - width)
      => level[p] = NumLevels(ctx)

(* At the end of the stride every point of the rank has had all its levels.*)
WholeRankDone ==
  Done => \A p \in BoxPoints([j \in Dims(ctx) |-> [lo |-> 0, hi |-> ctx.rank[j]]]) :
            level[p] = NumLevels(ctx)

(* Tiling is an order of evaluation that the plain loop's results allow:   *)
(* a point is evaluated only while every point it reads holds the value    *)
(* it needs.                                                               *)
Order == INSTANCE StencilOrder WITH reads <- ctx.reads
RespectsOrder == Order!Spec
=============================================================================
