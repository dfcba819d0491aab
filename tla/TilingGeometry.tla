--------------------------- MODULE TilingGeometry ---------------------------
(***************************************************************************)
(* The shapes that temporal tiling evaluates: how the settings of a rank   *)
(* become angles, extensions and trapezoid widths, and which box of points *)
(* a region, block, phase and mini-block cover after a number of shifts.   *)
(*                                                                         *)
(* A span is a half-open range [lo, hi) of one domain dimension, a box is  *)
(* a tuple of spans, and "c" is a context: the settings of one rank with   *)
(* everything prepare_solution() derives from them.  The rank's own domain *)
(* is [0, rank) in every dimension.  A cluster is one vector ("fold"), and *)
(* every bundle's sub-domain is the whole domain.                          *)
(***************************************************************************)
EXTENDS Tuples

Dims(c) == DOMAIN c.rank

RoundUp(n, m)   == ((n + m - 1) \div m) * m
RoundDown(n, m) == (n \div m) * m
CeilDiv(n, m)   == (n + m - 1) \div m

Cap(a, b) == [lo |-> Max({a.lo, b.lo}), hi |-> Min({a.hi, b.hi})]
NonEmpty(box) == \A j \in DOMAIN box : box[j].lo < box[j].hi
InBox(p, box) == \A j \in DOMAIN box : box[j].lo <= p[j] /\ p[j] < box[j].hi

\* A context with more fields.
Extend(c, fields) ==
  [x \in DOMAIN c \cup DOMAIN fields |-> IF x \in DOMAIN c THEN c[x] ELSE fields[x]]

-----------------------------------------------------------------------------
(* From settings to a context.                                             *)

(* An unset inner size is the outer one; sizes are rounded up to clusters. *)
FitSizes(inner, outer, mult) ==
  [j \in DOMAIN inner |->
     RoundUp(IF inner[j] = 0 THEN outer[j] ELSE inner[j], mult[j])]

AdjustSettings(s) ==
  LET region == FitSizes(s.region, s.rank, s.fold)
      block  == FitSizes(s.block, region, s.fold)
      mini   == FitSizes(s.mini_block, block, s.fold)
  IN [s EXCEPT !.region = region, !.block = block, !.mini_block = mini,
               !.region_steps = IF @ = 0 THEN s.block_steps ELSE @]

Angle(s, j) == RoundUp(s.max_halo[j], s.fold[j])

(* Wave-front steps, angles and extensions.                                *)
UpdateVarInfo(s) ==
  LET wf_steps      == Max({s.region_steps, s.block_steps})
      num_wf_shifts == IF wf_steps > 0 THEN s.packs * wf_steps - 1 ELSE 0
      wf_angles == [j \in Dims(s) |->
                      IF s.region[j] < s.rank[j] \/ s.left[j] \/ s.right[j]
                        THEN Angle(s, j) ELSE 0]
      wf_shift_pts == [j \in Dims(s) |-> wf_angles[j] * num_wf_shifts]
  IN Extend(s,
      [wf_steps |-> wf_steps, wf_angles |-> wf_angles,
           wf_shift_pts |-> wf_shift_pts,
           left_wf_exts  |-> [j \in Dims(s) |->
                                IF s.left[j] THEN wf_shift_pts[j] ELSE 0],
           right_wf_exts |-> [j \in Dims(s) |->
                                IF s.right[j] THEN wf_shift_pts[j] ELSE 0]])

(* A rank with neighbours in a dimension must be wide enough for its halo  *)
(* and its shifts; prepare_solution() throws otherwise.                    *)
LargeEnough(c) ==
  \A j \in Dims(c) :
    c.left[j] \/ c.right[j] => c.rank[j] >= c.max_halo[j] + c.wf_shift_pts[j]

(* Temporal-block steps, angles and the widths of the phase-0 trapezoids.  *)
(* The steps are cut to what the block size has room for.                  *)
MaxTbSteps(c, j) ==
  (c.block[j] - c.fold[j] + Angle(c, j) * 2) \div (Angle(c, j) * 2 * c.packs)

\* Mutant: the base of the trapezoid without its two slopes.
TbWidthMutant(blk_sz, fpts, sa) == RoundUp(CeilDiv(blk_sz, 2), fpts)

TbWidth(blk_sz, fpts, sa) ==
  Max({RoundUp(CeilDiv(blk_sz, 2) + sa, fpts), fpts + 2 * sa})

UpdateTbInfo(c) ==
  LET requested == c.block_steps
      tb_angles == [j \in Dims(c) |->
                      IF requested > 0 /\ c.block[j] < c.region[j]
                        THEN Angle(c, j) ELSE 0]
      mb_angles == [j \in Dims(c) |->
                      IF requested > 0 /\ c.mini_block[j] < c.block[j]
                        THEN Angle(c, j) ELSE 0]
      tb_steps  == Min({requested, c.wf_steps} \cup
                       {MaxTbSteps(c, j) : j \in {i \in Dims(c) : tb_angles[i] > 0}})
      num_tb_shifts == IF tb_steps > 0 THEN c.packs * tb_steps - 1 ELSE 0
      width(j) == IF num_tb_shifts > 0 /\ tb_angles[j] > 0
                    THEN TbWidth(c.block[j], c.fold[j], num_tb_shifts * tb_angles[j])
                    ELSE c.block[j]
  IN Extend(c,
      [tb_steps |-> tb_steps, tb_angles |-> tb_angles,
           mb_angles |-> mb_angles,
           tb_widths |-> [j \in Dims(c) |-> width(j)]])

(* Bounding boxes: the rank extended for the wave front, and the interior  *)
(* that does not have to be finished before the halos are sent.            *)
\* Mutant: the exterior covers the halo but not the wave-front extension.
ExteriorWidthMutant(c, j) == Max({c.min_exterior, c.max_halo[j]})

ExteriorWidth(c, j) == Max({c.min_exterior, c.max_halo[j] + c.wf_shift_pts[j]})

FindBoundingBoxes(c) ==
  LET ext_bb == [j \in Dims(c) |-> [lo |-> 0 - c.left_wf_exts[j],
                                    hi |-> c.rank[j] + c.right_wf_exts[j]]]
      width(j) == ExteriorWidth(c, j)
      interior(j) ==
        Cap(ext_bb[j],
            [lo |-> IF c.left[j] THEN RoundUp(width(j), c.fold[j]) ELSE ext_bb[j].lo,
             hi |-> IF c.right[j] THEN RoundDown(c.rank[j] - width(j), c.fold[j])
                                  ELSE ext_bb[j].hi])
  IN Extend(c,
      [ext_bb |-> ext_bb,
           mpi_interior |-> IF c.overlap THEN [j \in Dims(c) |-> interior(j)]
                                         ELSE ext_bb])

PrepareSolution(s) ==
  FindBoundingBoxes(UpdateTbInfo(UpdateVarInfo(AdjustSettings(s))))

DoesExteriorExist(c, j, is_left) ==
  IF is_left THEN c.mpi_interior[j].lo > c.ext_bb[j].lo
             ELSE c.mpi_interior[j].hi < c.ext_bb[j].hi

-----------------------------------------------------------------------------
(* The region after "n" shifts.  A section "sec" is the part of the rank   *)
(* that is being evaluated: the whole, one exterior slab, or the interior. *)

Shifted(c, base, n) ==
  [j \in Dims(c) |-> [lo |-> base[j].lo - c.wf_angles[j] * n,
                      hi |-> base[j].hi - c.wf_angles[j] * n]]

\* Mutant: extensions are not narrowed.
TrimToRankNoSlope(c, n, box) == [j \in Dims(c) |-> Cap(box[j], c.ext_bb[j])]

(* In an extension the wave front loses an angle at every shift.           *)
TrimToRank(c, n, box) ==
  LET trim(j) ==
        LET s  == Cap(box[j], c.ext_bb[j])
            in == c.wf_angles[j] * n
        IN [lo |-> IF s.lo < 0 /\ c.left_wf_exts[j] > 0
                     THEN Max({s.lo, in - c.left_wf_exts[j]}) ELSE s.lo,
            hi |-> IF s.hi > c.rank[j] /\ c.right_wf_exts[j] > 0
                     THEN Min({s.hi, c.rank[j] + c.right_wf_exts[j] - in}) ELSE s.hi]
  IN [j \in Dims(c) |-> trim(j)]

(* The exterior slabs are trapezoids that narrow as the interior widens.   *)
InteriorSpan(c, n, j) ==
  LET widen == IF c.wf_steps > 0 THEN c.wf_shift_pts[j] - c.wf_angles[j] * n ELSE 0
  IN [lo |-> c.mpi_interior[j].lo + IF DoesExteriorExist(c, j, TRUE) THEN widen ELSE 0,
      hi |-> c.mpi_interior[j].hi - IF DoesExteriorExist(c, j, FALSE) THEN widen ELSE 0]

TrimToSection(c, n, sec, box) ==
  LET trim(j) ==
        LET s == box[j]
            int == InteriorSpan(c, n, j)
        IN CASE sec.part = "whole" -> s
             [] sec.part = "interior" \/ j < sec.dim -> Cap(s, int)
             [] sec.part = "left" /\ j = sec.dim ->
                  [s EXCEPT !.hi = Min({@, int.lo})]
             [] sec.part = "right" /\ j = sec.dim ->
                  [s EXCEPT !.lo = Max({@, int.hi, int.lo})]
             [] OTHER -> s
  IN [j \in Dims(c) |-> trim(j)]

ShiftRegion(c, sec, base, n) ==
  TrimToSection(c, n, sec, TrimToRank(c, n, Shifted(c, base, n)))

-----------------------------------------------------------------------------
(* The mini-block after "n" shifts, in the shape that bridges the          *)
(* dimensions "bridged"; "box" is the shifted and trimmed region.          *)

Shape(c, blk, region, n, nphases, bridged, box, j) ==
  LET is_first_blk == blk[j].lo <= region[j].lo
      is_last_blk  == blk[j].hi >= region[j].hi
      is_one_blk   == is_first_blk /\ is_last_blk
      shift    == c.tb_angles[j] * n
      base_hi  == IF nphases > 1 /\ ~is_one_blk
                    THEN Min({blk[j].lo + c.tb_widths[j], blk[j].hi}) ELSE blk[j].hi
      blk_start == IF is_first_blk THEN box[j].lo ELSE blk[j].lo + shift
      blk_stop  == IF (nphases = 1 \/ is_one_blk) /\ is_last_blk
                     THEN box[j].hi ELSE base_hi - shift
      next_blk_start == IF is_last_blk THEN box[j].hi ELSE blk[j].hi + shift
  IN IF j \in bridged
       THEN [lo |-> Max({blk_stop, blk_start}), hi |-> next_blk_start]
       ELSE [lo |-> blk_start, hi |-> blk_stop]

ShiftMiniBlock(c, mb, adj_block, blk, region, n, nphases, bridged, box) ==
  LET shape == [j \in Dims(c) |-> Shape(c, blk, region, n, nphases, bridged, box, j)]
      is_first_mb(j) == mb[j].lo <= adj_block[j].lo
      is_last_mb(j)  == mb[j].hi >= adj_block[j].hi
      shift(j) == IF is_first_mb(j) /\ is_last_mb(j) THEN 0 ELSE c.mb_angles[j] * n
      moved(j) == [lo |-> IF is_first_mb(j) THEN shape[j].lo ELSE mb[j].lo - shift(j),
                   hi |-> IF is_last_mb(j) THEN shape[j].hi ELSE mb[j].hi - shift(j)]
  IN [j \in Dims(c) |-> Cap(Cap(moved(j), box[j]), shape[j])]

-----------------------------------------------------------------------------
(* The scans of a box by strides, as the generated loops make them.        *)

Tiles(box, stride) ==
  LET along(j) ==
        {[lo |-> x, hi |-> Min({x + stride[j], box[j].hi})] :
           x \in {box[j].lo + k * stride[j] :
                    k \in 0..(CeilDiv(box[j].hi - box[j].lo, stride[j]) - 1)}}
  IN {t \in [DOMAIN box -> UNION {along(j) : j \in DOMAIN box}] :
        \A j \in DOMAIN box : t[j] \in along(j)}

(* The members of a set in the order of the pairs "before".                *)
Position(S, before, x) == 1 + Cardinality({y \in S : <<y, x>> \in before})
Listed(S, before) ==
  [k \in 1..Cardinality(S) |-> CHOOSE x \in S : Position(S, before, x) = k]

(* The rank and block loops are sequential and strictly increasing.        *)
TileBefore(t, u) == \E j \in DOMAIN t : /\ t[j].lo < u[j].lo
                                       /\ \A i \in 1..(j-1) : t[i] = u[i]
InOrder(tiles) ==
  Listed(tiles, {tu \in tiles \X tiles : TileBefore(tu[1], tu[2])})

(* A size that covers the next larger one gives a single stride.           *)
StrideIn(box, size, outer) ==
  [j \in DOMAIN box |-> IF size[j] >= outer[j] THEN Max({1, box[j].hi - box[j].lo})
                                               ELSE size[j]]
=============================================================================
