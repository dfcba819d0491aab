---------------------------- MODULE HaloBuffers -----------------------------
(***************************************************************************)
(* Which points of a var a rank exchanges with each of its neighbours, and *)
(* whether by whole vectors.  Every rank works this out on its own, from   *)
(* its own domain and the row of its neighbour in the table of sizes.      *)
(*                                                                         *)
(* job.vars has the vars: the domain dimensions they have, their halos,    *)
(* the largest distance their halos are read at, the steps they store and  *)
(* whether they are folded.  The steps and misc dimensions of a buffer are *)
(* all those of its var.  Regions are as large as their ranks, so only the *)
(* dimensions with several ranks need wave-front angles.                   *)
(***************************************************************************)
EXTENDS RankSetup, VarLayout

Vars == DOMAIN job.vars
Sides == {"send", "recv"}

-----------------------------------------------------------------------------
(* Wave fronts, as in update_var_info().                                   *)
NumShifts == IF job.wf_steps > 0 THEN job.packs * job.wf_steps - 1 ELSE 0
MaxHalo(d) ==
  Max({0} \cup UNION {{job.vars[v].left_halo[d], job.vars[v].right_halo[d]} :
                        v \in {v \in Vars : d \in job.vars[v].dims}})
WfShift(r, d) ==
  IF opts[r].num_ranks[d] > 1 THEN RoundUpFlr(MaxHalo(d), job.fold[d]) * NumShifts ELSE 0

IsFirst(r, d) == opts[r].rank_indices[d] = 0

(* A rank with others beside it must hold all that they read.              *)
\* Mutant: only the halo is made sure of, not the wave-front shifts.
TooSmallMutant(r) ==
  \E d \in Dims : opts[r].num_ranks[d] > 1 /\ opts[r].local[d] < MaxHalo(d)

TooSmall(r) ==
  \E d \in Dims : /\ opts[r].num_ranks[d] > 1
                  /\ opts[r].local[d] < MaxHalo(d) + WfShift(r, d)

(* A solution var after the rank has set its sizes, offsets and pads.      *)
VarAt(r, v) ==
  LET var == job.vars[v]
      per_dim(used, value(_)) == [d \in Dims |-> IF d \in var.dims THEN value(d) ELSE used]
  IN Resize([kind |-> per_dim("misc", LAMBDA d : "domain"),
             domain |-> per_dim(1, LAMBDA d : opts[r].local[d]),
             left_halo |-> per_dim(0, LAMBDA d : var.left_halo[d]),
             right_halo |-> per_dim(0, LAMBDA d : var.right_halo[d]),
             left_wf_ext |-> per_dim(0, LAMBDA d : IF IsFirst(r, d) THEN 0 ELSE WfShift(r, d)),
             right_wf_ext |-> per_dim(0, LAMBDA d : IF IsLast(r, d) THEN 0 ELSE WfShift(r, d)),
             extra_pad |-> per_dim(0, LAMBDA d : 0),
             min_pad |-> per_dim(0, LAMBDA d : 0),
             rank_ofs |-> per_dim(0, LAMBDA d : offset[r][d]),
             local_ofs |-> per_dim(0, LAMBDA d : 0),
             var_vec |-> per_dim(1, LAMBDA d : IF var.folded THEN job.fold[d] ELSE 1),
             soln_vec |-> per_dim(1, LAMBDA d : job.fold[d]),
             inner |-> Len(job.fold), inner_misc |-> FALSE, allow_addl_pad |-> FALSE])

-----------------------------------------------------------------------------
(* Boxes.  A span is half-open: [lo, hi).                                  *)

Toward(n) == [d \in Dims |-> Unlayout(Neighborhood, n)[d] - 1]

Inner(r, d) == [lo |-> offset[r][d], hi |-> offset[r][d] + opts[r].local[d]]

(* Where there are no more ranks the halo is exchanged with the domain.    *)
Outer(r, v, d) ==
  [lo |-> Inner(r, d).lo - IF IsFirst(r, d) THEN job.vars[v].left_halo[d] ELSE 0,
   hi |-> Inner(r, d).hi + IF IsLast(r, d) THEN job.vars[v].right_halo[d] ELSE 0]

WholeVecs(span, vlen) == [lo |-> RoundDownFlr(span.lo, vlen), hi |-> RoundUpFlr(span.hi, vlen)]

(* The domains of both ranks are whole vectors, and so can be made what is *)
(* exchanged along them.                                                   *)
VarVecOk(r, n, v) ==
  LET at == VarAt(r, v)
  IN /\ near[r][MyIndex].vlen_mults
     /\ near[r][n].vlen_mults
     /\ \A d \in job.vars[v].dims :
          LET vecs == WholeVecs(Outer(r, v, d), at.var_vec[d])
          IN vecs.lo >= FirstLocal(at, d) /\ vecs.hi - 1 <= LastLocal(at, d)

Rounded(n, vlen, vec_ok) == IF vec_ok THEN RoundUpFlr(n, vlen) ELSE n

(* Mutant: the other rank's halo is taken for one's own.                   *)
WidthMutant(r, v, d, side, dir) ==
  WfShift(r, d) + IF dir < 0 THEN job.vars[v].left_halo[d] ELSE job.vars[v].right_halo[d]

(* A rank receives its own halo on that side and sends what the halo on    *)
(* the other side of its neighbour, taken to be like its own, holds.       *)
Width(r, v, d, side, dir) ==
  WfShift(r, d) + IF (dir < 0) = (side = "recv") THEN job.vars[v].left_halo[d]
                                                 ELSE job.vars[v].right_halo[d]

Span(r, n, v, d, side, vec_ok) ==
  LET vlen   == VarAt(r, v).var_vec[d]
      dir    == Toward(n)[d]
      w      == Rounded(Width(r, v, d, side, dir), vlen, vec_ok)
      inner  == Inner(r, d)
  IN CASE dir = 0 -> IF vec_ok THEN WholeVecs(Outer(r, v, d), vlen) ELSE Outer(r, v, d)
       [] dir < 0 /\ side = "send" -> [lo |-> inner.lo, hi |-> inner.lo + w]
       [] dir > 0 /\ side = "send" -> [lo |-> inner.hi - w, hi |-> inner.hi]
       [] dir < 0 /\ side = "recv" -> [lo |-> inner.lo - w, hi |-> inner.lo]
       [] dir > 0 /\ side = "recv" -> [lo |-> inner.hi, hi |-> inner.hi + w]

(* With wave fronts edges and corners are needed whatever the equations    *)
(* read; else the neighbours within the distance they read at.             *)
MaxDist(v) == IF job.wf_steps > 0 THEN Cardinality(Dims) ELSE job.vars[v].l1_norm

Exchanges(r, n, v) ==
  /\ n # MyIndex
  /\ near[r][n].rank # NoRank
  /\ near[r][n].man_dist <= MaxDist(v)
  /\ \E d \in job.vars[v].dims : Toward(n)[d] # 0

(* A dimension the var does not have is a single point.                    *)
Box(r, n, v, side) ==
  LET vec_ok == VarVecOk(r, n, v)
  IN [d \in Dims |-> IF d \in job.vars[v].dims THEN Span(r, n, v, d, side, vec_ok)
                                                 ELSE [lo |-> 0, hi |-> 1]]
BoxSize(box) == TupleProduct([d \in DOMAIN box |-> box[d].hi - box[d].lo])
InBox(pt, box) == \A d \in DOMAIN box : box[d].lo <= pt[d] /\ pt[d] < box[d].hi

BufVecOk(r, n, v, box) ==
  /\ VarVecOk(r, n, v)
  /\ \A d \in job.vars[v].dims :
       LET vlen == VarAt(r, v).var_vec[d]
       IN (box[d].hi - box[d].lo) % vlen = 0 /\ IModFlr(box[d].lo, vlen) = 0

(* The buffers a rank configures, by var, neighbour and side.              *)
BufKeys(r) ==
  {k \in Vars \X (DOMAIN near[r]) \X Sides :
     Exchanges(r, k[2], k[1]) /\ BoxSize(Box(r, k[2], k[1], k[3])) > 0}

BufsOf(r) ==
  [k \in BufKeys(r) |->
     LET box == Box(r, k[2], k[1], k[3])
     IN [box |-> box, vec_ok |-> BufVecOk(r, k[2], k[1], box)]]
=============================================================================
