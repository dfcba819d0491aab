------------------------------ MODULE SubBlocks -----------------------------
(***************************************************************************)
(* The evaluation of one non-scratch bundle in a rank at one step, without *)
(* temporal blocks: the boxes of the bundle are found, and in every        *)
(* mini-block and box the scratch bundle it needs (if any) and the bundle  *)
(* itself are evaluated, sub-block by sub-block, by clusters of vectors,   *)
(* single vectors, some of them masked, and single points.                 *)
(*                                                                         *)
(* Points are global.  A vector has the index of its place in the rank, in *)
(* vectors, and its lanes are numbered from 0.                             *)
(***************************************************************************)
EXTENDS GenLoops, BoundingBoxes, VecReads

CONSTANT Setups   \* the ranks, with their settings and stencils, to be run

(* A setup has these fields; where they are tuples, one for every domain   *)
(* dimension, from the outermost:                                          *)
(*   fold, mult         lengths of a vector, and vectors of a cluster      *)
(*   rank_ofs, size     the domain of the rank                             *)
(*   valid              the points where the bundle is to be evaluated     *)
(*   nthreads           threads that look for boxes                        *)
(*   mini, sub          sizes of mini-blocks and sub-blocks                *)
(*   path, group        how the mini-block loop goes, and its group sizes  *)
(*   threads            threads of a block                                 *)
(*   bind               the dimension whose slabs are bound to them, or 0  *)
(*   scalar             whether only scalar code is used                   *)
(*   scratch            whether the bundle needs a scratch bundle          *)
(*   left, right        how far it reads the scratch var                   *)
(*   read               how far the first bundle reads the var             *)
VARIABLES
  setup,     \* the setup that is run
  boxes,     \* _bb_list of the bundle
  minis,     \* mini-blocks that are not begun, in the order of their loop
  mini,      \* the one being evaluated; NoTile between two of them
  plan,      \* what is left of its plan
  todo,      \* sub-blocks to be evaluated for the first of it, numbered
  scratch,   \* points of the scratch var evaluated in this mini-block
  count      \* how often the bundle was evaluated at each point

vars == <<setup, boxes, minis, mini, plan, todo, scratch, count>>

NoTile == [start |-> << >>, stop |-> << >>]

Dims == DOMAIN setup.fold
InnerDim == Len(setup.fold)
AllDims == [d \in Dims |-> d]
OuterDims == SubSeq(AllDims, 1, InnerDim - 1)
Same(n) == [d \in Dims |-> n]

RankBox == [begin |-> setup.rank_ofs, end |-> AddElements(setup.rank_ofs, setup.size)]
ToDo == setup.valid \cap PointsIn(RankBox)

-----------------------------------------------------------------------------
(* The loops over mini-blocks and sub-blocks.                              *)

(* Indices are aligned to vectors in the rank.                             *)
ScanOf(begin, end, stride) ==
  [begin |-> begin, end |-> end, stride |-> stride, align |-> setup.fold,
   align_ofs |-> setup.rank_ofs, group_size |-> setup.group]

MiniBlocks == Tiles({}, ScanOf(RankBox.begin, RankBox.end, setup.mini), AllDims)

Trimmed(m, box) ==
  [start |-> [d \in Dims |-> Max({m.start[d], box.begin[d]})],
   stop |-> [d \in Dims |-> Min({m.stop[d], box.end[d]})]]
Overlap(m, box) == LET t == Trimmed(m, box) IN \A d \in Dims : t.start[d] < t.stop[d]

(* The boxes in the mini-block, and in each the bundles that are required. *)
Plan(m) ==
  LET reqd == IF setup.scratch THEN <<"scratch", "bundle">> ELSE <<"bundle">>
      at(box) == IF Overlap(m, box)
                   THEN [i \in DOMAIN reqd |-> [span |-> Trimmed(m, box), bundle |-> reqd[i]]]
                   ELSE << >>
  IN FlattenSeq([i \in DOMAIN boxes |-> at(boxes[i])])

(* Mutant: the halo is not rounded up to vectors and clipped to the rank.  *)
AdjustSpanMutant(s) ==
  [s EXCEPT !.begin = [d \in Dims |-> Max({s.begin[d] - setup.left[d], RankBox.begin[d]})],
            !.end = [d \in Dims |-> s.end[d] + setup.right[d]]]

(* A scratch bundle is evaluated in the halo of its var too.               *)
AdjustSpan(s) ==
  LET begin == [d \in Dims |-> s.begin[d] - RoundUpFlr(setup.left[d], setup.fold[d])]
      end == [d \in Dims |-> s.end[d] + RoundUpFlr(setup.right[d], setup.fold[d])]
      whole(d) == s.stride[d] >= s.end[d] - s.begin[d]
  IN [s EXCEPT !.begin = begin, !.end = end,
               !.stride = [d \in Dims |-> IF whole(d) THEN end[d] - begin[d] ELSE @[d]]]

(* The numbered tiles of the mini-block loop.                              *)
SubBlocksOf(step) ==
  LET trimmed == ScanOf(step.span.start, step.span.stop, setup.sub)
      s == IF step.bundle = "scratch" THEN AdjustSpan(trimmed) ELSE trimmed
      bound(d) == setup.bind # 0 /\ d = setup.bind
      whole(d) == setup.bind # 0 \/ setup.sub[d] >= setup.mini[d]
      t == [s EXCEPT
              !.stride = [d \in Dims |-> IF bound(d) THEN setup.sub[d]
                                         ELSE IF whole(d) THEN s.end[d] - s.begin[d] ELSE @[d]],
              !.align = [d \in Dims |-> IF bound(d) THEN setup.sub[d] ELSE @[d]]]
      tiles == Tiles(setup.path, t, AllDims)
  IN {<<n, tiles[n]>> : n \in DOMAIN tiles}

(* The thread that evaluates a tile: that of the slab the tile begins in,  *)
(* or, by the static schedule of the loop, each thread in turn.            *)
ThreadOf(b) ==
  IF setup.bind = 0 THEN b[1] % setup.threads
  ELSE IModFlr(IDivFlr(b[2].start[setup.bind] + 4096, setup.sub[setup.bind]), setup.threads)

-----------------------------------------------------------------------------
(* A sub-block.  All ranges are relative to the rank; "fc" is the part     *)
(* that is full clusters, "fv" full vectors and "v" full or partial ones.  *)

Ranges(t) ==
  LET e(d) == [begin |-> t.start[d] - setup.rank_ofs[d], end |-> t.stop[d] - setup.rank_ofs[d]]
      up(n, len) == RoundUpFlr(n, len)
      down(n, len) == RoundDownFlr(n, len)
      fc(d) == LET len == setup.fold[d] * setup.mult[d]
               IN [begin |-> up(e(d).begin, len), end |-> down(e(d).end, len)]
      edges(d) == fc(d).begin > e(d).begin \/ fc(d).end < e(d).end
      whole(d) == d = InnerDim \/ ~edges(d)
      f(d) == setup.fold[d]
  IN [e |-> [d \in Dims |-> e(d)],
      fc |-> [d \in Dims |-> fc(d)],
      fv |-> [d \in Dims |-> IF whole(d) THEN fc(d)
                             ELSE [begin |-> up(e(d).begin, f(d)), end |-> down(e(d).end, f(d))]],
      v |-> [d \in Dims |-> IF whole(d) THEN fc(d)
                            ELSE [begin |-> down(e(d).begin, f(d)), end |-> up(e(d).end, f(d))]]]

Lanes == LanesOf(setup.fold)

(* The range in vectors, all of it whole vectors.                          *)
Normalized(range) ==
  [begin |-> [d \in Dims |-> IDivFlr(range[d].begin, setup.fold[d])],
   end |-> [d \in Dims |-> IDivFlr(range[d].end, setup.fold[d])]]

(* The sub-block loop goes over all dimensions but the inner one.          *)
Rows(range, stride) ==
  Tiles({}, [begin |-> range.begin, end |-> range.end, stride |-> stride,
             align |-> Same(1), align_ofs |-> Same(0), group_size |-> Same(1)], OuterDims)

(* Vectors of a row, all with the same lanes, evaluated by some code.      *)
Vectors(by, row, width, lanes) ==
  LET len == [d \in Dims |-> IF d = InnerDim THEN row.stop[d] - row.start[d] ELSE width[d]]
  IN {[by |-> by, vec |-> AddElements(row.start, Unlayout(len, n)), lanes |-> lanes] :
        n \in 0 .. TupleProduct(len) - 1}

ClusterWork(r) ==
  IF \E d \in Dims : r.fc[d].end <= r.fc[d].begin THEN {}
  ELSE LET rows == Rows(Normalized(r.fc), setup.mult)
       IN UNION {Vectors(<<"cluster", n>>, rows[n], setup.mult, Lanes) : n \in DOMAIN rows}

(* The lanes of the first and of the last partial vector that are inside.  *)
PeelMask(r, d) ==
  IF r.v[d] = r.fv[d] THEN Lanes
  ELSE {l \in Lanes : r.v[d].begin + Unlayout(setup.fold, l)[d] >= r.e[d].begin}
RemMask(r, d) ==
  IF r.v[d] = r.fv[d] THEN Lanes
  ELSE {l \in Lanes : r.fv[d].end + Unlayout(setup.fold, l)[d] < r.e[d].end}

(* The rows of vectors that are before or after the clusters, and the      *)
(* dimensions in which they are.                                           *)
RowsOutside(r) ==
  LET fc == Normalized(r.fc)
      rows == Rows(Normalized(r.v), Same(1))
      at(row) == {d \in Dims \ {InnerDim} :
                    row.start[d] < fc.begin[d] \/ row.start[d] >= fc.end[d]}
  IN {o \in {[n |-> n, row |-> rows[n], at |-> at(rows[n])] : n \in DOMAIN rows} : o.at # {}}

(* Mutant: the mask of the end of a row is not applied.                    *)
VectorWorkMutant(r) ==
  LET fv == Normalized(r.fv)
      mask(o) == {l \in Lanes : \A d \in o.at :
                          o.row.start[d] < fv.begin[d] => l \in PeelMask(r, d)}
  IN IF \A d \in Dims : r.fc[d].begin <= r.v[d].begin /\ r.fc[d].end >= r.v[d].end THEN {}
     ELSE UNION {Vectors(<<"vector", o.n>>, o.row, Same(1), mask(o)) : o \in RowsOutside(r)}

(* Vectors before or after the clusters in any dimension but the inner one;*)
(* the masks of all these dimensions apply.                                *)
VectorWork(r) ==
  LET fv == Normalized(r.fv)
      mask(o) == {l \in Lanes : \A d \in o.at :
                          /\ o.row.start[d] < fv.begin[d] => l \in PeelMask(r, d)
                          /\ o.row.start[d] >= fv.end[d] => l \in RemMask(r, d)}
  IN IF \A d \in Dims : r.fc[d].begin <= r.v[d].begin /\ r.fc[d].end >= r.v[d].end THEN {}
     ELSE UNION {Vectors(<<"vector", o.n>>, o.row, Same(1), mask(o)) : o \in RowsOutside(r)}

(* Points by scalar code: one lane each, whose inputs are read one by one. *)
VecOf(pt) == [d \in Dims |-> IDivFlr(pt[d] - setup.rank_ofs[d], setup.fold[d])]
LaneOf(pt) ==
  LayoutIndex(setup.fold, [d \in Dims |-> IModFlr(pt[d] - setup.rank_ofs[d], setup.fold[d])])
Scalars(pts) == {[by |-> <<"scalar", 0>>, vec |-> VecOf(pt), lanes |-> {LaneOf(pt)}] : pt \in pts}

(* What is before or after the clusters in the inner dimension.            *)
ScalarWork(t, r) ==
  LET outside(pt) == \E d \in Dims : pt[d] - setup.rank_ofs[d] \notin r.v[d].begin .. r.v[d].end - 1
  IN IF r.e[InnerDim].begin >= r.v[InnerDim].begin /\ r.e[InnerDim].end <= r.v[InnerDim].end THEN {}
     ELSE Scalars({pt \in PointsIn([begin |-> t.start, end |-> t.stop]) : outside(pt)})

(* All evaluations of a sub-block.                                         *)
Work(t) ==
  LET r == Ranges(t)
  IN IF setup.scalar THEN Scalars(PointsIn([begin |-> t.start, end |-> t.stop]))
     ELSE ClusterWork(r) \cup VectorWork(r) \cup ScalarWork(t, r)

PointOf(vec, lane) ==
  [d \in Dims |-> setup.rank_ofs[d] + vec[d] * setup.fold[d] + Unlayout(setup.fold, lane)[d]]
PointsAt(work) == {PointOf(work.vec, l) : l \in work.lanes}

-----------------------------------------------------------------------------
(* The vars.                                                               *)

(* A var with all dimensions, and a step dimension before them if it has   *)
(* steps.                                                                  *)
VarWith(steps, domain, local_ofs, left, right) ==
  LET has == IF steps = 0 THEN 0 ELSE 1
      all(step, t) == IF steps = 0 THEN t ELSE <<step>> \o t
  IN Resize([kind |-> all("step", [d \in Dims |-> "domain"]), domain |-> all(steps, domain),
             left_halo |-> all(0, left), right_halo |-> all(0, right),
             left_wf_ext |-> all(0, Same(0)), right_wf_ext |-> all(0, Same(0)),
             extra_pad |-> all(0, Same(0)), min_pad |-> all(0, Same(0)),
             rank_ofs |-> all(0, setup.rank_ofs), local_ofs |-> all(0, local_ofs),
             var_vec |-> all(1, setup.fold), soln_vec |-> all(1, setup.fold),
             inner |-> has + InnerDim, inner_misc |-> FALSE, allow_addl_pad |-> TRUE])

(* The halo of a var read by a scratch bundle includes the scratch halo.   *)
SolutionVar(steps) ==
  LET halo(reach) == IF setup.scratch THEN AddElements(setup.read, reach) ELSE setup.read
  IN VarWith(steps, setup.size, Same(0), halo(setup.left), halo(setup.right))

(* A scratch var has room for a mini-block, and is moved to this one.      *)
ScratchVar(m) ==
  VarWith(0,
          [d \in Dims |-> RoundUpFlr(setup.mini[d], setup.fold[d])],
          [d \in Dims |-> RoundDownFlr(m.start[d] - setup.rank_ofs[d], setup.fold[d])],
          setup.left, setup.right)

(* A var with steps, some of the domain dimensions and two misc dimensions *)
(* of 2 and 3 indices; it is folded only if it has all folded dimensions.  *)
InputIndex(dims, step, pt, misc) ==
  <<step>> \o [i \in 1 .. Cardinality(dims) |-> pt[SetToSortSeq(dims, <)[i]]] \o misc

InputVar(dims, inner_misc) ==
  LET all(step, t, misc) == InputIndex(dims, step, t, misc)
      vec == IF VecType(setup.fold, dims) = "full" THEN setup.fold ELSE Same(1)
      none == all(0, Same(0), <<0, 0>>)
  IN Resize([kind |-> all("step", Same("domain"), <<"misc", "misc">>),
             domain |-> all(2, setup.size, <<2, 3>>),
             left_halo |-> all(0, setup.read, <<0, 0>>), right_halo |-> all(0, setup.read, <<0, 0>>),
             left_wf_ext |-> none, right_wf_ext |-> none, extra_pad |-> none, min_pad |-> none,
             rank_ofs |-> all(0, setup.rank_ofs, <<0, 0>>),
             local_ofs |-> all(0, Same(0), <<1, -1>>),
             var_vec |-> all(1, vec, <<1, 1>>), soln_vec |-> all(1, setup.fold, <<1, 1>>),
             inner |-> IF InnerDim \in dims THEN Cardinality(dims) + 1 ELSE 0,
             inner_misc |-> inner_misc, allow_addl_pad |-> TRUE])

(* The var a bundle reads, how far, and the one it writes.                 *)
Access ==
  CASE Head(plan).bundle = "scratch" ->
         [from |-> SolutionVar(0), left |-> setup.read, right |-> setup.read, to |-> ScratchVar(mini)]
    [] setup.scratch ->
         [from |-> ScratchVar(mini), left |-> setup.left, right |-> setup.right, to |-> SolutionVar(0)]
    [] OTHER ->
         [from |-> SolutionVar(0), left |-> setup.read, right |-> setup.read, to |-> SolutionVar(0)]

-----------------------------------------------------------------------------
Init ==
  /\ setup \in Setups
  /\ boxes = << >>
  /\ minis = << >> /\ mini = NoTile /\ plan = << >> /\ todo = {}
  /\ scratch = {}
  /\ count = << >>

(* The boxes are found, each slice by a thread, when the solution is       *)
(* prepared; then a step begins.                                           *)
Prepare ==
  /\ count = << >>
  /\ boxes' = FindBoxes(RankBox, setup.valid, setup.nthreads)
  /\ minis' = MiniBlocks
  /\ count' = [pt \in PointsIn([begin |-> [d \in Dims |-> RankBox.begin[d] - setup.fold[d]],
                                end |-> [d \in Dims |-> RankBox.end[d] + setup.fold[d]]]) |-> 0]
  /\ UNCHANGED <<setup, mini, plan, todo, scratch>>

(* The next of a plan, or the end of the mini-block.                       *)
GoTo(m, rest) ==
  /\ plan' = rest
  /\ mini' = IF rest = << >> THEN NoTile ELSE m
  /\ todo' = IF rest = << >> THEN {} ELSE SubBlocksOf(rest[1])

(* The scratch vars of a region thread are moved to its next mini-block;   *)
(* those of other threads have scratch vars of their own.                  *)
BeginMiniBlock ==
  /\ mini = NoTile /\ minis # << >>
  /\ minis' = Tail(minis)
  /\ GoTo(Head(minis), Plan(Head(minis)))
  /\ scratch' = {}
  /\ UNCHANGED <<setup, boxes, count>>

(* A block thread evaluates the first of its sub-blocks that is left.      *)
CalcSubBlock(b) ==
  /\ b \in todo
  /\ \A c \in todo : c[1] < b[1] => ThreadOf(c) # ThreadOf(b)
  /\ todo' = todo \ {b}
  /\ UNCHANGED <<setup, boxes, minis, mini, plan>>
  /\ LET work == Work(b[2])
         times(vec, lane) == Cardinality({w \in work : w.vec = vec /\ lane \in w.lanes})
     IN IF Head(plan).bundle = "scratch"
          THEN /\ scratch' = scratch \cup UNION {PointsAt(w) : w \in work}
               /\ UNCHANGED count
          ELSE /\ count' = [pt \in DOMAIN count |-> count[pt] + times(VecOf(pt), LaneOf(pt))]
               /\ UNCHANGED scratch

(* Threads meet after each bundle of each box.                             *)
NextBundle ==
  /\ mini # NoTile /\ todo = {}
  /\ GoTo(mini, Tail(plan))
  /\ UNCHANGED <<setup, boxes, minis, scratch, count>>

Next ==
  \/ Prepare
  \/ BeginMiniBlock
  \/ \E b \in todo : CalcSubBlock(b)
  \/ NextBundle

Spec == Init /\ [][Next]_vars

-----------------------------------------------------------------------------
(* Whatever the sizes, offsets, threads and paths are, a bundle is         *)
(* evaluated exactly once at every point of its sub-domain in the rank and *)
(* at no other: boxes are disjoint and cover it, tiles cover each of them, *)
(* and clusters, masked vectors and scalars cover every tile.              *)
(* (calc_mini_block() and calc_sub_block_vec(), stencil_calc.cpp;          *)
(* find_bounding_box(), setup.cpp; gen_loops.pl.)                          *)
OncePerPoint ==
  count # << >> =>
    /\ \A pt \in DOMAIN count : count[pt] <= IF pt \in ToDo THEN 1 ELSE 0
    /\ (mini = NoTile /\ minis = << >>) => \A pt \in ToDo : count[pt] = 1

(* When the bundle is evaluated, all points of the scratch var that it     *)
(* reads were evaluated in the same mini-block: the span of the scratch    *)
(* bundle is adjusted far enough, before any thread begins with the        *)
(* bundle.  (adjust_span() and the end of the parallel region,             *)
(* stencil_calc.cpp.)                                                      *)
ScratchReady ==
  (todo # {} /\ setup.scratch /\ Head(plan).bundle = "bundle") =>
    \A b \in todo : \A w \in Work(b[2]) : \A pt \in PointsAt(w) :
      PointsIn([begin |-> [d \in Dims |-> pt[d] - setup.left[d]],
                end |-> [d \in Dims |-> pt[d] + setup.right[d] + 1]]) \subseteq scratch

HasVec(v, vec) ==
  \A d \in Dims : vec[d] + v.vec_left_pad[d] - v.vec_local_ofs[d] \in 0 .. v.vec_alloc[d] - 1

(* What a sub-block reads and writes is in the storage of the vars.        *)
InStorage ==
  todo # {} =>
    LET a == Access
    IN \A b \in todo : \A w \in Work(b[2]) :
         /\ HasVec(a.to, w.vec)
         /\ IF w.by[1] # "scalar"
              THEN /\ HasVec(a.from, [d \in Dims |-> w.vec[d] + IDivFlr(-a.left[d], setup.fold[d])])
                   /\ HasVec(a.from, [d \in Dims |->
                                w.vec[d] + IDivFlr(a.right[d] + setup.fold[d] - 1, setup.fold[d])])
              ELSE \A pt \in PointsAt(w) :
                     /\ IndicesOk(a.from, [d \in Dims |-> pt[d] - a.left[d]])
                     /\ IndicesOk(a.from, [d \in Dims |-> pt[d] + a.right[d]])

(* A lane of a vector is where the element of its point is found.          *)
AddressesAgree ==
  todo # {} =>
    LET to == Access.to
    IN \A b \in todo : \A w \in Work(b[2]) : \A l \in w.lanes :
         ElemPtr(to, PointOf(w.vec, l)) = <<VecPtrNorm(to, w.vec), l>>

(* The slice of a mini-block at two steps has an element for each point,   *)
(* all in the vectors of the slice; one that goes on past the storage is   *)
(* cut where that ends.                                                    *)
SlicesAgree ==
  (mini # NoTile /\ todo = {}) =>
    LET v == SolutionVar(2)
        first == << -1>> \o mini.start
        last == <<0>> \o [d \in Dims |-> mini.stop[d] - 1]
        end == <<0>> \o [d \in Dims |-> LastLocal(v, d + 1)]
        past == <<0>> \o [d \in Dims |-> LastLocal(v, d + 1) + mini.stop[d]]
        elems == SliceElems(v, first, last)
        vecs == SliceVecs(v, first, last)
    IN /\ Cardinality(ToSet(elems)) = Len(elems)
       /\ Cardinality(ToSet(vecs)) = Len(vecs)
       /\ ToSet(elems) \subseteq ToSet(vecs) \X Lanes
       /\ SetSameWrites(v, first, past) = ToSet(SliceElems(v, first, end))

(* The offsets at which the bundle reads.                                  *)
Offsets == PointsIn([begin |-> [d \in Dims |-> -setup.read[d]],
                     end |-> [d \in Dims |-> setup.read[d] + 1]])

(* The elements that a vector is made of, with any kind of instructions,   *)
(* are those of its points.                                                *)
VectorsAgree(ofs) ==
  LET wanted == Elems(setup.fold, ofs)
      v == SolutionVar(0)
  IN /\ \A isa \in {"none", "avx256", "knc", "avx512"} :
          Constructed(isa, TupleProduct(setup.fold), wanted) = wanted
     /\ \A w \in wanted :
          ElemPtr(v, AddElements(PointOf(Same(0), w.lane), ofs))
            = <<VecPtrNorm(v, NormOfs(setup.fold, w.vec)), w.elem>>

(* One element read for all lanes is the element of each of them.          *)
BroadcastAgrees(ofs) ==
  \A dims \in SUBSET Dims :
    VecType(setup.fold, dims) = "none" =>
      LET v == InputVar(dims, FALSE)
          elem(l) == ElemPtr(v, InputIndex(dims, 0, AddElements(PointOf(Same(0), l), ofs), <<1, 0>>))
      IN \A l \in Lanes : elem(l) = elem(0)

(* A pointer and an offset find the vector that its indices do.            *)
PointersAgree ==
  \A dims \in SUBSET Dims : \A inner_misc \in BOOLEAN :
    (VecType(setup.fold, dims) = "full" /\ InnerDim \in dims) =>
      LET v == InputVar(dims, inner_misc)
      IN \A vec \in {VecOf(pt) : pt \in PointsIn(RankBox)} : \A misc \in (1 .. 2) \X (-1 .. 1) :
           LET idx == InputIndex(dims, 1, vec, misc) IN PtrRead(v, idx) = VecPtrNorm(v, idx)

ReadsAgree ==
  count = << >> => PointersAgree /\ \A ofs \in Offsets : VectorsAgree(ofs) /\ BroadcastAgrees(ofs)

(* Every vector and every element that a sub-block reads or writes is in   *)
(* the storage of its var, for padding and the size of scratch vars allow  *)
(* for halos, spans and tiles rounded up to vectors; and the kernel's      *)
(* vectors, its scalar code and the slices of the APIs find the same       *)
(* element for a point, none of them shared by two points, also where a    *)
(* vector is put together from lanes of others or read by a pointer.       *)
(* (getReqdPad() and resize(), yk_var.cpp; getVecPtrNorm() and             *)
(* getElemPtr(), yk_var.hpp; allocScratchData(), alloc.cpp;                *)
(* update_scratch_var_info(), context.cpp; yk_var_apis.cpp; Vec.cpp,       *)
(* CppIntrin.cpp and Cpp.cpp of the compiler.)                             *)
StorageSound == InStorage /\ AddressesAgree /\ SlicesAgree /\ ReadsAgree
=============================================================================
