----------------------------- MODULE RankSetup ------------------------------
(***************************************************************************)
(* How prepare_solution() places the ranks of an MPI job: the ranks check  *)
(* that they agree on their options, form a grid, tell each other their    *)
(* coordinates and sizes in two passes, split or sum up the domain, and    *)
(* find their neighbours.                                                  *)
(*                                                                         *)
(* A broadcast from every rank in turn is an exchange of rows of a table:  *)
(* a rank can leave it only when all have entered it.  Dimensions are      *)
(* numbered from 1, ranks from 0, as in MPI.                               *)
(***************************************************************************)
EXTENDS Tuples

CONSTANTS
  Jobs,   \* what the ranks of a job may be started with
  NoRank  \* MPI_PROC_NULL

(* A job: the node of each rank, the "fold" and "cluster" sizes of the     *)
(* kernel and, for every rank, the options that were set on it.            *)
ASSUME JobsOK ==
  \A j \in Jobs :
    /\ Len(j.opts) = Len(j.node) /\ Len(j.node) > 0
    /\ \A i \in DOMAIN j.opts :
         \A size \in ToSet(j.opts[i].global) \cup ToSet(j.opts[i].local)
                       \cup ToSet(j.opts[i].num_ranks) : size \in Nat

VARIABLES
  job,     \* the job
  stage,   \* what each rank has come to
  opts,    \* the options of each rank, as set or since computed
  table,   \* rows a rank has broadcast, by pass
  offset,  \* where the domain of each rank starts in the global one
  near     \* the neighbourhood of each rank, by neighbour index

rank_vars == <<job, stage, opts, table, offset, near>>

RanksOf(j) == 0 .. Len(j.node) - 1
Ranks == RanksOf(job)
NumRanks == Len(job.node)
Dims == DOMAIN job.fold

Fail(r) == /\ stage' = [stage EXCEPT ![r] = "error"]
           /\ UNCHANGED <<job, opts, table, offset, near>>

-----------------------------------------------------------------------------
(* The options all ranks must agree on, and sizes that must be known.      *)
Shared(o) == <<o.use_shm, o.find_loc, o.global, o.num_ranks>>
Disagree == \E q \in Ranks : Shared(job.opts[q + 1]) # Shared(job.opts[1])
SizeUnknown(r) == \E d \in Dims : opts[r].global[d] = 0 /\ opts[r].local[d] = 0

(* The ranks find the grid from the preset and their number; as a table    *)
(* for all jobs.                                                           *)
Grids ==
  LET given(j) == {<<j.opts[i].num_ranks, Len(j.node)>> : i \in DOMAIN j.opts}
  IN [g \in UNION {given(j) : j \in Jobs} |-> CompactFactors(g[1], g[2])]
Grid(r) == Grids[<<opts[r].num_ranks, NumRanks>>]
IndicesIn(grid, r) == IF opts[r].find_loc THEN Unlayout(grid, r) ELSE opts[r].rank_indices

Misplaced(grid, at) ==
  \/ Len(grid) # Len(job.fold)
  \/ TupleProduct(grid) # NumRanks
  \/ \E d \in Dims : at[d] \notin 0 .. grid[d] - 1

Row(o) == [at |-> o.rank_indices, local |-> o.local]
Broadcast(pass, r, o) == table' = [table EXCEPT ![pass] = @ @@ (r :> Row(o))]
AllIn(pass) == DOMAIN table[pass] = Ranks

Agree(r) ==
  /\ stage[r] = "agree"
  /\ LET grid == Grid(r)
         at   == IndicesIn(grid, r)
         o    == [opts[r] EXCEPT !.num_ranks = grid, !.rank_indices = at]
     IN IF Disagree \/ SizeUnknown(r) \/ Misplaced(grid, at) THEN Fail(r)
        ELSE /\ opts' = [opts EXCEPT ![r] = o]
             /\ Broadcast(0, r, o)
             /\ stage' = [stage EXCEPT ![r] = "sum"]
             /\ UNCHANGED <<job, offset, near>>

-----------------------------------------------------------------------------
(* Both passes look at the coordinates of the others relative to one's own.*)
Delta(pass, r, q) == [d \in Dims |-> table[pass][q].at[d] - table[pass][r].at[d]]
InLine(pass, r, d) == {q \in Ranks : \A e \in Dims \ {d} : Delta(pass, r, q)[e] = 0}
SumOver(pass, qs, d) == MapThenSumSet(LAMBDA q : table[pass][q].local[d], qs)
SamePlace(pass, r) == \E q \in Ranks \ {r} : \A d \in Dims : Delta(pass, r, q)[d] = 0

(* First pass: a global size that is not set is the sum of the local ones; *)
(* local sizes that are not set divide the global one into whole clusters, *)
(* with what remains on the last rank.                                     *)
Share(r, d) ==
  RoundUpFlr(IDivFlr(opts[r].global[d] + opts[r].num_ranks[d] - 1, opts[r].num_ranks[d]),
             job.cluster[d])

Remainder(r, d) == opts[r].global[d] - Share(r, d) * (opts[r].num_ranks[d] - 1)
IsLast(r, d) == opts[r].rank_indices[d] = opts[r].num_ranks[d] - 1

CannotSplit(r, d) ==
  /\ opts[r].local[d] = 0
  /\ SumOver(0, InLine(0, r, d), d) # 0 \/ Remainder(r, d) <= 0

LocalSize(r, d) ==
  CASE opts[r].local[d] # 0 -> opts[r].local[d]
    [] IsLast(r, d) -> Remainder(r, d)
    [] OTHER -> Share(r, d)
GlobalSize(r, d) ==
  IF opts[r].global[d] = 0 THEN SumOver(0, InLine(0, r, d), d) ELSE opts[r].global[d]

SumSizes(r) ==
  /\ stage[r] = "sum" /\ AllIn(0)
  /\ ~SamePlace(0, r) /\ \A d \in Dims : ~CannotSplit(r, d)
  /\ LET o == [opts[r] EXCEPT !.local  = [d \in Dims |-> LocalSize(r, d)],
                              !.global = [d \in Dims |-> GlobalSize(r, d)]]
     IN opts' = [opts EXCEPT ![r] = o] /\ Broadcast(1, r, o)
  /\ stage' = [stage EXCEPT ![r] = "place"]
  /\ UNCHANGED <<job, offset, near>>

RefuseSizes(r) ==
  /\ stage[r] = "sum" /\ AllIn(0)
  /\ SamePlace(0, r) \/ \E d \in Dims : CannotSplit(r, d)
  /\ Fail(r)

-----------------------------------------------------------------------------
(* Second pass: ranks in line must have the same size in the other         *)
(* dimensions; those before a rank in line are where it starts.            *)
(* Mutant: only the ranks in line in the first dimension are compared.     *)
UnalignedMutant(r) ==
  \E q \in InLine(1, r, 1) : \E e \in Dims \ {1} :
    table[1][q].local[e] # table[1][r].local[e]

Unaligned(r) ==
  \E d \in Dims : \E q \in InLine(1, r, d) : \E e \in Dims \ {d} :
    table[1][q].local[e] # table[1][r].local[e]

Before(r, d) == {q \in InLine(1, r, d) : Delta(1, r, q)[d] < 0}
WrongSum(r) == \E d \in Dims : opts[r].global[d] # SumOver(1, InLine(1, r, d), d)

(* The neighbourhood: ranks at most one step away in every dimension, at   *)
(* the index of 0, 1 or 2 (previous, same or next) in each.                *)
Abs(n) == IF n < 0 THEN -n ELSE n
Neighborhood == [d \in Dims |-> 3]
NeighborIndex(delta) == LayoutIndex(Neighborhood, [d \in Dims |-> delta[d] + 1])
MyIndex == NeighborIndex([d \in Dims |-> 0])
Adjacent(r) == {q \in Ranks : \A d \in Dims : Abs(Delta(1, r, q)[d]) <= 1}
ManDist(r, q) == TupleSum([d \in Dims |-> Abs(Delta(1, r, q)[d])])

(* A rank of the same node is reached through shared memory.               *)
SameNode(r, q) == job.node[r + 1] = job.node[q + 1]
OnNode(r) == {q \in Ranks : SameNode(r, q)}

Neighbor(r, q) ==
  [rank |-> q, man_dist |-> ManDist(r, q),
   vlen_mults |-> \A d \in Dims : table[1][q].local[d] % job.fold[d] = 0,
   shm |-> q # r /\ opts[r].use_shm /\ SameNode(r, q)]

NoNeighbor == [rank |-> NoRank, man_dist |-> 0, vlen_mults |-> FALSE, shm |-> FALSE]

NeighborsOf(r) ==
  [n \in 0 .. TupleProduct(Neighborhood) - 1 |->
     LET there == {q \in Adjacent(r) : NeighborIndex(Delta(1, r, q)) = n}
     IN IF there = {} THEN NoNeighbor ELSE Neighbor(r, CHOOSE q \in there : TRUE)]

PlaceRank(r) ==
  /\ stage[r] = "place" /\ AllIn(1)
  /\ ~(SamePlace(1, r) \/ Unaligned(r) \/ WrongSum(r))
  /\ stage' = [stage EXCEPT ![r] = "placed"]
  /\ offset' = [offset EXCEPT ![r] = [d \in Dims |-> SumOver(1, Before(r, d), d)]]
  /\ near' = [near EXCEPT ![r] = NeighborsOf(r)]
  /\ UNCHANGED <<job, opts, table>>

RefusePlace(r) ==
  /\ stage[r] = "place" /\ AllIn(1)
  /\ SamePlace(1, r) \/ Unaligned(r) \/ WrongSum(r)
  /\ Fail(r)

-----------------------------------------------------------------------------
RankInit ==
  /\ job \in Jobs
  /\ stage = [r \in Ranks |-> "agree"]
  /\ opts = [r \in Ranks |-> job.opts[r + 1]]
  /\ table = [pass \in {0, 1} |-> <<>>]
  /\ offset = [r \in Ranks |-> [d \in Dims |-> 0]]
  /\ near = [r \in Ranks |-> <<>>]

SetupRank(r) ==
  \/ Agree(r)
  \/ SumSizes(r) \/ RefuseSizes(r)
  \/ PlaceRank(r) \/ RefusePlace(r)

-----------------------------------------------------------------------------
(* Once every rank has found its place they agree on the global domain,    *)
(* and their domains tile it: each point belongs to exactly one rank, and  *)
(* no rank, the last of a line included, is left without any.              *)
Holds(r, pt) == \A d \in Dims : pt[d] \in offset[r][d] .. offset[r][d] + opts[r].local[d] - 1

TilesGlobal ==
  (\A r \in Ranks : stage[r] = "placed") =>
    /\ \A r \in Ranks : opts[r].global = opts[0].global
    /\ \A r \in Ranks : \A d \in Dims : opts[r].local[d] > 0
    /\ TupleProduct(opts[0].global) = MapThenSumSet(LAMBDA r : TupleProduct(opts[r].local), Ranks)
    /\ \A pt \in ToSet(PointsOf(opts[0].global)) : \E r \in Ranks : Holds(r, pt)
=============================================================================
