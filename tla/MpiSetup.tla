------------------------------ MODULE MpiSetup ------------------------------
(***************************************************************************)
(* From placed ranks to usable halo buffers: each rank sizes its vars,     *)
(* works out its buffers, allocates those it owns (the ones that ranks of  *)
(* its node read in a window of shared memory) and finds the others in the *)
(* windows of their owners.                                                *)
(*                                                                         *)
(* The collective calls that allocMpiData() makes on the communicator of a *)
(* node match by their order: the n-th call of a rank goes with the n-th   *)
(* call of the others, whatever it was meant for.                          *)
(***************************************************************************)
EXTENDS HaloBuffers

CONSTANTS
  BufPad,     \* elements left between buffers, for the lock
  CacheLine,  \* buffers start at its multiples
  LockSize    \* what a lock takes

ASSUME PadHoldsLock == LockSize \in Nat /\ BufPad >= LockSize /\ CacheLine > 0

VARIABLES
  bufs,     \* the buffers each rank has configured
  calls,    \* the collective calls on the node that it will make for them
  at,       \* where each buffer that has storage is
  locks,    \* buffers whose lock has been initialized
  offsets,  \* what each rank has been told of the offsets of the others
  entered,  \* how many of them each rank has entered ...
  left      \* ... and left

alloc_vars == <<bufs, calls, at, locks, offsets, entered, left>>
vars == <<rank_vars, alloc_vars>>

(* Storage.  Buffers for ranks of the node are in the window; a rank does  *)
(* not allocate those it receives in.                                      *)
Shm(r, k) == near[r][k[2]].shm
Mine(r, k) == ~(k[3] = "recv" /\ Shm(r, k))
Heap(r, k) == IF Shm(r, k) THEN "window" ELSE "private"
Bytes(r, k) == BoxSize(bufs[r][k].box) * job.vars[k[1]].steps

Earlier(j, k) ==
  \/ j[1] < k[1]
  \/ j[1] = k[1] /\ j[2] < k[2]
  \/ j[1] = k[1] /\ j[2] = k[2] /\ j[3] = "send" /\ k[3] = "recv"

(* Mutant: no room for the lock.                                           *)
PaddedMutant(bytes) == RoundUpFlr(bytes, CacheLine)
Padded(bytes) == RoundUpFlr(bytes + BufPad, CacheLine)

OwnKeys(r, heap) == {k \in DOMAIN bufs[r] : Mine(r, k) /\ Heap(r, k) = heap}
Taken(r, ks) == MapThenSumSet(LAMBDA k : Padded(Bytes(r, k)), ks)
HeapSize(r, heap) == Taken(r, OwnKeys(r, heap))
OffsetOf(r, k) == Taken(r, {j \in OwnKeys(r, Heap(r, k)) : Earlier(j, k)})
OwnPlace(r, k) == [owner |-> r, heap |-> Heap(r, k), ofs |-> OffsetOf(r, k)]

(* Where the rank at neighbour index n has this rank.                      *)
Mirror(n) == TupleProduct(Neighborhood) - 1 - n

-----------------------------------------------------------------------------
(* The collective calls of a rank on its node: it allocates the window if  *)
(* it has a buffer to put there, and shares the offsets of each var it has *)
(* buffers for, if it has a neighbour on the node.                         *)
Exchanged(r) == {v \in Vars : \E k \in DOMAIN bufs[r] : k[1] = v}
DoShm(r) == Exchanged(r) # {} /\ \E n \in DOMAIN near[r] : near[r][n].shm
VarsInOrder(S) == SetToSortSeq(S, <)

Barrier == [call |-> "barrier", var |-> 0]
Share1(v) == [call |-> "bcast", var |-> v]

(* Mutant: offsets are shared only for vars the rank itself has in the     *)
(* window.                                                                 *)
SharedVarsMutant(r) == {k[1] : k \in OwnKeys(r, "private")}

SharedVars(r) == IF DoShm(r) THEN Exchanged(r) ELSE {}

Calls(r) ==
  (IF OwnKeys(r, "window") # {} THEN <<[call |-> "win_allocate", var |-> 0]>> ELSE <<>>)
  \o <<Barrier>>
  \o [i \in DOMAIN VarsInOrder(SharedVars(r)) |-> Share1(VarsInOrder(SharedVars(r))[i])]
  \o <<Barrier, Barrier>>

-----------------------------------------------------------------------------
UpdateVarInfo(r) ==
  /\ stage[r] = "placed"
  /\ stage' = [stage EXCEPT ![r] = IF TooSmall(r) THEN "error" ELSE "sized"]
  /\ UNCHANGED <<job, opts, table, offset, near, alloc_vars>>

(* After a barrier of all ranks.                                           *)
ConfigureBuffers(r) ==
  /\ stage[r] = "sized"
  /\ \A q \in Ranks : stage[q] \in {"sized", "config", "alloc", "done"}
  /\ stage' = [stage EXCEPT ![r] = "config"]
  /\ UNCHANGED <<job, opts, table, offset, near, calls, at, locks, offsets, entered, left>>
  /\ bufs' = [bufs EXCEPT ![r] = BufsOf(r)]

(* Pass 0: what has to be allocated and shared.                            *)
CountStorage(r) ==
  /\ stage[r] = "config"
  /\ stage' = [stage EXCEPT ![r] = "alloc"]
  /\ calls' = [calls EXCEPT ![r] = Calls(r)]
  /\ UNCHANGED <<job, opts, table, offset, near, bufs, at, locks, offsets, entered, left>>

BarriersTo(r, n) == Cardinality({i \in 1 .. n : calls[r][i] = Barrier})

EnterCall(r) ==
  /\ stage[r] = "alloc"
  /\ entered[r] = left[r]
  /\ entered' = [entered EXCEPT ![r] = @ + 1]
  /\ UNCHANGED <<rank_vars, bufs, calls, at, locks, offsets, left>>

(* Pass 1, after the first barrier: storage and locks of one's own.        *)
PlaceOwn(r) ==
  LET mine == {k \in DOMAIN bufs[r] : Mine(r, k)}
  IN /\ at' = [at EXCEPT ![r] = [k \in mine |-> OwnPlace(r, k)]]
     /\ locks' = locks \cup {OwnPlace(r, k) : k \in mine}
     /\ UNCHANGED offsets

(* Pass 2, after the second: the windows of others, at the offsets they    *)
(* have told (0 if they have told nothing of the var).                     *)
ToldOffset(r, v, q) == IF <<v, q>> \in DOMAIN offsets[r] THEN offsets[r][<<v, q>>][r] ELSE 0

PlaceOthers(r) ==
  LET theirs == {k \in DOMAIN bufs[r] : ~Mine(r, k)}
      place(k) == LET q == near[r][k[2]].rank
                  IN [owner |-> q, heap |-> "window", ofs |-> ToldOffset(r, k[1], q)]
  IN /\ at' = [at EXCEPT ![r] = @ @@ [k \in theirs |-> place(k)]]
     /\ UNCHANGED <<locks, offsets>>

(* What a rank puts in the table: the offsets of its send buffers of a var.*)
OffsetRow(q, v) ==
  [r \in OnNode(q) |->
     LET ks == {k \in OwnKeys(q, "window") : k[1] = v /\ near[q][k[2]].rank = r}
     IN IF ks = {} THEN 0 ELSE OffsetOf(q, CHOOSE k \in ks : TRUE)]

HearOffsets(r, n) ==
  /\ offsets' = [offsets EXCEPT ![r] =
       [vq \in {calls[r][n].var} \X OnNode(r) |-> OffsetRow(vq[2], calls[vq[2]][n].var)] @@ @]
  /\ UNCHANGED <<at, locks>>

LeaveCall(r) ==
  /\ stage[r] = "alloc"
  /\ entered[r] > left[r]
  /\ left' = [left EXCEPT ![r] = @ + 1]
  /\ UNCHANGED <<job, opts, table, offset, near, bufs, calls, entered>>
  /\ LET n == entered[r]
         call == calls[r][n]
     IN /\ \A q \in OnNode(r) : entered[q] >= n /\ calls[q][n].call = call.call
        /\ CASE call.call = "bcast" -> HearOffsets(r, n)
             [] call = Barrier /\ BarriersTo(r, n) = 1 -> PlaceOwn(r)
             [] call = Barrier /\ BarriersTo(r, n) = 2 -> PlaceOthers(r)
             [] OTHER -> UNCHANGED <<at, locks, offsets>>
        /\ stage' = [stage EXCEPT ![r] = IF n = Len(calls[r]) THEN "done" ELSE @]

-----------------------------------------------------------------------------
Init ==
  /\ RankInit
  /\ bufs = [r \in Ranks |-> <<>>]
  /\ calls = [r \in Ranks |-> <<>>]
  /\ at = [r \in Ranks |-> <<>>]
  /\ locks = {}
  /\ offsets = [r \in Ranks |-> <<>>]
  /\ entered = [r \in Ranks |-> 0]
  /\ left = [r \in Ranks |-> 0]

Prepare ==
  \E r \in Ranks :
    \/ SetupRank(r) /\ UNCHANGED alloc_vars
    \/ UpdateVarInfo(r)
    \/ ConfigureBuffers(r)
    \/ CountStorage(r)
    \/ EnterCall(r)
    \/ LeaveCall(r)

Next == Prepare

Spec == Init /\ [][Next]_vars /\ WF_vars(Prepare)

-----------------------------------------------------------------------------
Configured == {r \in Ranks : stage[r] \in {"config", "alloc", "done"}}
NoCallYet == \A r \in Ranks : stage[r] \notin {"alloc", "done"}
Pairs == {rn \in Configured \X  (0 .. TupleProduct(Neighborhood) - 1) :
            rn[2] # MyIndex /\ near[rn[1]][rn[2]].rank \in Configured}
OtherSide(side) == IF side = "send" THEN "recv" ELSE "send"

SameBuffers ==
  \A rn \in Pairs : \A v \in Vars, side \in Sides :
    LET r == rn[1]
        q == near[r][rn[2]].rank
        k == <<v, rn[2], side>>
        m == <<v, Mirror(rn[2]), OtherSide(side)>>
    IN /\ near[q][Mirror(rn[2])].rank = r
       /\ k \in DOMAIN bufs[r] <=> m \in DOMAIN bufs[q]
       /\ k \in DOMAIN bufs[r] => bufs[r][k] = bufs[q][m]

VecsIn(r, k) ==
  TupleProduct([d \in Dims |->
     LET v == VarAt(r, k[1])
         span == bufs[r][k].box[d]
     IN Normalize(v, d, span.hi - 1) - Normalize(v, d, span.lo) + 1])
VecSize(r, k) == TupleProduct(VarAt(r, k[1]).var_vec)
AlignedRanks == \A r \in Ranks, d \in Dims : offset[r][d] % job.fold[d] = 0

VectorsFit ==
  AlignedRanks =>
    \A r \in Configured : \A k \in DOMAIN bufs[r] :
      bufs[r][k].vec_ok => VecsIn(r, k) * VecSize(r, k) = BoxSize(bufs[r][k].box)

(* Two neighbours agree on every buffer between them, although each works  *)
(* its own out alone: what one sends, the other receives, at the same      *)
(* points of the problem and both by vectors or both by elements (the data *)
(* come in another order), and neither has a buffer the other has not.     *)
(* And a buffer that is copied by vectors holds exactly the vectors it     *)
(* copies, if every rank starts at a multiple of the vector length: those  *)
(* of the storage that overlap its box are whole in it.  (The passes of    *)
(* allocMpiData(), alloc.cpp.)                                             *)
BuffersMatch == NoCallYet => SameBuffers /\ VectorsFit

(* Every point that a rank reads in its halo, up to the distance the       *)
(* equations read at (anywhere if there are wave fronts, whose extensions  *)
(* are evaluated, too), is sent to it by a rank that holds it.             *)
Home(r, v) == [d \in Dims |-> IF d \in job.vars[v].dims THEN Outer(r, v, d)
                                                        ELSE [lo |-> 0, hi |-> 1]]
Reach(r, v, d) ==
  LET home == Home(r, v)[d]
  IN IF d \notin job.vars[v].dims THEN home
     ELSE [lo |-> home.lo - IF IsFirst(r, d) THEN 0 ELSE job.vars[v].left_halo[d] + WfShift(r, d),
           hi |-> home.hi + IF IsLast(r, d) THEN 0 ELSE job.vars[v].right_halo[d] + WfShift(r, d)]
Away(pt, home) == Cardinality({d \in DOMAIN home : pt[d] \notin home[d].lo .. home[d].hi - 1})
PointsIn(box) ==
  {[d \in DOMAIN box |-> box[d].lo + pt[d]] :
     pt \in ToSet(PointsOf([d \in DOMAIN box |-> box[d].hi - box[d].lo]))}
HaloPoints(r, v) ==
  {pt \in PointsIn([d \in Dims |-> Reach(r, v, d)]) :
     Away(pt, Home(r, v)) \in 1 .. MaxDist(v)}

HalosCovered ==
  Configured = Ranks /\ NoCallYet =>
    \A r \in Ranks, v \in Vars : \A pt \in HaloPoints(r, v) :
      \E k \in DOMAIN bufs[r] :
        /\ k[1] = v /\ k[3] = "recv"
        /\ InBox(pt, bufs[r][k].box)
        /\ InBox(pt, Home(near[r][k[2]].rank, v))

(* A rank finds each buffer it receives in through shared memory at the    *)
(* place where its neighbour has the one it sends from, with its lock      *)
(* ready, and nothing in a window or heap overlaps, locks included.        *)
Overlap(r, j, k) ==
  /\ at[r][j].ofs < at[r][k].ofs + Bytes(r, k) + LockSize
  /\ at[r][k].ofs < at[r][j].ofs + Bytes(r, j) + LockSize
LikeNodeMates(r) == \A q \in OnNode(r) : SharedVars(q) = SharedVars(r)

BuffersShared ==
  \A r \in Configured : \A k \in DOMAIN at[r] :
    /\ stage[r] = "done" /\ Mine(r, k) =>
         /\ at[r][k].ofs + Bytes(r, k) + LockSize <= HeapSize(r, Heap(r, k))
         /\ \A j \in DOMAIN at[r] \ {k} :
              Mine(r, j) /\ Heap(r, j) = Heap(r, k) => ~Overlap(r, j, k)
    /\ ~Mine(r, k) /\ LikeNodeMates(r) =>
         LET q == near[r][k[2]].rank
         IN at[r][k] = OwnPlace(q, <<k[1], Mirror(k[2]), "send">>) /\ at[r][k] \in locks

(* Setup ends, in an error or with all buffers in place, if every rank     *)
(* that shares its node is right beside another rank of the node and the   *)
(* vars have all dimensions and halos on both sides.  Otherwise it may     *)
(* not: a rank without a buffer to share does not take part in the calls.  *)
Neighborly(j) ==
  \A v \in DOMAIN j.vars : \A d \in DOMAIN j.fold :
    d \in j.vars[v].dims /\ j.vars[v].left_halo[d] > 0 /\ j.vars[v].right_halo[d] > 0
      /\ j.vars[v].l1_norm > 0
Beside(r) == \E n \in DOMAIN near[r] : near[r][n].shm /\ near[r][n].man_dist = 1
NodesConnected ==
  \A r \in Configured : opts[r].use_shm /\ OnNode(r) # {r} => Beside(r)

Over == \/ \E r \in Ranks : stage[r] = "error"
        \/ \A r \in Ranks : stage[r] = "done"
        \/ ~NodesConnected
SetupEnds == Neighborly(job) => <>Over
=============================================================================
