---------------------------- MODULE HaloExchange ----------------------------
(***************************************************************************)
(* The time-step loop of a distributed stencil solution: every rank        *)
(* evaluates its part of the domain pack by pack (run_solution), marks     *)
(* what it wrote as dirty (update_vars) and exchanges the dirty halos with *)
(* its neighbours (exchange_halos), by MPI messages or through buffers in  *)
(* shared memory, optionally computing its interior while they travel.     *)
(*                                                                         *)
(* The ranks run the same program on a line of sub-domains and meet only   *)
(* in the messages.  Which variables are swapped, under which tag and for  *)
(* which steps is decided by each rank alone, from its own dirty flags and *)
(* its own window of valid steps.                                          *)
(*                                                                         *)
(* A value is the call that produced it and the step it belongs to.  One   *)
(* variable of one rank has, for every allocated step, four zones: what    *)
(* the left and the right neighbour own (halos "L" and "R"), the points    *)
(* its neighbours need ("ext", the MPI exterior) and the rest ("int").     *)
(***************************************************************************)
EXTENDS Integers, Sequences, SequencesExt

CONSTANTS
  NumRanks,    \* ranks on the line
  NumVars,     \* variables of the solution, numbered in order of name
  Alloc,       \* steps allocated for each variable
  MaxAlloc,    \* the largest of them
  HasStep,     \* whether a variable has the step dimension
  LeftHalo,    \* whether it has a halo on the left, and so receives
  RightHalo,   \*   from the left; likewise on the right
  Packs,       \* bundle packs, in order: what each reads and writes
  StepDir,     \* +1 or -1: the step a pack writes, relative to its own
  WfSteps,     \* wave-front steps done per exchange; 0 for one pack at once
  Overlap,     \* mpi_interior.bb_valid of each rank
  Shm,         \* Shm[r]: the rank on r's right shares r's memory
  Scripts,     \* sequences of API calls that the ranks may make
  TuneSteps    \* steps a rank may need to tune itself

Rank == 0 .. NumRanks - 1
Var == 1 .. NumVars
Slot == 0 .. MaxAlloc - 1
Side == {"L", "R"}
Zone == {"L", "ext", "int", "R"}
Pack == DOMAIN Packs

(* A call is made by every rank of the program, in the same order:         *)
(*   run      run_solution(first, last)                                    *)
(*   fill     set_all_elements_same of a var                               *)
(*   slice    set_elements_in_slice of all points the rank owns, at a step *)
(*   elems    set_element of each of these points                          *)
(*   point    set_element of one point, that one rank owns, at a step      *)
(*   tune     run_auto_tuner_now                                           *)
(*   prepare  prepare_solution again                                       *)
(*   end      end_solution                                                 *)
Kind == {"run", "fill", "slice", "elems", "point", "tune", "prepare", "end"}
Call == [kind : Kind, var : Var, rank : Rank, first : Int, last : Int]

PackType == [reads : SUBSET [var : Var, ofs : Int, halo : BOOLEAN],
             writes : SUBSET Var,
             skip : SUBSET Int]

ASSUME HaloAssumption ==
  /\ NumRanks \in Nat \ {0, 1}
  /\ NumVars \in Nat \ {0}
  /\ MaxAlloc \in Nat \ {0}
  /\ Alloc \in [Var -> 1 .. MaxAlloc]
  /\ HasStep \in [Var -> BOOLEAN]
  /\ LeftHalo \in [Var -> BOOLEAN]
  /\ RightHalo \in [Var -> BOOLEAN]
  /\ Packs \in Seq(PackType)
  /\ Len(Packs) > 0
  /\ \A p \in DOMAIN Packs : \A v \in Packs[p].writes : HasStep[v]
  /\ StepDir \in {1, -1}
  /\ WfSteps \in Nat
  /\ Overlap \in [Rank -> BOOLEAN]
  /\ Shm \in [Rank -> BOOLEAN]
  /\ Scripts \subseteq Seq(Call)
  /\ TuneSteps \subseteq Nat \ {0}

(* A var without the step dimension has its storage once.                  *)
ASSUME AllocAssumption == \A v \in Var : ~HasStep[v] => Alloc[v] = 1

(* run_solution() takes its direction from the order of its two indices, so *)
(* it always has steps to do.  The runs go the way of the solution.        *)
ASSUME RunsAssumption ==
  \A scr \in Scripts : \A k \in DOMAIN scr : scr[k].kind = "run" =>
    IF StepDir > 0 THEN scr[k].first <= scr[k].last ELSE scr[k].first >= scr[k].last

VARIABLES
  script,      \* the calls all ranks make
  op,          \* per rank: the call it is at
  pc,          \* per rank: where it is in that call
  step,        \* per rank: start_t of the step loop
  pack,        \* per rank: the pack it evaluates
  first,       \* per rank and var: first valid step (_local_offsets)
  dirty,       \* per rank and var: slots whose halos are out of date
  swap,        \* per rank and var: first and last step being swapped
  todo,        \* per rank: what is left of the exchange sequence
  data,        \* per rank, var, slot and zone: the value there
  sendReq,     \* per rank, var and side: state of an MPI_Request
  recvReq,
  sendBuf,     \* per rank, var and side: packed values
  recvBuf,
  full,        \* the lock of a send buffer in shared memory: written, unread
  chan,        \* per rank and side: messages sent and not yet received
  posted,      \* per rank and side: receives posted and not yet matched
  trail        \* history, per rank: its exchanges, each with what it swaps and
               \*   the evaluations whose results were published by then

calc == <<script, op, pc, step, pack, trail>>
meta == <<first, dirty>>
reqs == <<sendReq, recvReq>>
bufs == <<sendBuf, recvBuf, full>>
net == <<chan, posted>>
vars == <<calc, meta, swap, todo, data, reqs, bufs, net>>

-----------------------------------------------------------------------------
(* Neighbours and buffers.                                                 *)

Opp(s) == IF s = "L" THEN "R" ELSE "L"
HasNbr(r, s) == IF s = "L" THEN r > 0 ELSE r < NumRanks - 1
Nbr(r, s) == IF s = "L" THEN r - 1 ELSE r + 1
UsesShm(r, s) == IF s = "L" THEN Shm[r - 1] ELSE Shm[r]

(* A rank receives into its halo and sends what its neighbour's halo needs.*)
RecvBuf(v, s) == IF s = "L" THEN LeftHalo[v] ELSE RightHalo[v]
SendBuf(v, s) == IF s = "L" THEN RightHalo[v] ELSE LeftHalo[v]

HasMpiData(r, v) ==
  \E s \in Side : HasNbr(r, s) /\ (RecvBuf(v, s) \/ SendBuf(v, s))

(* Steps of a variable: the slot of a step, the window of valid steps, and *)
(* how a write moves it.                                                   *)
Wrap(v, t) == IF HasStep[v] THEN t % Alloc[v] ELSE 0
Window(v, f) == IF HasStep[v] THEN f .. f + Alloc[v] - 1 ELSE {0}
StepOf(v, t) == IF HasStep[v] THEN t ELSE 0

UpdateValidStep(v, f, t) ==
  CASE HasStep[v] /\ t < f -> t
    [] HasStep[v] /\ t > f + Alloc[v] - 1 -> t - Alloc[v] + 1
    [] OTHER -> f

(* The same for consecutive steps a, ..., b, in either direction: only the *)
(* two ends matter.                                                        *)
UpdateValidSteps(v, f, a, b) == UpdateValidStep(v, UpdateValidStep(v, f, a), b)

(* The last and the first of a set of steps; 0 if there are none.          *)
High(S) == IF \E x \in S : \A y \in S : x >= y
           THEN CHOOSE x \in S : \A y \in S : x >= y ELSE 0
Low(S) == IF \E x \in S : \A y \in S : x <= y
          THEN CHOOSE x \in S : \A y \in S : x <= y ELSE 0

-----------------------------------------------------------------------------
(* Values, and how a range w of steps of a var is packed and unpacked.     *)

Value == [gen : Int, step : Int]
Garbage == [gen |-> -1, step |-> 0]    \* never written by the program

NoSteps == [first |-> 0, last |-> -1]
NumSteps(w) == IF w.first <= w.last THEN w.last - w.first + 1 ELSE 0

(* In the order of the steps.                                              *)
PackSteps(d, v, w, z) ==
  [k \in 1 .. NumSteps(w) |-> d[v][Wrap(v, w.first + k - 1)][z]]

(* A message that is too short leaves what the buffer held behind it.      *)
Unpacked(d, v, w, z, b) ==
  [n \in Slot |->
     LET K == {k \in 1 .. NumSteps(w) : Wrap(v, w.first + k - 1) = n}
     IN  IF K = {} THEN d[v][n]
         ELSE [d[v][n] EXCEPT ![z] = IF High(K) \in DOMAIN b
                                     THEN b[High(K)] ELSE Garbage]]

-----------------------------------------------------------------------------
(* What an evaluation covers: one pack at one step or, with wave fronts,   *)
(* all packs over several steps.                                           *)

CurCall(r) == script[op[r]]
Stride == IF WfSteps = 0 THEN 1 ELSE WfSteps
Selected(r) == IF WfSteps = 0 THEN {pack[r]} ELSE Pack

(* stop_t, and the steps from start_t to it: the last chunk may be short.  *)
StopT(r) ==
  LET stop == step[r] + StepDir * Stride
      end == CurCall(r).last + StepDir
  IN  IF (StepDir > 0) = (stop < end) THEN stop ELSE end
StepsMutant(r) == IF StepDir > 0 THEN step[r] .. StopT(r) - 2
                                 ELSE StopT(r) + 2 .. step[r]
Steps(r) == IF StepDir > 0 THEN step[r] .. StopT(r) - 1
                           ELSE StopT(r) + 1 .. step[r]

OutVars(r) == UNION {Packs[p].writes : p \in Selected(r)}
OutSteps(r) == {t + StepDir : t \in Steps(r)}

(* update_vars() moves the window and sets the dirty flags of every output *)
(* var, of the packs whose step condition is false too.                    *)
FirstAfter(r) ==
  [v \in Var |-> IF v \in OutVars(r)
                  THEN UpdateValidSteps(v, first[r][v], step[r] + StepDir, StopT(r))
                  ELSE first[r][v]]
DirtyWith(r, T) ==
  [v \in Var |-> [n \in Slot |->
     \/ dirty[r][v][n]
     \/ v \in OutVars(r) /\ \E t \in T : Wrap(v, t) = n]]
DirtyAfterMutant(r) == DirtyWith(r, Steps(r))       \* the steps read
DirtyAfter(r) == DirtyWith(r, OutSteps(r))

(* The zones Z of the vars after the evaluation: of the steps that share a *)
(* slot the last one stays.  A pack writes nothing at a step it skips.     *)
Computed(r, v) ==
  {t + StepDir : t \in {x \in Steps(r) : \E p \in Selected(r) :
                          v \in Packs[p].writes /\ x \notin Packs[p].skip}}
DataAfter(r, Z) ==
  [v \in Var |-> [n \in Slot |->
     LET U == {u \in Computed(r, v) : Wrap(v, u) = n}
         u == IF StepDir > 0 THEN High(U) ELSE Low(U)
     IN  [z \in Zone |-> IF U # {} /\ z \in Z
                          THEN [gen |-> op[r], step |-> u]
                          ELSE data[r][v][n][z]]]]

-----------------------------------------------------------------------------
(* What exchange_halos() does: which vars it swaps, the tag of each, and   *)
(* the things to do for each var and neighbour, in order.                  *)

SwapOf(r, fst, drt) ==
  [v \in Var |->
     LET D == {t \in Window(v, fst[v]) : drt[v][Wrap(v, t)]}
     IN  IF HasMpiData(r, v) /\ D # {}
         THEN [first |-> Low(D), last |-> High(D)] ELSE NoSteps]

Swapped(w) == w.first <= w.last
TagMutant(r, v) ==   \* in an order that is not the same on all ranks
  Cardinality({u \in IF r % 2 = 0 THEN 1 .. v ELSE v .. NumVars :
                 Swapped(swap[r][u])})
Tag(r, v) == Cardinality({u \in 1 .. v : Swapped(swap[r][u])})

HaloIrecv == 1
HaloPackIsend == 2
HaloUnpack == 3
HaloFinal == 4

Item == [act : {HaloIrecv, HaloPackIsend, HaloUnpack, HaloFinal},
         var : Var, side : Side]

BeforeMutant(i, j) ==   \* unpacks before it sends
  \/ i.act = HaloUnpack /\ j.act # HaloUnpack
  \/ i.act < j.act /\ j.act # HaloUnpack
  \/ i.act = j.act /\ i.var < j.var
  \/ i.act = j.act /\ i.var = j.var /\ i.side = "L" /\ j.side = "R"
Before(i, j) ==
  \/ i.act < j.act
  \/ i.act = j.act /\ i.var < j.var
  \/ i.act = j.act /\ i.var = j.var /\ i.side = "L" /\ j.side = "R"

IsHead(r, a, v, s) ==
  LET i == [act |-> a, var |-> v, side |-> s]
  IN  i \in todo[r] /\ \A j \in todo[r] \ {i} : Before(i, j)

(* The flags do_mpi_left/right and do_mpi_interior choose the things to do *)
(* now; the ones that have no effect are left out.                         *)
ItemDue(r, i, exterior, interior) ==
  /\ HasNbr(r, i.side)
  /\ \/ exterior /\ i.act = HaloIrecv
        /\ RecvBuf(i.var, i.side) /\ ~UsesShm(r, i.side)
     \/ exterior /\ i.act = HaloPackIsend /\ SendBuf(i.var, i.side)
     \/ interior /\ i.act = HaloUnpack /\ RecvBuf(i.var, i.side)
     \/ interior /\ i.act = HaloFinal

TodoWith(sw, I) == {i \in I : Swapped(sw[i.var])}
TodoOfMutant1(r, sw, exterior, interior) ==   \* cleans only what it sends
  TodoWith(sw, {i \in Item : ItemDue(r, i, exterior, interior)
                                /\ (i.act = HaloFinal => SendBuf(i.var, i.side))})
TodoOfMutant2(r, sw, exterior, interior) ==   \* no final phase
  TodoWith(sw, {i \in Item : ItemDue(r, i, exterior, interior) /\ i.act # HaloFinal})
TodoOf(r, sw, exterior, interior) ==
  TodoWith(sw, {i \in Item : ItemDue(r, i, exterior, interior)})

(* The evaluations a rank has published: its history says.                 *)
Evals(r) == IF trail[r] = <<>> THEN 0 ELSE Last(trail[r]).evals

(* An exchange in two halves is one of the history; "done" is 1 if it      *)
(* publishes an evaluation.                                                *)
StartExchange(r, fst, drt, exterior, interior, done) ==
  LET sw == SwapOf(r, fst, drt)
  IN  /\ swap' = [swap EXCEPT ![r] = sw]
      /\ todo' = [todo EXCEPT ![r] = TodoOf(r, sw, exterior, interior)]
      /\ trail' = IF exterior
                   THEN [trail EXCEPT ![r] = Append(@, [swap |-> sw, evals |-> Evals(r) + done])]
                   ELSE trail

Done(r, a, v, s) ==
  todo' = [todo EXCEPT ![r] = @ \ {[act |-> a, var |-> v, side |-> s]}]

-----------------------------------------------------------------------------
Nothing == [r \in Rank |-> [v \in Var |-> [s \in Side |-> <<>>]]]
NullReqs == [r \in Rank |-> [v \in Var |-> [s \in Side |-> "null"]]]

(* A prepared solution: storage allocated, all slots dirty, the windows at *)
(* step 0, and every rank has initialised what it owns but not its halos.  *)
Init ==
  /\ script \in Scripts
  /\ op = [r \in Rank |-> 1]
  /\ pc = [r \in Rank |-> "call"]
  /\ step = [r \in Rank |-> 0]
  /\ pack = [r \in Rank |-> 1]
  /\ first = [r \in Rank |-> [v \in Var |-> 0]]
  /\ dirty = [r \in Rank |-> [v \in Var |-> [n \in Slot |-> TRUE]]]
  /\ swap = [r \in Rank |-> [v \in Var |-> NoSteps]]
  /\ todo = [r \in Rank |-> {}]
  /\ data = [r \in Rank |-> [v \in Var |-> [n \in Slot |-> [z \in Zone |->
               IF z \in Side THEN Garbage ELSE [gen |-> 0, step |-> n]]]]]
  /\ sendReq = NullReqs
  /\ recvReq = NullReqs
  /\ sendBuf = Nothing
  /\ recvBuf = Nothing
  /\ full = [r \in Rank |-> [v \in Var |-> [s \in Side |-> FALSE]]]
  /\ chan = [r \in Rank |-> [s \in Side |-> <<>>]]
  /\ posted = [r \in Rank |-> [s \in Side |-> <<>>]]
  /\ trail = [r \in Rank |-> <<>>]

-----------------------------------------------------------------------------
(* run_solution().                                                         *)

Calling(r, kind) ==
  /\ pc[r] = "call"
  /\ op[r] <= Len(script)
  /\ CurCall(r).kind = kind

Returns(r) ==
  /\ op' = [op EXCEPT ![r] = @ + 1]
  /\ pc' = [pc EXCEPT ![r] = "call"]

(* The initial exchange of whatever is dirty.                              *)
BeginRun(r) ==
  /\ Calling(r, "run")
  /\ pc' = [pc EXCEPT ![r] = "exch_init"]
  /\ step' = [step EXCEPT ![r] = CurCall(r).first]
  /\ pack' = [pack EXCEPT ![r] = 1]
  /\ StartExchange(r, first[r], dirty[r], TRUE, TRUE, 0)
  /\ UNCHANGED <<script, op, meta, data, reqs, bufs, net>>

NextPack(r) ==
  IF WfSteps = 0 /\ pack[r] < Len(Packs)
  THEN /\ pack' = [pack EXCEPT ![r] = @ + 1]
       /\ pc' = [pc EXCEPT ![r] = "packs"]
       /\ UNCHANGED <<op, step>>
  ELSE /\ pack' = [pack EXCEPT ![r] = 1]
       /\ IF StopT(r) # CurCall(r).last + StepDir
          THEN /\ step' = [step EXCEPT ![r] = StopT(r)]
               /\ pc' = [pc EXCEPT ![r] = "packs"]
               /\ UNCHANGED op
          ELSE /\ Returns(r)
               /\ UNCHANGED step

SkipsMutant(r) ==   \* asks for the step it writes
  WfSteps = 0 /\ step[r] + StepDir \in Packs[pack[r]].skip
Skips(r) == WfSteps = 0 /\ step[r] \in Packs[pack[r]].skip

SkipPack(r) ==
  /\ pc[r] = "packs"
  /\ Skips(r)
  /\ NextPack(r)
  /\ UNCHANGED <<script, trail, meta, swap, todo, data, reqs, bufs, net>>

(* With overlap: the exterior, then the first half of the exchange.        *)
EvalExterior(r) ==
  /\ pc[r] = "packs"
  /\ ~Skips(r)
  /\ Overlap[r]
  /\ data' = [data EXCEPT ![r] = DataAfter(r, {"ext"})]
  /\ first' = [first EXCEPT ![r] = FirstAfter(r)]
  /\ dirty' = [dirty EXCEPT ![r] = DirtyAfter(r)]
  /\ StartExchange(r, FirstAfter(r), DirtyAfter(r), TRUE, FALSE, 1)
  /\ pc' = [pc EXCEPT ![r] = "exch_ext"]
  /\ UNCHANGED <<script, op, step, pack, reqs, bufs, net>>

(* Then the interior, which marks nothing dirty, and the other half.       *)
EvalInterior(r) ==
  /\ pc[r] = "inner"
  /\ data' = [data EXCEPT ![r] = DataAfter(r, {"int"})]
  /\ first' = [first EXCEPT ![r] = FirstAfter(r)]
  /\ StartExchange(r, FirstAfter(r), dirty[r], FALSE, TRUE, 0)
  /\ pc' = [pc EXCEPT ![r] = "exch_int"]
  /\ UNCHANGED <<script, op, step, pack, dirty, reqs, bufs, net>>

(* Without: the whole rank, then the whole exchange.                       *)
EvalAll(r) ==
  /\ pc[r] = "packs"
  /\ ~Skips(r)
  /\ ~Overlap[r]
  /\ data' = [data EXCEPT ![r] = DataAfter(r, {"ext", "int"})]
  /\ first' = [first EXCEPT ![r] = FirstAfter(r)]
  /\ dirty' = [dirty EXCEPT ![r] = DirtyAfter(r)]
  /\ StartExchange(r, FirstAfter(r), DirtyAfter(r), TRUE, TRUE, 1)
  /\ pc' = [pc EXCEPT ![r] = "exch_all"]
  /\ UNCHANGED <<script, op, step, pack, reqs, bufs, net>>

(* exchange_halos() returns.                                               *)
ExchangeDone(r) ==
  /\ pc[r] \in {"exch_init", "exch_ext", "exch_int", "exch_all", "exch_end"}
  /\ todo[r] = {}
  /\ swap' = [swap EXCEPT ![r] = [v \in Var |-> NoSteps]]
  /\ \/ /\ pc[r] = "exch_init"
        /\ pc' = [pc EXCEPT ![r] = "packs"]
        /\ UNCHANGED <<op, step, pack>>
     \/ /\ pc[r] = "exch_ext"
        /\ pc' = [pc EXCEPT ![r] = "inner"]
        /\ UNCHANGED <<op, step, pack>>
     \/ /\ pc[r] = "exch_end"
        /\ pc' = [pc EXCEPT ![r] = "barrier"]
        /\ UNCHANGED <<op, step, pack>>
     \/ /\ pc[r] \in {"exch_int", "exch_all"}
        /\ NextPack(r)
  /\ UNCHANGED <<script, trail, meta, todo, data, reqs, bufs, net>>

-----------------------------------------------------------------------------
(* exchange_halos(), for one var and one neighbour at a time.              *)

Irecv(r, v, s) ==
  /\ IsHead(r, HaloIrecv, v, s)
  /\ Done(r, HaloIrecv, v, s)
  /\ recvReq' = [recvReq EXCEPT ![r][v][s] = "active"]
  /\ posted' = [posted EXCEPT ![r][s] =
                  Append(@, [tag |-> Tag(r, v), var |-> v, steps |-> swap[r][v]])]
  /\ UNCHANGED <<calc, meta, swap, data, sendReq, bufs, chan>>

(* The points a neighbour needs are in the exterior.  MPI does not see the *)
(* number of the exchange, nor does the code: it is for the proofs.        *)
PackIsend(r, v, s) ==
  /\ IsHead(r, HaloPackIsend, v, s)
  /\ ~UsesShm(r, s)
  /\ Done(r, HaloPackIsend, v, s)
  /\ sendBuf' = [sendBuf EXCEPT ![r][v][s] = PackSteps(data[r], v, swap[r][v], "ext")]
  /\ sendReq' = [sendReq EXCEPT ![r][v][s] = "active"]
  /\ chan' = [chan EXCEPT ![r][s] =
                Append(@, [tag |-> Tag(r, v), var |-> v, steps |-> swap[r][v],
                           exch |-> Len(trail[r]), eager |-> FALSE, data |-> <<>>])]
  /\ UNCHANGED <<calc, meta, swap, data, recvReq, recvBuf, full, posted>>

(* The lock of a send buffer, as wait_for_ok_to_write() of its owner and   *)
(* wait_for_ok_to_read() of its neighbour see it.                          *)
OkToWrite(r, v, s) == ~full[r][v][s]
OkToReadMutant(r, v, s) == TRUE
OkToRead(r, v, s) == full[r][v][s]

PackShm(r, v, s) ==
  /\ IsHead(r, HaloPackIsend, v, s)
  /\ UsesShm(r, s)
  /\ OkToWrite(r, v, s)
  /\ Done(r, HaloPackIsend, v, s)
  /\ sendBuf' = [sendBuf EXCEPT ![r][v][s] = PackSteps(data[r], v, swap[r][v], "ext")]
  /\ full' = [full EXCEPT ![r][v][s] = TRUE]
  /\ UNCHANGED <<calc, meta, swap, data, reqs, recvBuf, net>>

(* Unpacking writes through set_elements_in_slice(), which marks the steps *)
(* as dirty and moves the window.                                          *)
Unpack(r, v, s, b) ==
  LET w == swap[r][v]
  IN  /\ data' = [data EXCEPT ![r][v] = Unpacked(data[r], v, w, s, b)]
      /\ first' = [first EXCEPT ![r][v] = UpdateValidSteps(v, @, w.first, w.last)]
      /\ dirty' = [dirty EXCEPT ![r][v] =
                     [n \in Slot |-> @[n] \/ \E t \in w.first .. w.last : Wrap(v, t) = n]]

UnpackMpi(r, v, s) ==
  /\ IsHead(r, HaloUnpack, v, s)
  /\ ~UsesShm(r, s)
  /\ recvReq[r][v][s] # "active"          \* MPI_Wait()
  /\ Done(r, HaloUnpack, v, s)
  /\ Unpack(r, v, s, recvBuf[r][v][s])
  /\ recvReq' = [recvReq EXCEPT ![r][v][s] = "null"]
  /\ UNCHANGED <<calc, swap, sendReq, bufs, net>>

UnpackShm(r, v, s) ==
  /\ IsHead(r, HaloUnpack, v, s)
  /\ UsesShm(r, s)
  /\ OkToRead(Nbr(r, s), v, Opp(s))
  /\ Done(r, HaloUnpack, v, s)
  /\ Unpack(r, v, s, sendBuf[Nbr(r, s)][v][Opp(s)])
  /\ full' = [full EXCEPT ![Nbr(r, s)][v][Opp(s)] = FALSE]
  /\ UNCHANGED <<calc, swap, reqs, sendBuf, recvBuf, net>>

CleanedMutant(w) == w.first .. w.last - 1
Cleaned(w) == w.first .. w.last

FinalMutant(r, v, s) ==   \* does not wait for the send
  /\ IsHead(r, HaloFinal, v, s)
  /\ Done(r, HaloFinal, v, s)
  /\ dirty' = [dirty EXCEPT ![r][v] =
                 [n \in Slot |-> @[n] /\ \A t \in Cleaned(swap[r][v]) : Wrap(v, t) # n]]
  /\ UNCHANGED <<calc, first, swap, data, reqs, bufs, net>>

(* Marks the swapped steps clean, once the send has finished.              *)
Final(r, v, s) ==
  /\ IsHead(r, HaloFinal, v, s)
  /\ sendReq[r][v][s] # "active"          \* MPI_Wait()
  /\ Done(r, HaloFinal, v, s)
  /\ sendReq' = [sendReq EXCEPT ![r][v][s] = "null"]
  /\ dirty' = [dirty EXCEPT ![r][v] =
                 [n \in Slot |-> @[n] /\ \A t \in Cleaned(swap[r][v]) : Wrap(v, t) # n]]
  /\ UNCHANGED <<calc, first, swap, data, recvReq, bufs, net>>

(* poke_halo_exchange(), called from the threads that compute a rank: the  *)
(* requests that have completed are freed.                                 *)
Poke(r) ==
  /\ pc[r] = "inner"
  /\ \E v \in Var, s \in Side : "complete" \in {sendReq[r][v][s], recvReq[r][v][s]}
  /\ sendReq' = [sendReq EXCEPT ![r] = [v \in Var |-> [s \in Side |->
                   IF @[v][s] = "complete" THEN "null" ELSE @[v][s]]]]
  /\ recvReq' = [recvReq EXCEPT ![r] = [v \in Var |-> [s \in Side |->
                   IF @[v][s] = "complete" THEN "null" ELSE @[v][s]]]]
  /\ UNCHANGED <<calc, meta, swap, todo, data, bufs, net>>

-----------------------------------------------------------------------------
(* The MPI library, as the program relies on it: of the messages from one  *)
(* rank to another with one tag, the first not yet received meets the      *)
(* first receive not yet matched.                                          *)

FirstWith(q, k) == \A j \in 1 .. k - 1 : q[j].tag # q[k].tag

(* r gets message k that its neighbour on side s sent, for receive i.      *)
Deliver(r, s) ==
  /\ HasNbr(r, s)
  /\ LET q == Nbr(r, s)
         d == Opp(s)
     IN  \E i \in DOMAIN posted[r][s], k \in DOMAIN chan[q][d] :
           LET p == posted[r][s][i]
               m == chan[q][d][k]
           IN  /\ p.tag = m.tag
               /\ FirstWith(posted[r][s], i)
               /\ FirstWith(chan[q][d], k)
               /\ recvBuf' = [recvBuf EXCEPT ![r][p.var][s] =
                                IF m.eager THEN m.data ELSE sendBuf[q][m.var][d]]
               /\ recvReq' = [recvReq EXCEPT ![r][p.var][s] = "complete"]
               /\ sendReq' = IF m.eager THEN sendReq
                             ELSE [sendReq EXCEPT ![q][m.var][d] = "complete"]
               /\ posted' = [posted EXCEPT ![r][s] = RemoveAt(@, i)]
               /\ chan' = [chan EXCEPT ![q][d] = RemoveAt(@, k)]
  /\ UNCHANGED <<calc, meta, swap, todo, data, sendBuf, full>>

(* The library may copy a message and complete its send before that.       *)
Eager(r, s) ==
  /\ \E k \in DOMAIN chan[r][s] :
       LET m == chan[r][s][k]
       IN  /\ ~m.eager
           /\ chan' = [chan EXCEPT ![r][s][k] =
                         [m EXCEPT !.eager = TRUE, !.data = sendBuf[r][m.var][s]]]
           /\ sendReq' = [sendReq EXCEPT ![r][m.var][s] = "complete"]
  /\ UNCHANGED <<calc, meta, swap, todo, data, recvReq, bufs, posted>>

-----------------------------------------------------------------------------
(* The other calls.                                                        *)

(* set_all_elements_same() covers every slot, halos included.              *)
Fill(r) ==
  /\ Calling(r, "fill")
  /\ LET v == CurCall(r).var
     IN  /\ data' = [data EXCEPT ![r][v] = [n \in Slot |-> [z \in Zone |->
                       [gen |-> op[r], step |-> 0]]]]
         /\ dirty' = [dirty EXCEPT ![r][v] = [n \in Slot |-> TRUE]]
  /\ Returns(r)
  /\ UNCHANGED <<script, step, pack, trail, first, swap, todo, reqs, bufs, net>>

(* The own points of a var at step c.first of call c.                      *)
OwnZonesSet(r, c, Z) ==
  [data EXCEPT ![r][c.var][Wrap(c.var, c.first)] =
    [z \in Zone |-> IF z \in Z THEN [gen |-> op[r], step |-> StepOf(c.var, c.first)]
                               ELSE @[z]]]

DirtyMarked(r, c) == [dirty EXCEPT ![r][c.var][Wrap(c.var, c.first)] = TRUE]

(* set_elements_in_slice() goes through set_dirty(), which moves the window. *)
SetSlice(r) ==
  /\ Calling(r, "slice")
  /\ LET c == CurCall(r)
     IN  /\ data' = OwnZonesSet(r, c, {"ext", "int"})
         /\ dirty' = DirtyMarked(r, c)
         /\ first' = [first EXCEPT ![r][c.var] = UpdateValidStep(c.var, @, c.first)]
  /\ Returns(r)
  /\ UNCHANGED <<script, step, pack, trail, swap, todo, reqs, bufs, net>>

(* set_element() sets the flag of the slot itself and leaves the window.   *)
SetElems(r) ==
  /\ Calling(r, "elems")
  /\ data' = OwnZonesSet(r, CurCall(r), {"ext", "int"})
  /\ dirty' = DirtyMarked(r, CurCall(r))
  /\ Returns(r)
  /\ UNCHANGED <<script, step, pack, trail, first, swap, todo, reqs, bufs, net>>

(* On a rank that does not hold the point it returns 0 and changes nothing. *)
SetPoint(r) ==
  /\ Calling(r, "point")
  /\ IF r = CurCall(r).rank
     THEN /\ data' = OwnZonesSet(r, CurCall(r), {"int"})
          /\ dirty' = DirtyMarked(r, CurCall(r))
     ELSE UNCHANGED <<data, dirty>>
  /\ Returns(r)
  /\ UNCHANGED <<script, step, pack, trail, first, swap, todo, reqs, bufs, net>>

(* run_auto_tuner_now() evaluates all packs at steps 0, 1, ..., until this *)
(* rank's tuner has converged, with exchanges and step conditions off, and *)
(* then waits for the other ranks.                                         *)
Tune(r, k) ==
  /\ Calling(r, "tune")
  /\ LET written == UNION {Packs[p].writes : p \in Pack}
         outs == {StepDir * i : i \in 1 .. k * Stride}
         end == StepDir * k * Stride
     IN  /\ first' = [first EXCEPT ![r] = [v \in Var |->
                        IF v \in written THEN UpdateValidSteps(v, @[v], StepDir, end)
                                         ELSE @[v]]]
         /\ dirty' = [dirty EXCEPT ![r] = [v \in Var |-> [n \in Slot |->
                        \/ @[v][n]
                        \/ v \in written /\ \E t \in outs : Wrap(v, t) = n]]]
         /\ data' = [data EXCEPT ![r] = [v \in Var |-> [n \in Slot |-> [z \in Zone |->
                       IF /\ v \in written /\ z \in {"ext", "int"}
                          /\ \E t \in outs : Wrap(v, t) = n
                       THEN Garbage ELSE @[v][n][z]]]]]
  /\ pc' = [pc EXCEPT ![r] = "barrier"]
  /\ UNCHANGED <<script, op, step, pack, trail, swap, todo, reqs, bufs, net>>

BeginPrepare(r) ==
  /\ Calling(r, "prepare")
  /\ pc' = [pc EXCEPT ![r] = "barrier"]
  /\ UNCHANGED <<script, op, step, pack, trail, meta, swap, todo, data, reqs, bufs, net>>

(* end_solution() exchanges what is dirty before it waits for the others.  *)
BeginEnd(r) ==
  /\ Calling(r, "end")
  /\ pc' = [pc EXCEPT ![r] = "exch_end"]
  /\ StartExchange(r, first[r], dirty[r], TRUE, TRUE, 0)
  /\ UNCHANGED <<script, op, step, pack, meta, data, reqs, bufs, net>>

(* Rank q has come to place p of the call that r is at, or is past it.     *)
Reached(q, r, P) == op[q] > op[r] \/ (op[q] = op[r] /\ pc[q] \in P)

GlobalBarrierMutant(r, P) == TRUE
GlobalBarrier(r, P) == \A q \in Rank : Reached(q, r, P)

(* The buffers and their locks go, and in prepare_solution() are made anew. *)
ReleaseMpiData(r) ==
  /\ sendReq' = [sendReq EXCEPT ![r] = NullReqs[r]]
  /\ recvReq' = [recvReq EXCEPT ![r] = NullReqs[r]]
  /\ sendBuf' = [sendBuf EXCEPT ![r] = Nothing[r]]
  /\ recvBuf' = [recvBuf EXCEPT ![r] = Nothing[r]]
  /\ full' = [full EXCEPT ![r] = [v \in Var |-> [s \in Side |-> FALSE]]]

LeaveBarrier(r) ==
  /\ pc[r] = "barrier"
  /\ GlobalBarrier(r, {"barrier", "alloc_barrier", "shm_barrier"})
  /\ \/ /\ CurCall(r).kind = "tune"
        /\ Returns(r)
        /\ UNCHANGED <<reqs, bufs>>
     \/ /\ CurCall(r).kind = "end"
        /\ Returns(r)
        /\ ReleaseMpiData(r)
     \/ /\ CurCall(r).kind = "prepare"
        /\ pc' = [pc EXCEPT ![r] = "alloc_barrier"]
        /\ ReleaseMpiData(r)
        /\ UNCHANGED op
  /\ UNCHANGED <<script, step, pack, trail, meta, swap, todo, data, net>>

(* allocMpiData() begins with a barrier of all ranks and ends with one of  *)
(* the ranks that share memory.                                            *)
LeaveAllocBarrier(r) ==
  /\ pc[r] = "alloc_barrier"
  /\ GlobalBarrier(r, {"alloc_barrier", "shm_barrier"})
  /\ pc' = [pc EXCEPT ![r] = "shm_barrier"]
  /\ UNCHANGED <<script, op, step, pack, trail, meta, swap, todo, data, reqs, bufs, net>>

SharesMemory(q, r) == \A k \in Rank : (q <= k /\ k < r) \/ (r <= k /\ k < q) => Shm[k]

LeaveShmBarrier(r) ==
  /\ pc[r] = "shm_barrier"
  /\ \A q \in Rank : SharesMemory(q, r) => Reached(q, r, {"shm_barrier"})
  /\ Returns(r)
  /\ UNCHANGED <<script, step, pack, trail, meta, swap, todo, data, reqs, bufs, net>>

-----------------------------------------------------------------------------
(* One thread of each rank runs the program.                               *)
RankStep(r) ==
  \/ BeginRun(r)
  \/ SkipPack(r)
  \/ EvalExterior(r)
  \/ EvalInterior(r)
  \/ EvalAll(r)
  \/ ExchangeDone(r)
  \/ \E v \in Var, s \in Side :
       \/ Irecv(r, v, s)
       \/ PackIsend(r, v, s)
       \/ PackShm(r, v, s)
       \/ UnpackMpi(r, v, s)
       \/ UnpackShm(r, v, s)
       \/ Final(r, v, s)
  \/ Fill(r)
  \/ SetSlice(r)
  \/ SetElems(r)
  \/ SetPoint(r)
  \/ \E k \in TuneSteps : Tune(r, k)
  \/ BeginPrepare(r)
  \/ BeginEnd(r)
  \/ LeaveBarrier(r)
  \/ LeaveAllocBarrier(r)
  \/ LeaveShmBarrier(r)

Finished == \A r \in Rank : op[r] > Len(script)

Next ==
  \/ \E r \in Rank : RankStep(r) \/ Poke(r)
  \/ \E r \in Rank, s \in Side : Deliver(r, s) \/ Eager(r, s)
  \/ Finished /\ UNCHANGED vars

Spec == Init /\ [][Next]_vars

(* Each rank keeps running unless it has to wait, and MPI completes what   *)
(* is matched.  Nothing is assumed of Eager (a library need not buffer) or *)
(* of Poke (a rank with few blocks may never test).                        *)
Fairness ==
  /\ \A r \in Rank : WF_vars(RankStep(r))
  /\ \A r \in Rank, s \in Side : WF_vars(Deliver(r, s))

FairSpec == Spec /\ Fairness

-----------------------------------------------------------------------------
SwapRange == [first : Int, last : Int]
Request == {"null", "active", "complete"}
Posting == [tag : Nat, var : Var, steps : SwapRange]
Message == [tag : Nat, var : Var, steps : SwapRange, exch : Nat, eager : BOOLEAN,
            data : Seq(Value)]
ExchangeRecord == [swap : [Var -> SwapRange], evals : Nat]

(* A rank has things to do only with the neighbours it has.                *)
TodoType == {f \in [Rank -> SUBSET Item] :
               \A r \in Rank : \A i \in f[r] : HasNbr(r, i.side)}

TypeOK ==
  /\ script \in Scripts
  /\ op \in [Rank -> Nat \ {0}]
  /\ pc \in [Rank -> {"call", "packs", "inner", "exch_init", "exch_ext", "exch_int",
                      "exch_all", "exch_end", "barrier", "alloc_barrier", "shm_barrier"}]
  /\ step \in [Rank -> Int]
  /\ pack \in [Rank -> Pack]
  /\ first \in [Rank -> [Var -> Int]]
  /\ dirty \in [Rank -> [Var -> [Slot -> BOOLEAN]]]
  /\ swap \in [Rank -> [Var -> SwapRange]]
  /\ todo \in TodoType
  /\ data \in [Rank -> [Var -> [Slot -> [Zone -> Value]]]]
  /\ sendReq \in [Rank -> [Var -> [Side -> Request]]]
  /\ recvReq \in [Rank -> [Var -> [Side -> Request]]]
  /\ sendBuf \in [Rank -> [Var -> [Side -> Seq(Value)]]]
  /\ recvBuf \in [Rank -> [Var -> [Side -> Seq(Value)]]]
  /\ full \in [Rank -> [Var -> [Side -> BOOLEAN]]]
  /\ chan \in [Rank -> [Side -> Seq(Message)]]
  /\ posted \in [Rank -> [Side -> Seq(Posting)]]
  /\ trail \in [Rank -> Seq(ExchangeRecord)]

(* A rank that is inside a call has one to be inside of.                   *)
InCall == \A r \in Rank : pc[r] # "call" => op[r] \in DOMAIN script

(* What an evaluation is about to read of its own points is there: every   *)
(* input value is of the step the pack asks for.  With wave fronts the     *)
(* inputs that the same chunk of steps produces are computed redundantly   *)
(* and are not looked at here.                                             *)
RightStep(x, v, t) ==
  \/ x.gen > 0 /\ script[x.gen].kind = "fill"
  \/ x.gen >= 0 /\ x.step = StepOf(v, t)

PackReads(r) ==
  UNION {Packs[p].reads : p \in {x \in Selected(r) : step[r] \notin Packs[x].skip}}

StepsFresh ==
  \A r \in Rank : pc[r] \in {"packs", "inner"} => \A rd \in PackReads(r) :
    LET v == rd.var
        t == step[r] + rd.ofs
        own == IF pc[r] = "inner" /\ WfSteps > 0 THEN {"int"} ELSE {"ext", "int"}
        made == WfSteps > 0 /\ v \in OutVars(r) /\ t \in OutSteps(r)
    IN  ~made => \A z \in own : RightStep(data[r][v][Wrap(v, t)][z], v, t)

(* And every halo point the pack reads holds the value its owner has, even *)
(* though the owner may already be one evaluation further.                 *)
HalosFresh ==
  \A r \in Rank : pc[r] = "packs" => \A rd \in PackReads(r) :
    LET v == rd.var
        n == Wrap(v, step[r] + rd.ofs)
    IN  rd.halo => \A s \in Side : HasNbr(r, s) /\ RecvBuf(v, s) =>
          data[r][v][n][s] = data[r][v][n]["ext"]

(* A tag is the position of a var among the ones being swapped, counted by *)
(* each rank for itself: the message and the receive that MPI will match   *)
(* are of the same var and the same steps.                                 *)
MatchAgrees ==
  \A r \in Rank, s \in Side : HasNbr(r, s) =>
    LET P == posted[r][s]
        M == chan[Nbr(r, s)][Opp(s)]
    IN  \A i \in DOMAIN P, k \in DOMAIN M :
          P[i].tag = M[k].tag /\ FirstWith(P, i) /\ FirstWith(M, k) =>
            P[i].var = M[k].var /\ P[i].steps = M[k].steps

(* A buffer is not handed to MPI while MPI still owns it.                  *)
NoBufferReuse ==
  \A r \in Rank, v \in Var, s \in Side :
    /\ IsHead(r, HaloIrecv, v, s) => recvReq[r][v][s] = "null"
    /\ IsHead(r, HaloPackIsend, v, s) => sendReq[r][v][s] = "null"

(* No call returns with a request of its own open, and when every rank is  *)
(* between the same two calls nothing is in flight, in MPI or in shared    *)
(* memory.                                                                 *)
QuietBetweenCalls ==
  /\ \A r \in Rank : pc[r] = "call" =>
       \A v \in Var, s \in Side :
         sendReq[r][v][s] = "null" /\ recvReq[r][v][s] = "null" /\ posted[r][s] = <<>>
  /\ (\A r \in Rank : pc[r] = "call" /\ op[r] = op[0]) =>
       \A r \in Rank, s \in Side :
         chan[r][s] = <<>> /\ \A v \in Var : ~full[r][v][s]

(* "All ranks must have the same information about which vars are possibly *)
(* dirty" (context.cpp:403-405): wherever two ranks stand at the same point *)
(* of the program, they would swap the same vars and steps.                *)
SamePlace(r, q) ==
  /\ op[r] = op[q]
  /\ pc[r] = pc[q]
  /\ \/ pc[r] = "call"
     \/ pc[r] = "packs" /\ step[r] = step[q] /\ pack[r] = pack[q]

DirtyAgreement ==
  \A r, q \in Rank : SamePlace(r, q) =>
    SwapOf(r, first[r], dirty[r]) = SwapOf(q, first[q], dirty[q])

(* run_solution() leaves no halo out of date: at its end nothing that can  *)
(* be exchanged is dirty, and the halos of every slot agree with what the  *)
(* owner computed.                                                         *)
CoherentAfterRun ==
  \A r \in Rank : pc[r] = "call" /\ op[r] > 1 /\ script[op[r] - 1].kind = "run" =>
    \A v \in Var, n \in Slot : n < Alloc[v] /\ HasMpiData(r, v) =>
      /\ ~dirty[r][v][n]
      /\ \A s \in Side : HasNbr(r, s) /\ RecvBuf(v, s) =>
           data[r][v][n][s] = data[r][v][n]["ext"]

(* No rank uses, or has still to read, a shared buffer of a rank that has  *)
(* released it in a later or the same call.                                *)
Released(q, k) ==
  \/ op[q] > k /\ script[k].kind \in {"prepare", "end"}
  \/ op[q] = k /\ pc[q] \in {"alloc_barrier", "shm_barrier"}

ReleasedBuffersUnused ==
  \A r, q \in Rank, k \in DOMAIN script :
    todo[r] # {} /\ op[r] <= k => ~Released(q, k)

(* Where every pack writes a var that is exchanged both ways, neighbours   *)
(* keep each other in step.                                                *)
Sync == INSTANCE NeighborSync WITH
          done <- [r \in Rank |-> Evals(r)],
          Nbrs <- [r \in Rank |-> {q \in Rank : q = r - 1 \/ q = r + 1}]

NeighborsInStep == Sync!Spec

(* Every rank comes to the end of the program: no rank waits for ever for  *)
(* a message, a buffer or a request.                                       *)
Terminates == <>Finished
=============================================================================
