----------------------------- MODULE EqBundles ------------------------------
(***************************************************************************)
(* How the stencil compiler turns equations into a schedule: it finds the  *)
(* dependencies between equations, closes and orders them, gathers         *)
(* equations into bundles and bundles into packs, closes and orders those, *)
(* and widens the halos of the vars that scratch equations read.           *)
(*                                                                         *)
(* Equations, bundles and packs are numbered in the order of creation; a   *)
(* bundle is a set of equations and a pack a set of bundles.  The objects  *)
(* with dependencies are visited in the order of an unordered_set of       *)
(* pointers, so in any order.                                              *)
(***************************************************************************)
EXTENDS DepGraph

CONSTANTS
  Vars,        \* logical vars: the vars with any constant indices
  VarOf(_),    \* the var of a logical var
  ScratchVars, \* those that are temporary
  Programs     \* the solutions given to the compiler

(* A program, whose equations have passed the checks of their form, has    *)
(* for every equation e the logical var lhs[e] it updates, the points      *)
(* reads[e] on its right-hand side, its step condition step_cond[e] and    *)
(* key[e]: what else must agree within a bundle (bundle name, domain       *)
(* condition, step expression, dims of a scratch var).  A point is of a    *)
(* var, at step offset dt and at domain offsets "at".  The equations       *)
(* update step t + dir of their vars.  "user" has the dependencies         *)
(* declared with add_flow_dependency(), and find_deps says whether the     *)
(* compiler looks for more.                                                *)
ASSUME ProgramsOK ==
  /\ ScratchVars \subseteq Vars
  /\ \A p \in Programs :
       /\ p.lhs \in Seq(Vars)
       /\ p.dims \in Nat /\ p.dir \in {-1, 1}
       /\ p.user \subseteq (DOMAIN p.lhs) \X (DOMAIN p.lhs)
       /\ \A e \in DOMAIN p.lhs :
            /\ {r.var : r \in p.reads[e]} \subseteq Vars
            /\ \A r \in p.reads[e] : r.dt \in Int /\ DOMAIN r.at = 1 .. p.dims

Levels == {"eqs", "bundles", "packs"}
Phases == {"analyze", "close", "sort", "group", "done", "error"}

VARIABLES
  prog,   \* the program being compiled
  phase,  \* what the compiler is doing ...
  level,  \* ... to which group
  order,  \* order[l]: the objects of group l, in their present order
  items,  \* items[l]: what each object of group l gathers
  imm,    \* immediate dependencies of each group
  scr,    \* scratch objects that each non-scratch object needs
  full,   \* the dependencies find_all_deps() has found
  posn,   \* position topo_sort() has reached
  todo,   \* positions of the objects still to be put into bundles or packs
  halo    \* the accesses recorded for the halos of the vars

vars == <<prog, phase, level, order, items, imm, scr, full, posn, todo, halo>>

-----------------------------------------------------------------------------
(* Equations.                                                              *)

Eqs == DOMAIN prog.lhs

IsScratchEq(e) == prog.lhs[e] \in ScratchVars

(* Equation e2 reads what e1 writes at the same step, or through a scratch *)
(* var, at any point and under any condition.                              *)
ReadsFrom(p, e2, e1) ==
  \E r \in p.reads[e2] : r.var = p.lhs[e1] /\ (r.dt = p.dir \/ r.var \in ScratchVars)

(* Equation e reads the very point it writes.                              *)
ReadsItself(p, e) ==
  \E r \in p.reads[e] : /\ r.var = p.lhs[e]
                        /\ r.dt = p.dir \/ r.var \in ScratchVars
                        /\ \A d \in DOMAIN r.at : r.at[d] = 0

(* Errors: two equations that update the same var under the same           *)
(* conditions, an equation that reads the point it writes and, where       *)
(* dependencies are looked for, one that reads any point of that step.     *)
Illegal(p) ==
  \/ \E e1, e2 \in Eqs : /\ e1 # e2
                         /\ p.lhs[e1] = p.lhs[e2]
                         /\ p.key[e1] = p.key[e2]
                         /\ p.step_cond[e1] = p.step_cond[e2]
  \/ \E e \in Eqs : ReadsItself(p, e) \/ (p.find_deps /\ ReadsFrom(p, e, e))

ReadsOfOthers(p) ==
  UNION {{<<e, f>> : f \in {f \in Eqs : ReadsFrom(p, e, f)}} : e \in Eqs}
ImmDeps(p) == p.user \cup IF p.find_deps THEN ReadsOfOthers(p) ELSE {}

(* Mutant: only those read directly.                                       *)
ScratchDepsMutant(deps) ==
  {d \in deps : ~IsScratchEq(d[1]) /\ IsScratchEq(d[2])}

(* The paths from non-scratch equations through scratch ones only.         *)
ScratchPaths(deps) ==
  {p \in UNION {VisitDeps(deps, e) : e \in {e \in Eqs : ~IsScratchEq(e)}} :
     \A i \in 2 .. Len(p) : IsScratchEq(p[i])}

(* A path may not meet two equations of one scratch var.                   *)
ScratchVarTwice(deps) ==
  \E p \in ScratchPaths(deps) : \E i \in 2 .. Len(p) - 1 :
    VarOf(prog.lhs[p[i]]) = VarOf(prog.lhs[Last(p)])

(* The scratch equations each non-scratch one needs.                       *)
ScratchDeps(deps) ==
  {<<Head(p), Last(p)>> : p \in {p \in ScratchPaths(deps) : Len(p) > 1}}

-----------------------------------------------------------------------------
(* Bundles and packs.                                                      *)

(* Mutant: the wrong direction only.                                       *)
IndependentMutant(l, x, ys) == \A y \in ys : <<y, x>> \notin full[l]

Independent(l, x, ys) == \A y \in ys : <<x, y>> \notin full[l] /\ <<y, x>> \notin full[l]

(* A bundle takes an equation of its kind that depends on none of its own  *)
(* and on which none depends.                                              *)
BundleTakes(b, e) ==
  /\ \A f \in b : /\ IsScratchEq(f) = IsScratchEq(e)
                  /\ prog.key[f] = prog.key[e]
                  /\ prog.step_cond[f] = prog.step_cond[e]
  /\ Independent("eqs", e, b)

IsScratchBundle(b) == \E e \in items["bundles"][b] : IsScratchEq(e)
StepCond(b) == prog.step_cond[CHOOSE e \in items["bundles"][b] : TRUE]

PackTakes(k, b) ==
  /\ \A c \in k : /\ IsScratchBundle(c) = IsScratchBundle(b)
                  /\ StepCond(c) = StepCond(b)
  /\ Independent("bundles", b, k)

(* The first lot that takes x gets it; if none does there is a new one.    *)
AddTo(lots, takers, x) ==
  IF takers = {} THEN Append(lots, {x})
  ELSE [lots EXCEPT ![Min(takers)] = @ \cup {x}]

-----------------------------------------------------------------------------
(* Halos.  What updateHalo() has recorded is a set of accesses             *)
(* <<v, k, t, o>>: pack k accesses var v at step offset t and at domain    *)
(* offsets o.                                                              *)

PackEqs(k) == UNION {items["bundles"][b] : b \in items["packs"][k]}

LeftOf(offs)  == [d \in 1 .. prog.dims |-> Max({0} \cup {-o[d] : o \in offs})]
RightOf(offs) == [d \in 1 .. prog.dims |-> Max({0} \cup {o[d] : o \in offs})]
Offsets(h, v, k) == {a[4] : a \in {a \in h : a[1] = v /\ a[2] = k}}
Left(pt, dist)  == [d \in DOMAIN pt |-> pt[d] - dist[d]]
Right(pt, dist) == [d \in DOMAIN pt |-> pt[d] + dist[d]]

(* The points an equation reads, and the one it writes.                    *)
Touched(e) ==
  prog.reads[e] \cup {[var |-> prog.lhs[e], dt |-> IF IsScratchEq(e) THEN 0 ELSE prog.dir,
                       at |-> [d \in 1 .. prog.dims |-> 0]]}

ImmAccesses ==
  UNION {UNION {{<<VarOf(r.var), k, r.dt, r.at>> : r \in Touched(e)} : e \in PackEqs(k)} :
         k \in DOMAIN items["packs"]}

(* Mutant: vars of one bundle keep halos of their own.                     *)
ThroughScratchMutant(h, k, b) ==
  LET eqs  == items["bundles"][b]
      out  == VarOf(prog.lhs[CHOOSE e \in eqs : TRUE])
      area == Offsets(h, out, k)
      ins  == UNION {prog.reads[e] : e \in eqs}
  IN h \cup {<<VarOf(r.var), k, r.dt, Left(r.at, LeftOf(area))>> : r \in ins}
       \cup {<<VarOf(r.var), k, r.dt, Right(r.at, RightOf(area))>> : r \in ins}

(* One scratch bundle on a path from a bundle of pack k.  All its vars are *)
(* written over the same area, the widest of their halos, so what it reads *)
(* must be that much wider.                                                *)
ThroughScratch(h, k, b) ==
  LET eqs   == items["bundles"][b]
      outs  == {VarOf(prog.lhs[e]) : e \in eqs}
      same  == h \cup UNION {{[a EXCEPT ![1] = v] : v \in outs} : a \in {a \in h : a[1] \in outs}}
      area  == Offsets(same, CHOOSE v \in outs : TRUE, k)
      ins   == UNION {prog.reads[e] : e \in eqs}
  IN same \cup {<<VarOf(r.var), k, r.dt, Left(r.at, LeftOf(area))>> : r \in ins}
          \cup {<<VarOf(r.var), k, r.dt, Right(r.at, RightOf(area))>> : r \in ins}

(* The scratch bundles that follow the first bundle of a path unbroken.    *)
ScratchChain(path) ==
  LET n == CHOOSE n \in 1 .. Len(path) :
             /\ \A i \in 2 .. n : IsScratchBundle(path[i])
             /\ n = Len(path) \/ ~IsScratchBundle(path[n + 1])
  IN SubSeq(path, 2, n)

(* Every path starts from the immediate accesses, in halos of its own; in  *)
(* the end a var has the widest of them.                                   *)
CalcHalos ==
  LET imm_accesses == ImmAccesses
      along(k, path) == FoldLeft(LAMBDA h, b : ThroughScratch(h, k, b),
                                 imm_accesses, ScratchChain(path))
      starts == {s \in (DOMAIN items["packs"]) \X (DOMAIN items["bundles"]) :
                   s[2] \in items["packs"][s[1]] /\ ~IsScratchBundle(s[2])}
  IN imm_accesses
     \cup UNION {UNION {along(s[1], p) : p \in {p \in VisitDeps(imm["bundles"], s[2]) :
                                                 ScratchChain(p) # <<>>}} : s \in starts}

-----------------------------------------------------------------------------
Init ==
  /\ prog \in Programs
  /\ phase = "analyze"
  /\ level = "eqs"
  /\ order = [l \in Levels |-> <<>>]
  /\ items = [l \in Levels |-> <<>>]
  /\ imm  = [l \in Levels |-> {}]
  /\ scr  = [l \in Levels |-> {}]
  /\ full = [l \in Levels |-> {}]
  /\ posn = 1
  /\ todo = {}
  /\ halo = {}

Rejected == Illegal(prog) \/ ScratchVarTwice(ImmDeps(prog))

AnalyzeEqs ==
  /\ phase = "analyze"
  /\ ~Rejected
  /\ order' = [order EXCEPT !["eqs"] = [e \in Eqs |-> e]]
  /\ imm' = [imm EXCEPT !["eqs"] = ImmDeps(prog)]
  /\ scr' = [scr EXCEPT !["eqs"] = ScratchDeps(ImmDeps(prog))]
  /\ phase' = "close"
  /\ UNCHANGED <<prog, level, items, full, posn, todo, halo>>

RejectEqs ==
  /\ phase = "analyze"
  /\ Rejected
  /\ phase' = "error"
  /\ UNCHANGED <<prog, level, order, items, imm, scr, full, posn, todo, halo>>

(* find_all_deps(): only objects without full dependencies are walked      *)
(* from.  A walk from an object with no dependency but itself adds none.   *)
ToVisit == {d[1] : d \in {d \in imm[level] :
                            d[1] # d[2] /\ \A f \in full[level] : f[1] # d[1]}}

FindDepsFrom(a) ==
  /\ phase = "close"
  /\ a \in ToVisit
  /\ full' = [full EXCEPT ![level] = @ \cup DepsFrom(imm[level], a)]
  /\ UNCHANGED <<prog, phase, level, order, items, imm, scr, posn, todo, halo>>

EndFindDeps ==
  /\ phase = "close"
  /\ ToVisit = {}
  /\ phase' = "sort"
  /\ posn' = 1
  /\ UNCHANGED <<prog, level, order, items, imm, scr, full, todo, halo>>

(* topo_sort(): the later objects that the one at posn depends on.         *)
(* (Mutant: the scan starts one too late.)                                 *)
LaterDepsMutant ==
  {j \in posn + 2 .. Len(order[level]) :
     <<order[level][posn], order[level][j]>> \in full[level]}
LaterDeps ==
  {j \in posn + 1 .. Len(order[level]) :
     <<order[level][posn], order[level][j]>> \in full[level]}
Sorting == phase = "sort" /\ posn < Len(order[level])
(* Mutant: the sort does not look for circular dependencies.               *)
MutualDepMutant(j) == FALSE
MutualDep(j) == <<order[level][j], order[level][posn]>> \in full[level]

SwapLater ==
  /\ Sorting
  /\ LaterDeps # {}
  /\ LET j == Min(LaterDeps)
     IN /\ ~MutualDep(j)
        /\ order' = [order EXCEPT ![level] = Swap(@, posn, j)]
  /\ UNCHANGED <<prog, phase, level, items, imm, scr, full, posn, todo, halo>>

CircularError ==
  /\ Sorting
  /\ LaterDeps # {}
  /\ MutualDep(Min(LaterDeps))
  /\ phase' = "error"
  /\ UNCHANGED <<prog, level, order, items, imm, scr, full, posn, todo, halo>>

NextPosn ==
  /\ Sorting
  /\ LaterDeps = {}
  /\ posn' = posn + 1
  /\ UNCHANGED <<prog, phase, level, order, items, imm, scr, full, todo, halo>>

Sorted == phase = "sort" /\ posn >= Len(order[level])

StartBundles ==
  /\ Sorted /\ level = "eqs"
  /\ phase' = "group"
  /\ todo' = DOMAIN order["eqs"]
  /\ UNCHANGED <<prog, level, order, items, imm, scr, full, posn, halo>>

StartPacks ==
  /\ Sorted /\ level = "bundles"
  /\ phase' = "group"
  /\ todo' = DOMAIN order["bundles"]
  /\ UNCHANGED <<prog, level, order, items, imm, scr, full, posn, halo>>

(* Scratch equations are put into bundles first, bundles into packs as     *)
(* they come.                                                              *)
NextPlace ==
  LET scratch == {i \in todo : level = "eqs" /\ IsScratchEq(order["eqs"][i])}
  IN Min(IF scratch # {} THEN scratch ELSE todo)

NextEq == order["eqs"][NextPlace]
NextBundle == order["bundles"][NextPlace]
BundlesFor(e) == {k \in DOMAIN items["bundles"] : BundleTakes(items["bundles"][k], e)}
PacksFor(b) == {k \in DOMAIN items["packs"] : PackTakes(items["packs"][k], b)}

AddEqToBundle ==
  /\ phase = "group" /\ level = "eqs" /\ todo # {}
  /\ items' = [items EXCEPT !["bundles"] = AddTo(@, BundlesFor(NextEq), NextEq)]
  /\ todo' = todo \ {NextPlace}
  /\ UNCHANGED <<prog, phase, level, order, imm, scr, full, posn, halo>>

AddBundleToPack ==
  /\ phase = "group" /\ level = "bundles" /\ todo # {}
  /\ items' = [items EXCEPT !["packs"] = AddTo(@, PacksFor(NextBundle), NextBundle)]
  /\ todo' = todo \ {NextPlace}
  /\ UNCHANGED <<prog, phase, level, order, imm, scr, full, posn, halo>>

(* inherit_deps_from(): the new group takes over the dependencies.         *)
Coarser == [eqs |-> "bundles", bundles |-> "packs"]

InheritDepsFrom ==
  /\ phase = "group" /\ todo = {}
  /\ LET up == Coarser[level]
     IN /\ level' = up
        /\ order' = [order EXCEPT ![up] = [k \in DOMAIN items[up] |-> k]]
        /\ imm' = [imm EXCEPT ![up] = InheritDeps(items[up], imm[level])]
        /\ scr' = [scr EXCEPT ![up] = InheritDeps(items[up], scr[level])]
  /\ phase' = "close"
  /\ UNCHANGED <<prog, items, full, posn, todo, halo>>

Finish ==
  /\ Sorted /\ level = "packs"
  /\ halo' = CalcHalos
  /\ phase' = "done"
  /\ UNCHANGED <<prog, level, order, items, imm, scr, full, posn, todo>>

Compile ==
  \/ AnalyzeEqs
  \/ RejectEqs
  \/ \E a \in Eqs : FindDepsFrom(a)
  \/ EndFindDeps
  \/ SwapLater
  \/ CircularError
  \/ NextPosn
  \/ StartBundles
  \/ StartPacks
  \/ AddEqToBundle
  \/ AddBundleToPack
  \/ InheritDepsFrom
  \/ Finish

Stopped == phase \in {"done", "error"}

Next == Compile \/ (Stopped /\ UNCHANGED vars)

Spec == Init /\ [][Next]_vars /\ WF_vars(Compile)

-----------------------------------------------------------------------------
(* The walks find every dependency, whichever objects they start from and  *)
(* in whatever order, as long as the immediate ones have no cycle.  The    *)
(* walks skip objects that an earlier walk went through.                   *)
ClosureExact ==
  phase \notin {"analyze", "close"} /\ Acyclic(imm[level])
    => full[level] = Closure(imm[level])

(* Once a group is sorted no object stands before one it has been found to *)
(* depend on, whatever the dependencies, and the order of the group is not *)
(* touched again: swaps undo nothing that earlier positions rely on.       *)
GroupNum == [eqs |-> 1, bundles |-> 2, packs |-> 3]
OrderSettled(l) ==
  \/ GroupNum[l] < GroupNum[level]
  \/ l = level /\ phase \in {"group", "done"}
InOrderUpTo(l, n) ==
  \A i, j \in DOMAIN order[l] :
    i < j /\ i < n => <<order[l][i], order[l][j]>> \notin full[l]
SortedAsFound == \A l \in Levels : OrderSettled(l) => InOrderUpTo(l, Len(order[l]))

(* No two equations of a bundle, and no two bundles of a pack, depend on   *)
(* each other, however indirectly: they are run together or in any order.  *)
NoneDepends(lots, deps) ==
  LET depends == Closure(deps)
  IN \A k \in DOMAIN lots : \A x, y \in lots[k] : <<x, y>> \notin depends
LotsIndependent ==
  /\ Acyclic(imm["eqs"]) => NoneDepends(items["bundles"], imm["eqs"])
  /\ Acyclic(imm["bundles"]) => NoneDepends(items["packs"], imm["bundles"])

(* The kernel runs the non-scratch packs in order and, for each bundle in  *)
(* one, the scratch bundles it needs, in order, then the bundle.           *)
HolderOf(l, x) == CHOOSE k \in DOMAIN items[l] : x \in items[l][k]
PosnOf(l, x) == CHOOSE i \in DOMAIN order[l] : order[l][i] = x
BundleOf(e) == HolderOf("bundles", e)
PackPosn(e) == PosnOf("packs", HolderOf("packs", BundleOf(e)))

RunsBefore(e, f) == PackPosn(e) < PackPosn(f)
InScratchOrder(e, s, t) ==
  /\ <<BundleOf(e), BundleOf(s)>> \in scr["bundles"]
  /\ t = e \/ PosnOf("bundles", BundleOf(s)) < PosnOf("bundles", BundleOf(t))

(* In an accepted program whose groups have no cycle, everything an        *)
(* equation uses is there when it is evaluated: what it reads at the same  *)
(* step and what its scratch equations read has been computed by an        *)
(* earlier pack, and its scratch equations run just before it, each after  *)
(* those it reads.                                                         *)
ScheduleSound ==
  phase = "done" /\ (\A l \in Levels : Acyclic(imm[l])) =>
    \A e \in {e \in Eqs : ~IsScratchEq(e)} :
      \A f \in {e} \cup DepsOn(scr["eqs"], e) :
        \A g \in DepsOn(imm["eqs"], f) :
          IF IsScratchEq(g) THEN InScratchOrder(e, g, f) ELSE RunsBefore(g, e)

(* The kernel evaluates a scratch bundle over the halo of one of the vars  *)
(* it writes.  If equations have no cycle, no scratch equation is left     *)
(* unused and none writes the scratch var of another, those vars all have  *)
(* the same halo, and what the bundle reads over that area lies within the *)
(* halos of the vars it reads, along every chain of scratch equations.     *)
(* With two equations for one scratch var (two of its constant indices) it *)
(* does not hold: the halo that one path gives the var is not passed on    *)
(* through the other equation.                                             *)
AllOffsets(v) == {a[4] : a \in {a \in halo : a[1] = VarOf(v)}}
ScratchUsed ==
  \A s \in {s \in Eqs : IsScratchEq(s)} : \E e \in Eqs : <<e, s>> \in scr["eqs"]
ScratchWrittenOnce ==
  \A s, t \in {s \in Eqs : IsScratchEq(s)} : s = t \/ VarOf(prog.lhs[s]) # VarOf(prog.lhs[t])
SameHalo(v, w) == /\ LeftOf(AllOffsets(v)) = LeftOf(AllOffsets(w))
                  /\ RightOf(AllOffsets(v)) = RightOf(AllOffsets(w))
Covers(s, r) ==
  \A d \in 1 .. prog.dims :
    /\ LeftOf(AllOffsets(r.var))[d] >= LeftOf(AllOffsets(prog.lhs[s]))[d] - r.at[d]
    /\ RightOf(AllOffsets(r.var))[d] >= RightOf(AllOffsets(prog.lhs[s]))[d] + r.at[d]
HaloClosed ==
  phase = "done" /\ ScratchUsed /\ ScratchWrittenOnce /\ Acyclic(imm["eqs"]) =>
    \A s \in {s \in Eqs : IsScratchEq(s)} :
      /\ \A t \in items["bundles"][BundleOf(s)] : SameHalo(prog.lhs[s], prog.lhs[t])
      /\ \A r \in prog.reads[s] : Covers(s, r)

(* Compilation ends: the sort does not swap for ever.                      *)
Terminates == <>Stopped
=============================================================================
