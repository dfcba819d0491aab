# A TLA+ verification of YASK

YASK (Yet Another Stencil Kit) turns the description of a stencil into C++ and
runs it on many ranks, with threads, vectors, spatial tiles and temporal tiles.
This directory holds TLA+ models of the parts whose correctness depends on
order, on concurrency or on arithmetic at boundaries, the TLC configurations
that check them on small instances, and theorems that TLAPS checks for every
instance. Paths below are relative to the repository (`src/kernel/lib` for the
kernel library, `src/compiler/lib` for the compiler); `PROJECT.json` maps every
definition to the lines it stands for.

## 1. Inventory

### The system

| part | where | state it keeps | operations | how it meets the others |
|---|---|---|---|---|
| solution compiler: equations | `compiler/lib/Eqs.*`, `Solution.*` | equations, dependencies, bundles, packs | `analyzeEqs`, `makeEqBundles`, `optimizeEqBundles`, `makePacks`, `calcHalos` | reads the stencil's AST, decides the order the generated code computes in |
| compiler: AST and optimiser | `Expr.*`, `ExprUtils.*`, `Visitor.hpp` | expression trees | common sub-expressions, combining, reordering | rewrites what the generators print |
| compiler: vars | `Var.*`, `Settings.*` | halos, steps to allocate | `updateHalo`, `get_step_dim_size` | fixes the allocation the kernel wraps steps in |
| compiler: generators | `Cpp*`, `Vec`, `Print`, `YaskKernel` | text being written | print scalar and vector code | the kernel includes it |
| settings | `kernel/lib/settings.*` | sizes of rank, region, block, mini-block, sub-block | option parsing, `adjustSettings`, `findNumSubsets` | read by everything below; changed by the tuner |
| rank setup | `setup.cpp` | neighbours, shared-memory ranks, rank offsets | `setupRank` | ranks exchange their sizes over MPI |
| vars | `yk_var.*`, `yk_var_apis.cpp`, `generic_var.*` | data, first valid step, a dirty flag per step slot | get and set elements and slices, `resize`, `update_valid_step`, `set_dirty` | written by stencil code, by the APIs and by unpacking of halos |
| allocation | `alloc.cpp` | placed storage, MPI buffers, shared-memory windows | `allocVarData`, `allocMpiData`, `allocScratchData` | collective over the ranks of a node |
| step loop | `context.cpp` `run_solution` | step, pack, sections of the rank | chunks of steps, packs, exterior and interior | calls the tiles below and the exchange |
| tiles | `context.cpp` `calc_region`, `calc_block`, `calc_mini_block`, `shift_*` | shift counts, phases, indices | evaluate boxes of points in a skewed order | OpenMP threads, one per block of a phase |
| halo exchange | `context.cpp` `exchange_halos`, `poke_halo_exchange`, `update_vars` | requests, buffers, swap list | post, pack and send, unpack, finish | messages, or shared buffers with locks |
| shared-buffer lock | `utils.hpp` `SimpleLock`, `settings.hpp` `MPIBuf` | a write and a read counter | wait and mark, for each side | two ranks, memory only |
| bounding boxes | `setup.cpp` `find_bounding_box` | boxes of a bundle's sub-domain | scan and merge in parallel | clipped against every tile |
| stencil bundles | `stencil_calc.*` | per-bundle sub-domain and step condition | vector, cluster and scalar code | scratch bundles run first, per thread |
| auto-tuner | `auto_tuner.*` | center, best, radius, results | `eval`, `clear`, `apply` | called by the step loop after each stride; rewrites settings |
| common | `common/tuple.*`, `combo.cpp`, `idiv.hpp` | none | layout, floor division, combinations | used everywhere |
| loop generator | `utils/bin/gen_loops.pl` | none | writes the loops over tiles | included by `context.cpp` |
| scripts, driver, bindings, stencils | `yask_main.cpp`, `yask.sh`, `yask_tuner.pl`, `swig`, `stencils` | - | - | inputs and I/O around the library |

### What is hard, and what makes each part correct

* *Shared-buffer lock.* Two ranks meet in plain counters, one per side. Correct:
  never both inside, a message is read whole and once, neither spins for ever.
* *Halo exchange.* Each rank alone decides what to swap, for which steps and
  under which tag, from dirty flags and a window of valid steps that setters,
  the tuner and the step loop move. Correct: those decisions agree, inputs are
  fresh when a pack is evaluated, a buffer MPI owns is not packed, nothing is in
  flight between calls, and no order of waits and unpacks locks the ranks up.
* *Tiles.* Wave fronts shift regions, temporal blocks are trapezoids and the
  bridges between them, mini-blocks are skewed once more inside. Correct: every
  point is evaluated once per level, in an order the plain step loop's results
  allow, whatever the threads do, and the slabs sent first are final.
* *Tuner.* Sizes change while the solution runs. Correct: the search ends, at a
  local optimum, with the best measured sizes in force.
* *Vars.* Padding, layout, clipping and negative indices. Correct: whatever a
  vector, a masked vector, a pointer, scalar code or an API call touches is in
  storage, and all find the same element for a point.
* *Rank setup and allocation.* Every rank works out its place, its buffers and
  its part of a shared window alone. Correct: the domains tile the problem, what
  one side sends the other receives, every halo point read is received, and the
  collective calls of a node are the same on all its ranks.
* *Boxes and sub-blocks.* Boxes of a sub-domain are found by threads and cut
  into clusters, vectors, masked vectors and scalars. Correct: every point once,
  after the scratch points it reads.
* *Compiler.* Dependencies must be complete, bundles acyclic and in order, halos
  wide enough through scratch vars, and a var must keep enough steps. A vector
  that is not aligned must be put together from the right lanes.
* *Stencils.* Those that are written twice must stay the same stencil.

`PROJECT.json` lists each of these hazards at the line where it bites and the
properties that watch it, or why none does yet.

## 2. Modules

| module | models | checked by |
|---|---|---|
| `HandOff` | what a shared buffer promises: a place that holds one whole message or none | refined by `SimpleLock` |
| `SimpleLock` | the lock's counters and the element-wise copies between its marks | `SimpleLock` |
| `SimpleLockProofs` | its theorems | TLAPS |
| `NeighborSync` | what an exchange promises: neighbours are at most one evaluation apart | refined by `HaloExchange` |
| `HaloExchange` | the step loop and the exchange on a line of ranks | `HaloMpi`, `HaloShm` |
| `HaloExchangeProofs` | its types, its requests, the release of shared buffers, and that ranks go through one sequence of program states | TLAPS |
| `HaloMatchProofs` | what is on the way is what was sent and not received, the refinement of `NeighborSync`, and that messages carry, and halos hold, the values of the owner | TLAPS |
| `TilingGeometry` | settings, angles, widths and boxes: pure operators | through the next |
| `TemporalTiling` | one rank's chunk of steps: sections, regions, layers, phases, blocks | `Tiling`, `NarrowRemainder` |
| `TemporalTilingProofs` | blocks of a phase are independent, points are evaluated in turn and completely, slabs are final, and the refinement of `StencilOrder` | TLAPS |
| `StencilOrder` | what any order of evaluation must respect | refined by `TemporalTiling` |
| `StencilValues` | the values points hold when evaluated in such an order, and the reference run | `StencilValues` |
| `StencilValuesProofs` | how far apart points get in such an order, and that it gives the reference run's values | TLAPS |
| `AutoTuner` | the search for block sizes | `AutoTuner` |
| `AutoTunerProofs` | no size is measured twice, the best is put in force, and it is a local optimum | TLAPS |
| `Tuples` | integer division, layout of tuples, compact factors: pure operators | through the next |
| `TuplesProofs` | layouts of any sizes reach every point once; lemmas on recursive functions, on finite sets and functions, on partial sums and on lists put together by a fold | TLAPS |
| `VarLayout` | padding, allocation and addresses of a var, slices: pure operators | `SubBlocks`, `MpiSetup` |
| `RankSetup` | ranks agree on sizes and find their places and neighbours | `MpiSetup` |
| `HaloBuffers` | which boxes two neighbours exchange, and whether by vectors | `MpiSetup` |
| `MpiSetup` | the buffers of a job, placed in private and shared memory by collective calls | `MpiSetup` |
| `GenLoops` | the tiles and order of the loops `gen_loops.pl` writes | `SubBlocks` |
| `BoundingBoxes` | the search for the boxes of a sub-domain | `SubBlocks` |
| `VecReads` | how generated code reads the inputs of a vector | `SubBlocks` |
| `SubBlocks` | one bundle and its scratch bundle in a rank: mini-blocks, boxes, sub-blocks, vectors | `SubBlocks` |
| `DepGraph` | dependencies as sets of pairs, the walks over them, and what a closure is | through the next |
| `EqBundles` | the compiler from equations to a schedule of packs, and halos through scratch vars | `EqBundles` |
| `EqBundlesProofs` | what one walk finds in any finite graph without cycles; the closures, the sort, the lots and the schedule, for every program | TLAPS |
| `StencilForms` | vars, points, equations, conditions: what definitions are written with | through the next |
| `SimpleStencils`, `TestStencils`, `AwpStencils`, `ElasticStencils`, `Elastic2Stencils`, `TtiStencil` | the shipped stencils | `Solutions` |
| `Solutions` | the steps a var keeps, and a compiled solution run in that memory | `Solutions`, `StepReuse` |
| `MC*` | small instances of each | |

How they are put together: `MpiSetup` extends `HaloBuffers`, which extends
`RankSetup` and `VarLayout`; `SubBlocks` extends `GenLoops`, `BoundingBoxes` and
`VecReads`, which extends `VarLayout`; all rest on `Tuples`, as does `AutoTuner`. `Solutions` extends
`EqBundles`, and `MCSolutions` gives it the stencil modules.

### SimpleLock

`writeCount` and `readCount` are the two counters (they start at 10 in the code,
`InitCount` here). A side is "out" or "in" the buffer; the copy is one action
per element, so both sides' accesses interleave. The sender and the receiver
are the two ranks; `CHECK` assertions of the code are part of `LockInv`.

### HaloExchange

Per rank: where it is in its program (`op`, `pc`, `step`, `pack`), the window
(`first`) and the flags (`dirty`) of each var, the vars and steps being swapped
(`swap`), what is left of the exchange in the order of the code's three nested
loops (`todo`), the requests and buffers, and the contents of the network.
`exchange_halos()` runs four passes (post receives; pack and send; wait and
unpack; finish sends) over vars and neighbours; each step of a pass is an
action, and a rank does what is at the head of its list. MPI is modelled from
how the code uses it: messages of a pair of ranks do not overtake, a message
meets the first receive with its tag, a send may complete early (`Eager`) or
only when it is received (`Deliver`). `Poke` is `MPI_Testall` by a worker thread
while the interior is computed. A value is the call that made it and its step,
so that a stale value can be told from a fresh one. Ranks run the same program:
a script of API calls.

`trail` is history: for each exchange of a rank, what it swaps and how many
evaluations had been done; a message names its exchange (`exch`). No guard of
the model looks at either. `Evals`, and so the refinement of `NeighborSync`, is
read off them, and the proofs say with them which exchange a message belongs to.
Of the constants it is assumed that a `run` has its two steps in the order of
the solution's direction (`RunsAssumption`: `run_solution()` takes the direction
from them, `context.cpp:205`, and the scripts do not turn back) and that a var
without the step dimension is stored once (`AllocAssumption`).

Abstractions: ranks on a line, so no corner neighbours (`HaloBuffers` has them);
a var's halo is one zone per side; one rank's evaluation of a pack is one action
(the tiles are the next module); threads of a rank appear only as `Poke`.
`run_solution()` returns at once if the rank's box is empty (`context.cpp:229`),
which no action stands for: whatever sizes are given or left to be split, setup
gives every rank at least one point in each dimension or refuses (`TilesGlobal`;
sizes are natural numbers, and 0 means not set).

### TilingGeometry and TemporalTiling

`PrepareSolution` turns settings into the context that `update_var_info()`,
`update_tb_info()` and `find_bounding_boxes()` build. `ShiftRegion` and
`ShiftMiniBlock` are the code's functions of the same names, on spans `[lo,hi)`.
`TemporalTiling` walks `run_solution()`'s loops: sections (left and right
exterior per dimension, then the interior), regions in increasing order, layers
(an iteration of `calc_region()`'s time loop, or of its packs without temporal
blocking), phases, and inside a phase one thread per block. A thread has a list
of boxes with the level each brings its points to, and evaluates the first; a
phase ends when all lists are empty, which is the barrier of OpenMP's loop.
`Tiles` and `InOrder` are what the loops written by `gen_loops.pl` do without
modifiers of their path, `GenLoops` has the generator as a whole.
`level[p]` counts the evaluations of a point; halo points of a neighbour stay at
level 0 within the chunk, since an exchange only happens between chunks.

Abstractions: one or two domain dims; a mini-block's sub-blocks are evaluated at
once (`SubBlocks` takes them apart); sub-domains are the whole domain; one
cluster is one vector.

### StencilOrder and StencilValues

`StencilOrder` says when a point may be evaluated: everything it reads is at its
level or one beyond. `StencilValues` adds two step slots per point, indexed by
`_wrap_step()`, a stencil formula and a table `Ref` of what `run_ref()` computes
over all ranks. The chain is: `TemporalTiling` implements `StencilOrder`
(`RespectsOrder`, which TLC checks on the ranks of the run and TLAPS proves for
every rank, `TilingRefinesOrder`), and whatever respects `StencilOrder` gives
`Ref`'s values (`OrderGivesReference`). So tiled results equal the reference
run's, for every rank, tile size and stencil formula, under the two premises of
4.2.

### AutoTuner

`eval()` with its warm-up, measurement and search loop, `clear()`, `apply()` and
`reset_auto_tuner()`. A measured rate is any of a set, so a noisy machine is
covered; elapsed time is a choice between "enough" and "not yet". Sizes the
tuner derives from the tuned ones are functions of them and are not state.

### RankSetup, HaloBuffers and MpiSetup

A job is what ranks are started with: the options of each, its node, the fold
and the vars. `setupRank()` is three steps (`Agree`, `SumSizes`, `PlaceRank`,
with a refusal for the last two) that exchange rows of a table: the code's loop
of broadcasts cannot be left before all ranks have entered it. `stage` says how
far a rank is. `HaloBuffers` has the first pass over neighbours of
`allocMpiData()`: from its own domain and its neighbour's row, a rank decides
which vars to exchange (by the distance the equations read at), the box of each
buffer, and whether it is copied by whole vectors. `MpiSetup` has the rest: each
rank lists the collective calls it will make on its node, one action enters a
call and one leaves it, and the n-th call of a rank meets the n-th of the
others, whatever it was meant for. Leaving the first and second barrier gives
places to a rank's own buffers and to those in the windows of others.

Abstractions: sizes of storage are counted in elements; misc dimensions and
steps of a buffer only count in its size; regions are as large as ranks; the
private and shared heaps are one each (one per NUMA preference in the code).

### SubBlocks with GenLoops, BoundingBoxes, VarLayout and VecReads

A setup is a rank, a fold and cluster, a sub-domain as a set of points, tile
sizes, threads and the halos of a scratch var. `Prepare` finds the boxes as
`find_bounding_box()` does: each thread in its slice, then merged. Mini-blocks
are taken in the order of their loop, since different mini-blocks of a block are
evaluated by one thread and those of different blocks use scratch vars of their
own. In a mini-block, `plan` has the boxes and bundles left; `todo` their
sub-blocks, which threads take in any order but their own. A sub-block
(`Work`) is a set of evaluations: clusters, vectors with a mask, scalars, as
`calc_sub_block_vec()` divides it. `count` and `scratch` record the points.

`VarLayout` gives the addresses: `ElemPtr` is what scalar code and element APIs
compute, `VecPtrNorm` what vector code does; both go through the padding and the
order of dimensions that `resize()` and the compiler choose. `VecReads` follows
the generator: which aligned vectors an offset needs (`Elems`, with its
truncating division), how an unaligned vector is put together by a greedy choice
of align and permute instructions for each instruction set (`Constructed`), and
the pointers kept per row with offsets in the inner and misc dimensions
(`PtrRead`).

Abstractions: no temporal blocks (they call the same code with other boxes); one
bundle that reads at most one scratch var; conditions on domain indices are sets
of points; reads are of the form all shipped stencils have, offsets in domain
dimensions and constants in misc ones.

### DepGraph and EqBundles

The compiler is sequential, but it visits objects in the order of
`unordered_set`s of pointers, so the model chooses that order. `phase` and
`level` say where `analyze_solution()` is: it analyses the equations, then for
equations, bundles and packs in turn closes the dependencies (`FindDepsFrom`,
one walk of `find_all_deps()`), sorts (`SwapLater`, `NextPosn`,
`CircularError`, the steps of `topo_sort()`), and puts the objects into lots of
the next group (`AddEqToBundle`, `AddBundleToPack`), which inherits their
dependencies; `Finish` is `calcHalos()`. `imm`, `full` and `scr` are the three
`Deps` of a group. A program is the input: for each equation the logical var it
updates, the points it reads, its step condition and a key for the rest that
must agree within a bundle. A point has a step offset and an offset in each
domain dimension. A program is refused (`RejectEqs`) for two equations of the
same var and conditions, for an equation that reads the very point it writes,
and, where the compiler looks for dependencies itself, for one that reads any
point of the step it writes.

Abstractions: programs have passed the checks of the form of each equation;
named bundles (`-eq-bundles`) appear only in the key; `vars` excluded by a
regular expression and the copies of equations over a cluster are left out; one
output from a solution (a second `output_solution()` starts from the closures of
the first).

### The stencils and Solutions

A stencil is a solution in the form `EqBundles` takes: each definition of
`src/stencils` with the points it reads, by the same helpers and in the same
order of equations; coefficients, sums and products are left out. Conditions
have names, and a solution lists its zones (which conditions hold together) and
modes (which step conditions do). `Solutions` adds `getStepDimSize()` and runs
what was compiled: equation after equation in the compiled order, a value being
the step it is of, in as many slots as the var keeps. The walks of the compiler
start with the first object left, since `EqBundles` shows that the order does
not matter for graphs without cycles; a shipped stencil that were rejected would
deadlock the run.

## 3. Runs

| run | question | bounds, and why they are enough |
|---|---|---|
| `SimpleLock` | exclusion, hand-off of whole messages, progress | 2 elements (a copy can be torn), 2 values, 3 writes (the buffer is reused twice; only the difference of the counters matters) |
| `HaloMpi` | inputs of the right step and halos as their owner has them, matching messages, buffers, agreement, coherence | 2 ranks, 2 vars (tags can shift), 3 packs with step conditions, one var without a right halo, one rank with overlap; scripts with two runs, setters between them, and the end |
| `HaloShm` | inputs of the right step with shared buffers, and their release, one exchange for two packs and two steps, neighbours in step, progress | 3 ranks so that one has a shared and an MPI neighbour; backward steps, a short last chunk, a var read at two steps and kept for three, one without steps; prepare, tune, run and end |
| `Tiling` | independence of concurrent blocks, order, slabs, completeness | 966 settings: every mix of two rank widths, region, block and mini-block sizes with remainders, up to 3 steps, 1 or 2 packs, neighbours on no, one or both sides, overlap; and chosen two-dimensional ranks, folds, several layers |
| `NarrowRemainder` | a violation, see 6 | 7 points, blocks of 5, 3 steps |
| `StencilValues` | values in every allowed order | 5 points and a halo point, 3 values, up to 4 levels: the halo cone and the edge both occur |
| `AutoTuner` | best in force, no size twice, local optimum, end | 1 to 3 dims, up to 9 sizes, 2 rates (better or not), radius 2 then 1, one reset at any point |
| `MpiSetup` | domains tile and none is empty, buffers match, halos are received, shared buffers are found, setup ends | 1 to 6 ranks in 2 dimensions: grids preset, given up or found, coordinates given or found, sizes split, summed and contradictory, ranks that do not line up; folds of 1, 2 and 4, wide and one-sided halos, vars of one dimension, wave fronts; nodes in every arrangement of 4 ranks that matters |
| `SubBlocks` | each point once, scratch points first, all in storage at agreed addresses | ranks of at most 9 by 7 points or 5 cubed, off vector boundaries; sub-domains with holes and steps; 1 to 4 search threads; all paths of loops; bound threads; folds of 2 and 4 lanes in one or two dimensions and one of 8; halos wider than a vector |
| `EqBundles` | closure, sort, lots, schedule, scratch halos, end of the sort | all graphs of at most 3 edges over 5 equations, in 7 kinds of programs (scratch vars, keys, step conditions, a var or a scratch var written twice, declared dependencies, with which one equation may read its own point and is refused and others read points beside theirs): 5 equations are the fewest with a chain of two scratch equations and two readers, or with a cycle between bundles of acyclic equations; longer paths repeat the shorter ones |
| `Solutions` | reads of the right step, merged stencils the same | all 39 shipped stencils (tti at two radii), 3 steps: more than any var keeps, so every slot is reused |
| `StepReuse` | a violation, see 6 | three equations in one dimension |

Every property has a mutant in `PROJECT.json`: a plausible slip in a definition
that models code, under which the run finds the property violated.

### Fairness

`SimpleLock`: each rank keeps running; its spin ends when the other's mark is
made, and its copy never blocks. `HaloShm`: each rank's one thread keeps
running (`WF` of its next step) and MPI completes what is matched; nothing is
assumed of early completion or of `MPI_Testall`, since neither is guaranteed.
`AutoTuner`: `run_auto_tuner_now()` calls strides, and so `eval()`, until the
tuner is done. `MpiSetup`: some rank that can go on does (`WF` of `Prepare`; the
steps are finitely many, so nothing stronger is needed). `EqBundles`: the
compiler runs on (`WF` of `Compile`). `NeighborsInStep` and all invariants need
no fairness.

### What is bounded

`MaxWrites` (SimpleLock), the scripts and `TuneSteps` (HaloExchange), the
settings (TemporalTiling, whose chunk is finite by itself), `MaxLevel`
(StencilValues), `MaxResets` (AutoTuner), the set of `Jobs` (MpiSetup), of
`Setups` (SubBlocks) and of `Programs` (EqBundles, Solutions), all of whose
behaviours are finite but for `MaxSteps` of a run in Solutions.

## 4. Theorems

* `SimpleLockProofs!LockInvariant`: `LockInv` is inductive. It says who may be
  inside from the counters alone, and that the packed part of the buffer is the
  message and the unpacked part its copy; exclusion alone is not inductive,
  because it does not say that the buffer keeps the message between the marks.
  From it: `CountersInStep` (the code's assertion), `MutualExclusion`, and
  `ImplementsHandOff` (every step is a step of `HandOff` or a stutter). For any
  set of elements and messages and any number of writes.
* `HaloExchange`: nine theorems and a refinement in three modules, each on top of
  the one before, for any number of ranks, vars and packs, any halo shapes,
  messages or shared memory on each link, overlap or not, wave fronts or not, and
  any scripts but for the hypotheses named. The argument is in 4.1.
* `StencilValuesProofs!OrderNeverTooFarAhead`: a point is at most one level beyond
  what it reads. Inductive with the domain and type of the levels.
* `StencilValuesProofs!OrderGivesReference`: `AgreesWithRef` for every formula,
  set of points, reach and number of levels. The strengthening is
  `KeepsPrevious`: the slot that was not just written still holds the level
  before. It is what lets a point that is one behind read the right value; the
  proof's core is `InputsAreRef`. Assumptions: `Ref` satisfies one evaluation of
  the plain loop at every level (`RefAssumption`); halo points are unconstrained
  beyond what they hold at the start.
* `TemporalTiling`: six theorems and a refinement in `TemporalTilingProofs`, for
  any number of dims, any tile sizes, steps, packs, halos, folds and neighbours,
  overlap or not. The argument is in 4.2.
* `AutoTunerProofs!BestIsApplied`: `EndsWithBest`, for any number of dims, any
  outer, cluster and start sizes, limits and rates (`SearchAssumption`: outer
  sizes and clusters are set). `TunerInv` says that the best rate is the highest
  of the results and that of the best sizes (`BestKept`), and that a size in force
  that is about to be measured is not among the results (`InForce`). The second
  needs that `adjustSettings()` leaves a candidate as it is, or it would be another
  size that is measured (`CandidateFits`), which is arithmetic: a candidate is not
  zero, which would mean unset, and rounding up to clusters twice is rounding
  once (`RoundsUp`).
* `AutoTunerProofs!ConvergesToOptimum`: `LocalOptimum`, for the same constants.
  `SearchInv` on top of `TunerInv` says what the search has covered: every
  candidate before `neigh_idx` around this center is out of the limits, a result,
  or in force and about to be measured (`Covered`, `Known`), and until a better
  size is found the center is the best one. A candidate may have been measured
  around an earlier center, so what carries over is the set of results, never the
  place in the neighborhood. When the search ends, the radius is one, and every
  offset has a number below `NeighborhoodSize` (`UnlayoutOfIndex`), so a size one
  step away was a candidate (`NearIsCandidate`).
* `TuplesProofs!VisitsEveryPointOnce`: for any number of dims and any sizes,
  `visitAllPoints()` meets every point, each once, and `layout()` and `unlayout()`
  undo each other. The partial products and sums that define them are
  recursive functions; that they exist, and that the partial sums stay below the
  products and are the rests of the index, are lemmas on their values at each
  dimension (`IndicesBelow`, `IndexSplits`), with induction over a set of numbers.
* `EqBundlesProofs!WalkFindsClosure`: in a finite graph without cycles, one walk of
  `find_all_deps()` finds all that its start depends on and all that those depend
  on, and nothing else. It is why the walks may skip what one of them has been
  through. The walk is a recursive function over the length of paths; that it
  exists and what it holds at each length are lemmas. `Closure` is defined as
  membership in every closed set, so that facts about it need no induction but
  the choice of a set.
* `EqBundlesProofs!SortNeverUndone` and `LotsNeverMixDependents`: for any number
  of equations, any set of programs and any order of the walks, a sorted group has
  nothing before what it was *found* to depend on, and lots never gather such
  objects. Inductive with `SortedSoFar` (the part before `posn` is in order; a
  swap brings forward only what is in order with that part) and `NotGroupedYet`
  (dependencies are only added while a group has no lots yet). They hold with
  cycles too, which is why what is said of cycles in part 6 is about what the
  walks miss, not about the sort.
* `EqBundlesProofs!WalksFindAll` (`ClosureExact`), `LotsNeverDepend`
  (`LotsIndependent`) and `SchedulesAreSound` (`ScheduleSound`), for any program
  that has the form `ProgramsOK` asks for. The invariant is `IInv` above together
  with `GInv`, which says what is found on the way (`Found`: only what is in the
  closure and, of an object that has any, everything), that a group inherits the
  dependencies of what it gathers (`Inherited`), that nothing is lost between the
  groups (`AllHavePlaces`, `AllInLots`), and that scratch and other equations are
  kept apart (`SameKind`). The core of the last theorem is that a chain of
  dependencies survives the two changes of group: a dependency of equations lies
  within one bundle, which `LotsNeverDepend` excludes, or between two bundles that
  inherit it, and so on to the packs; the sort then puts them in order, and a
  scratch equation reached through scratch equations is reached through scratch
  bundles. The premise of the properties, no cycles, is what part 6 is about.

Only model-checked: liveness (`Delivered`, `Terminates`, `Converges`, and that
setup and the compiler end), which is beyond the prover; `StepsFresh`, because
whether a step that is read is still kept depends on the script (an application
may ask for steps it has overwritten); `HaloClosed`, whose halos are a fold over
the equations; `TilesGlobal`, `BuffersMatch`, `HalosCovered` and `BuffersShared`
of `MpiSetup`, whose ranks are found by a search for compact factors and whose
buffers rest on it; `OncePerPoint`, `ScratchReady` and `StorageSound` of
`SubBlocks`, which speak of the paths of generated loops, of the greedy choice of
instructions and of boxes found by a scan of any shape; and `ReadsRight` and
`TwinsAgree`, which are about the 39 shipped solutions and not about any. The
library's
induction takes an operator, which the provers cannot instantiate; for walks and
layouts, whose recursion is over a number, least counterexamples and sets that
contain 0 and the successors of their members take its place (`LeastNat`,
`NatSteps`). Folds over sets have no such number.

### 4.1 The halo exchange

The difficulty is that no rank ever learns what another has decided. What makes
their decisions agree is only that all run the same program, so the proof has
to say where a rank is *in the program*, whatever its neighbours and MPI do.

1. *Types* (`HaloInv`, theorem `TypeCorrect`): `TypeOK`, with `InCall` (a rank
   inside a call has a call to be inside of), which most actions rely on.
2. *Requests* (`RequestsInv`; theorems `BuffersNotReused`, `ReleasedUnused`). An
   open request has the thing to do that will close it, in this half of the
   exchange or in the half that comes after the interior; MPI holds one receive
   or message for each active request. This needs that the second half finds the
   same window of valid steps as the first (`HalvesAgree`): `update_vars()` is
   called for either half, and moving a window twice must be moving it once
   (`ValidStepsAgain`). `ReleaseInv`: where a buffer has been released, every
   rank has come to the barrier of that call, or beyond it. Nothing here depends
   on other ranks being alike.
3. *Agreement* (`AgreementInv`, theorem `RanksAgree`: `DirtyAgreement`).
   `Prog(r)` is where rank r is, with its window, its flags and its history, and
   an exchange under way counts as what it will leave behind. `Nxt` is a
   function on such states, and each step of a rank leaves `Prog(r)` alone or
   takes it to `Nxt(Prog(r))` (`StepAdvances`). So of two ranks one is always
   where the other will come to (`Together`), and as `Nxt` goes only forward
   (`NxtFollows`), ranks at the same place are in the same state. What "will come
   to" means (`Reach`) is defined without recursion, as membership in every set
   closed under `Nxt`.
4. *Matching* (`MatchInv`; theorems `MessagesMatch`: `MatchAgrees`, and
   `QuietWhenTogether`: `QuietBetweenCalls`). From the histories of the two ends
   follows what is on the way over a link: what one end has sent in its n-th
   exchange (`SentIn`) and the other has not got in its n-th (`GotIn`). The
   channel, or the full shared buffers, are exactly that (`MpiExact`,
   `ShmExact`). Since the receiver waits for everything in an exchange, at most
   its current one and one more can be on the way (`OnWayNow`, `OnWayFirst`), and
   messages do not overtake; so the first message with the tag of a receive is
   the one for it (`Meets`), although tags only count swapped vars and are used
   again in every exchange.
5. *In step* (`SyncInv`; theorems `ImplementsNeighborSync`, which is the property
   `NeighborsInStep`, and `NeverTwoAhead`). The last evaluation a rank published
   went out in an exchange of its history that swapped a var both ways, so a
   neighbour that has got past the exchange has got it (`NeighborsPublished`).
6. *Coherence* (`CoherenceInv`; theorems `PacksReadFreshHalos`: `HalosFresh`, and
   `RunLeavesCoherent`: `CoherentAfterRun`). The program state is taken together
   with the values of the exterior (`Full`, `Move`); what is on the way in
   exchange e is what *every* rank sends in its exchange e (`Carries`). A slot
   that is dirty when an exchange begins is among those swapped (`FlagsKnown`:
   the window covers every slot, and the swapped range every dirty one), so
   a halo differs from the exterior only where it is dirty or still to be
   unpacked (`HalosKept`). Values are the call and step that made them, so
   that two ranks' exteriors can be compared at all.

Hypotheses. *`UniformCalls`* (in 3, 4 and 6, on the script that was chosen): no
call sets a single point, and tuning takes the same number of steps on all ranks.
Both are needed, for the code is not right without them (part 6): `set_element()`
sets the owner's flag alone, and each rank tunes for as many steps as its own
measurements ask for. All scripts of `HaloShm` satisfy `UniformCalls`, and two of
the three of `HaloMpi`. *`UniformScripts`* (in 5) asks the same of every script, since a refinement is
about whole behaviours. *`SwapsBothWays`* (in 5): each evaluation writes a var
with both halos; a var with one halo only holds its receiver back, and a sender
could run ahead until its buffer is full. `HaloShm` has such packs and such
scripts, and checks the refinement.

### 4.2 Tiling

Threads of one phase run concurrently, and phases, layers, regions and sections
follow each other only because of how their boxes are shifted. What has to be
shown is that no two evaluations ever come in the wrong order, and that no point
is left out; neither follows from the other, and the second is needed for the
first, because a point that was left out makes every later one early.

1. *Loops* (`TilingInv`, theorem `TilingInvariant`). Indices are in range and
   what a thread has left is a part of the work of its own block.
2. *Independence* (theorem `BlocksAreIndependent`). Two shapes of a phase are
   either bridged in different dimensions, or lie in different blocks along one in
   which both are bridged or both are not. Trapezoids shrink by an angle per
   shift, bridges grow by as much between the trapezoids beside them, and an angle
   is at least the halo: `ShapesApart` says so in one dimension, at any two
   shifts. The premise `WideRemainders` is needed where two bridges of one phase
   meet over a remainder block (part 6).
3. *Order.* `MayFollow(e, f)`: if e comes after f, either e is of a later level,
   or the two are apart in some dimension, by the halo unless their levels are the
   same. `LaterPlaceFollows` shows it of evaluations at two places of the loops (a
   later section, region, layer or phase), `OtherBlockFollows` of two blocks of
   a phase, and `WorkInOrder` of two in the list of one thread, which is put
   together from shapes, mini-blocks and shifts. The first two come down to shifts
   again: a section or region never takes what a later one needs, since with each
   level both ends move against the order of the scan by an angle, which is at
   least the halo.
4. *Cover.* `EveryLevelTaken`: a point that is within the rank's skewed bounds at
   level n is in some evaluation that takes points from n to n + 1. Sections,
   regions, blocks, shapes and mini-blocks each leave out nothing of what the one
   around them holds (`SectionCovers`, `RegionCovers`, `LayerCovers`,
   `MiniBlockHolds`); that the last region's scan is lengthened, and that the base
   of the blocks is shifted back, is what this needs.
5. *In turn* (`InTurnInv`, theorem `WorkStaysInTurn`). `OnTime` relates levels and
   the work still to come: nothing is missed (a point that is not yet at a level
   it will have to be has its evaluation in that work) and nothing is early (all
   that is still to come may follow the last evaluation a point has had). `Threads` says
   that the lists are in order and stay with their blocks. What any thread has at
   the head of its list may be made before all the rest (`HeadIsFirst`), so its
   points are at its level (`FirstInTurn`) and what it reads is at that level or
   the next (`FirstReads`), and the invariant holds of what remains. Hence
   `PointsEvaluatedInTurn` (`EvaluatedInTurn`); `RankIsCompleted` (`WholeRankDone`:
   no work is left, so every point has all its levels); `SlabsAreFinal`
   (`SlabsFinalBeforeSend`: what is left is interior, which slabs are apart from).
6. *Refinement* (theorem `TilingRefinesOrder`: `RespectsOrder`). A thread's next
   evaluation is one step of `StencilOrder` (`BoxIsEvaluated`), and every move of
   the loops a stutter. With `OrderGivesReference` tiled values are the reference's.

Premises. *`SettingsAssumption`*: sizes are natural numbers, those of a rank not
zero; some pack is valid; and a stride has no more steps than the wave front,
which is as long as the steps of a region or of a block (one without either):
`run_solution()` strides by that (`context.cpp:205`). *`WideRemainders`*: where temporal
blocks take three or more evaluations, a remainder block is at most an angle wide
or as wide as the bridge and the halo need. `NarrowRemainder` shows that without
it the code evaluates out of order. All but `TilingInvariant` ask for it.

`BlocksIndependent`, `EvaluatedInTurn`, `SlabsFinalBeforeSend`, `WholeRankDone` and
`RespectsOrder` are thereby both checked by the run `Tiling` and proved.

## 5. Plan

The models of the plan are written; the lock, the exchange, tiling, the tuner's
search, layouts and the compiler's schedule are proved. What is left are proofs:

1. `RankSetup`: `TilesGlobal`, and that neighbours know each other by opposite
   indices, the step `BuffersMatch` rests on.
2. `HaloClosed`, one pass of `calcHalos()` at a time.
3. A type invariant of `SubBlocks`, and `OncePerPoint` for sub-domains that are
   one box.

## 6. Where code and documentation, or code and its own assumptions, differ

With a run:

* `NarrowRemainder` (`context.cpp:1352`). A remainder block narrower than the
  base of its trapezoid, with three or more evaluations in a temporal block,
  makes two blocks of one phase depend on each other. `Tiling` leaves such
  remainders out (`WideRemainders` selects the settings of `MCTiling`), and says so.
* `StepReuse` (`Var.cpp:373`). The steps a var keeps are counted pack by pack. A
  pack that only overwrites a var where it reads it lets the step be reused at
  once, although a later pack reads the old step. No shipped stencil has both.

Seen while modelling, without a run:

* "All ranks must have the same information about which vars are possibly dirty"
  (`context.cpp:404`), but setting one point marks the var on the rank that holds
  it and on no other (`yk_var_apis.cpp:248`). If nothing else was dirty, the next
  run swaps the var on one side only, which waits for ever. It is why the theorems
  on agreement ask for `UniformCalls`; the script of `HaloMpi` that sets a point
  does so while everything is dirty. With a script that runs a step, sets a point
  and runs again, TLC finds `DirtyAgreement` violated.
* `set_element()` and `add_to_element()` are documented to move the valid steps
  and do not (`yk_var_apis.cpp:244`). The scripts of `HaloMpi` and `HaloShm` use
  them at steps in the window.
* Each rank tunes for as many steps as its tuner needs (`auto_tuner.cpp:118`),
  counting from 0, and nothing brings the windows of valid steps together
  afterwards. If the application then goes on at a step that lies in one rank's
  window and before another's, the ranks swap different steps of a var, in
  messages of one size: halos end up at the wrong steps. `HaloShm` tunes with
  the same number of steps everywhere.
* `find_all_deps()` (`Eqs.hpp:173`) skips objects that an earlier walk has been
  through, which loses dependencies when there is a cycle; bundling can make a
  cycle between bundles of equations that have none. Depending on the order of a
  set of pointers, such a program is rejected as circular or accepted with a pack
  scheduled before one whose results it reads. `ScheduleSound` holds where no
  group has a cycle.
* The comment at `yk_var.cpp:187` calls one vector less a point the worst case of
  what a padding must add. A rank that is not a whole number of vectors in a
  dimension other than the inner one can read further: with 5 points, a fold of
  4, a scratch halo of 1 and reads of 1, the last masked vector of the scratch
  bundle reads a vector past the storage (its lanes there are masked out). The
  setups with scratch vars in `MCSubBlocks` are whole vectors.
* Shared windows (`alloc.cpp:773`). Only ranks with a neighbour on the node and a
  buffer to share enter the broadcasts and the allocation of the window, on a
  communicator of all ranks of the node. `SetupEnds` holds under the premises
  `NodesConnected` and `Neighborly`; without them a job whose node
  holds two neighbours and a rank that is beside neither waits for ever.
* A buffer is copied by vectors if its box is vector-aligned within the problem,
  while storage is aligned within the rank (`alloc.cpp:538`). If the domain of a
  rank does not begin at a multiple of the fold, the vectors copied are not those
  of the box. `VectorsFit` assumes that they do (`AlignedRanks`); sizes split by
  the code itself always do.
* Two equations for two constant indices of one scratch var, in two bundles: the
  halo the var has in the end is not passed on through both (premise
  `ScratchWrittenOnce` of `HaloClosed`). What is read beyond a halo is not used.
* A scratch equation that nothing uses keeps a halo that does not agree with its
  bundle (premise `ScratchUsed`). `-no-bundle-scratch` compares halos that are
  only computed after bundling (`Eqs.cpp:1003`).
* `set_elements_in_slice_same()` without strict indices clips a slice that lies
  wholly outside to the nearest boundary and writes that; only slices that
  overlap the storage are in `SlicesAgree`.
* `get_compact_factors()` gives up presets that cannot be kept without a word;
  with one rank and a preset above one it returns an empty tuple
  (`tuple.cpp:433`), which `RankSetup` refuses.
* `gen_loops.pl` with a group size of 0 divides by zero (`gen_loops.pl:340`), and
  its grouped path excludes the serpentine and square-wave ones; setups have
  group sizes and mix paths accordingly.
* With `-inner-misc` the offsets of misc dimensions are compiled with fixed
  sizes, which `fuse_vars()` does not compare.
* Slabs bound to threads are counted from a multiple of the slab's own size plus
  0x1000, so which thread gets a slab may change with its start; this is a matter
  of speed only, and `ThreadOf` has it.

## 7. Not modelled

SIMD arithmetic and floating point (values are abstract), the text of the
generated code and the order of its expressions, expression trees and their
optimisers, option parsing, reports and timers, the cache model, NUMA placement,
comparison of results, `fuse_vars()`, coefficients, the command line driver and
scripts, and the bindings. A read with a domain index that is a constant or not
an offset is outside `VecReads`: no shipped stencil has one. Corner neighbours
are left out of the exchange, because a line of ranks has none: an exchange with
them is the same passes over more neighbours, and which buffers they have is in
`HaloBuffers`.
