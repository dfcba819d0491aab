---------------------------- MODULE StencilForms ----------------------------
(***************************************************************************)
(* What the definitions of the shipped stencils are written with: vars,    *)
(* the points they are read at, equations with their conditions, and the   *)
(* solution they make, in the form the compiler works on.                  *)
(***************************************************************************)
EXTENDS Integers, Sequences, FiniteSets

(* A logical var is the parts of a var's name and its constant indices.    *)
Var(parts) == <<parts, <<>> >>
Slice(name, index) == << <<name>>, index>>
NameOf(v) == v[1]

(* Offsets of a point in the domain dims.  A var without some dim is read  *)
(* at offset 0 there.                                                      *)
Zero(n) == [d \in 1 .. n |-> 0]
Along(n, d, k) == [Zero(n) EXCEPT ![d] = k]
Line(n, d, ks) == {Along(n, d, k) : k \in ks}
Plus(p, q) == [d \in DOMAIN p |-> p[d] + q[d]]

(* The points whose offsets in the dims of "ranges" are any of those given *)
OffsetsIn(ranges) ==
  {q \in [DOMAIN ranges -> UNION {ranges[d] : d \in DOMAIN ranges}] :
     \A d \in DOMAIN ranges : q[d] \in ranges[d]}
Box(n, ranges) ==
  {[d \in 1 .. n |-> IF d \in DOMAIN ranges THEN q[d] ELSE 0] : q \in OffsetsIn(ranges)}

(* Reads of var v at step offset dt, at the offsets "offs" from point p.   *)
Read(v, dt, p, offs) == {[var |-> v, dt |-> dt, at |-> Plus(p, o)] : o \in offs}
ReadAt(v, dt, p) == {[var |-> v, dt |-> dt, at |-> p]}

(* An equation, with the names of its domain condition and its step        *)
(* condition.                                                              *)
Equation(lhs, reads) == [lhs |-> lhs, reads |-> reads, dom |-> "always", step |-> "always"]
IfDomain(eq, cond) == [eq EXCEPT !.dom = cond]
IfStep(eq, cond) == [eq EXCEPT !.step = cond]

(* A solution.  Each zone is the set of the domain conditions that hold    *)
(* there, each mode that of the step conditions that hold in some step.    *)
Everywhere == {{"always"}}
Solution(name, dims, dir, eqs, zones, modes) ==
  [name |-> name, dims |-> dims, dir |-> dir,
   lhs |-> [e \in DOMAIN eqs |-> eqs[e].lhs],
   reads |-> [e \in DOMAIN eqs |-> eqs[e].reads],
   key |-> [e \in DOMAIN eqs |-> eqs[e].dom],
   step_cond |-> [e \in DOMAIN eqs |-> eqs[e].step],
   zones |-> zones, modes |-> modes, user |-> {}, find_deps |-> TRUE]
=============================================================================
