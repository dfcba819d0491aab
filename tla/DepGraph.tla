------------------------------ MODULE DepGraph ------------------------------
(***************************************************************************)
(* Dependencies between the objects of one group of the stencil compiler   *)
(* (equations, bundles or packs), and the walks the compiler makes over    *)
(* them.  A graph is a set of pairs: <<a, b>> says that a depends on b.    *)
(***************************************************************************)
EXTENDS Integers, SequencesExt, FiniteSetsExt

DepsOn(imm, a) == {d[2] : d \in {d \in imm : d[1] = a}}

(* The paths a visitor sees from "a": they follow immediate dependencies   *)
(* and never come back to an object of their own.                          *)
VisitDeps(imm, a) ==
  LET longer(paths) ==
        UNION {{Append(p, b) : b \in DepsOn(imm, Last(p)) \ ToSet(p)} : p \in paths}
      walk[n \in Nat] == IF n = 0 THEN {<<a>>}
                         ELSE LET shorter == walk[n - 1]
                              IN shorter \cup longer({p \in shorter : Len(p) = n})
  IN walk[Cardinality({d[1] : d \in imm})]

(* Mutant: only the object just before the last depends on it.             *)
DepsFromMutant(imm, a) ==
  {<<p[Len(p) - 1], Last(p)>> : p \in {p \in VisitDeps(imm, a) : Len(p) > 1}}

(* What one walk from "a" adds to the full dependencies: on every path,    *)
(* each object before the last depends on the last.                        *)
DepsFrom(imm, a) ==
  UNION {{<<p[i], Last(p)>> : i \in 1 .. Len(p) - 1} : p \in VisitDeps(imm, a)}

(* The dependencies of a group whose objects gather those of a finer one.  *)
InheritDeps(items, imm) ==
  {d \in (DOMAIN items) \X (DOMAIN items) :
     /\ d[1] # d[2]
     /\ \E x \in items[d[1]], y \in items[d[2]] : <<x, y>> \in imm}

Swap(s, i, j) == [s EXCEPT ![i] = s[j], ![j] = s[i]]

-----------------------------------------------------------------------------
(* Reference definitions, for the properties only.                         *)

(* The transitive closure: a set that has what "a" depends on, and with an  *)
(* object what that one depends on, has all that "a" depends on indirectly.*)
ClosedFrom(R, a, S) == DepsOn(R, a) \subseteq S /\ \A x \in S : DepsOn(R, x) \subseteq S
Closure(R) ==
  LET targets == {d[2] : d \in R}
  IN {c \in {d[1] : d \in R} \X targets :
        \A S \in SUBSET targets : ClosedFrom(R, c[1], S) => c[2] \in S}

Acyclic(R) == \A d \in Closure(R) : d[1] # d[2]
=============================================================================
