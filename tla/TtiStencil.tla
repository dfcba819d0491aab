----------------------------- MODULE TtiStencil -----------------------------
(***************************************************************************)
(* The tilted transversely isotropic stencil: wave fields u and v at t+1   *)
(* from both at t and their own at t-1.  Its generated equations are sums  *)
(* of first differences of a field, weighted by angles, taken about points *)
(* on the axes.  About some points the difference in x is centred and the  *)
(* others one-sided, about the others it is the other way round.           *)
(***************************************************************************)
EXTENDS StencilForms

LOCAL U == Var(<<"u">>)
LOCAL V == Var(<<"v">>)
LOCAL Here == Zero(3)
LOCAL Center == <<1, 0>>

(* The points of a centred and of a one-sided difference, of spatial       *)
(* orders 4 and 8.                                                         *)
So4 == [centred |-> -1 .. 1, sided |-> 0 .. 2]
So8 == [centred |-> -2 .. 2, sided |-> -1 .. 3]

(* The differences about point k of axis a.                                *)
XCentred(o, n) ==
  LET q == Along(3, n[1], n[2])
  IN {Plus(q, p) : p \in Line(3, 1, o.centred) \cup Line(3, 2, o.sided) \cup Line(3, 3, o.sided)}
YZCentred(o, n) ==
  LET q == Along(3, n[1], n[2])
  IN {Plus(q, p) : p \in Line(3, 1, o.sided) \cup Line(3, 2, o.centred) \cup Line(3, 3, o.centred)}

(* The angles are read where the differences are taken.                    *)
Angles(nodes) ==
  UNION {Read(Var(<<"ti", i>>), 0, Here, {Along(3, n[1], n[2]) : n \in nodes}) :
         i \in {"0", "1", "2", "3"}}
Terms(o, f, xs, yzs) ==
  Read(f, 0, Here, UNION ({XCentred(o, n) : n \in xs} \cup {YZCentred(o, n) : n \in yzs}))
  \cup Angles(xs \cup yzs)

(* The terms with v, in the order of the code.                             *)
VTerms4 ==
  Terms(So4, V, {<<3, -2>>, Center, <<1, 1>>, <<2, -2>>, <<3, -1>>, <<1, -1>>},
        {<<2, -1>>, <<1, -1>>, <<1, -2>>, <<2, 1>>, Center})
VTerms4End == Terms(So4, V, {<<2, -1>>}, {<<3, -1>>, <<3, 1>>})

VTerms8 ==
  Terms(So8, V, {<<3, -2>>, <<2, -2>>, <<3, -3>>, <<2, -1>>, <<2, 1>>, <<2, -3>>},
        {<<3, 1>>, <<1, -2>>})
VTerms8Mid ==
  Terms(So8, V, {<<1, 2>>, <<1, -1>>, <<1, 1>>, <<3, 1>>, <<3, -1>>},
        {<<1, -3>>, <<3, -1>>, <<3, -2>>, Center, <<1, -1>>, <<3, 2>>, <<2, -2>>})
VTerms8End == Terms(So8, V, {<<1, -2>>, Center}, {<<2, -1>>, <<2, 1>>, <<2, 2>>, <<1, 1>>})

(* The terms with u are the same; their differences within the x-y plane,  *)
(* and along z at the point itself, are computed first.                    *)
Like(terms) == {[r EXCEPT !.var = U] : r \in {r \in terms : r.var = V}}
Hoisted(o, terms) ==
  {r \in Like(terms) : r.at[3] = 0} \cup Read(U, 0, Here, Line(3, 3, o.sided))
UHoisted4 == Hoisted(So4, VTerms4 \cup VTerms4End)
UHoisted8 == Hoisted(So8, VTerms8 \cup VTerms8Mid \cup VTerms8End)
UTerms4 ==
  Like(VTerms4 \cup VTerms4End)
  \cup Angles({<<a, k>> : a \in 1 .. 3, k \in -2 .. 1})
(* The rest of the differences of u, in the order of the code.  An angle   *)
(* is read again where no difference is left to be taken.                  *)
OffPlane(terms) == {r \in terms : r.var = U => r.at[3] # 0}
UTerms8Start ==
  OffPlane(Terms(So8, U, {<<1, 1>>, <<2, -2>>, <<2, 1>>, <<3, -1>>},
                 {<<1, -2>>, Center, <<1, 1>>, <<2, 1>>, <<3, -1>>}))
  \cup Angles({<<2, -1>>})
UTerms8Cross ==
  OffPlane(Terms(So8, U, {<<1, -2>>, Center, <<3, -3>>},
                 {Center, <<2, -2>>, <<2, 2>>, <<3, 2>>}))
  \cup Angles({<<1, -3>>, <<1, -1>>, <<1, 2>>, <<2, -3>>, <<2, 1>>, <<3, -1>>})
UTerms8Ends ==
  OffPlane(Terms(So8, U, {<<1, -1>>, <<1, 2>>, <<2, -3>>}, {<<1, -3>>, <<2, -1>>}))
UTerms8Rest ==
  OffPlane(Terms(So8, U, {<<2, -1>>, <<3, -2>>, <<3, 1>>},
                 {<<1, -1>>, <<2, -1>>, <<3, -2>>, <<3, 1>>}))
UTerms8 == UTerms8Start \cup UTerms8Cross \cup UTerms8Ends \cup UTerms8Rest

-----------------------------------------------------------------------------
LOCAL Own(f) == ReadAt(f, 0, Here) \cup ReadAt(f, -1, Here)
LOCAL Coefs(names) == UNION {ReadAt(Var(<<c>>), 0, Here) : c \in names}
NextWaves(terms) ==
  <<Equation(U, Own(U) \cup terms \cup Coefs({"damp", "m", "epsilon", "delta"})),
    Equation(V, Own(V) \cup terms \cup Coefs({"damp", "m", "delta"}))>>

DefineSo4 == NextWaves(UHoisted4 \cup UTerms4 \cup VTerms4 \cup VTerms4End)
DefineSo8 == NextWaves(UHoisted8 \cup UTerms8 \cup VTerms8 \cup VTerms8Mid \cup VTerms8End)

(* Only radius 2 and 4 are there.                                          *)
TtiRadii == {2, 4}
TTIStencil(radius) ==
  Solution("tti", 3, 1, IF radius = 2 THEN DefineSo4 ELSE DefineSo8, Everywhere, Everywhere)
=============================================================================
