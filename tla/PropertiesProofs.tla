-------------------------- MODULE PropertiesProofs --------------------------
(***************************************************************************)
(* Proofs about module Properties, for any number of objects, definitions  *)
(* and values: the arrays of values stay in step with the definitions      *)
(* (SlotsMatch), names stay unique (NamesUnique), searches for a value end *)
(* (ClearEnds), a grandparent refuses no child (GrandparentAccepts), and a *)
(* change of parent keeps the values that stay (Reparenting).              *)
(***************************************************************************)
EXTENDS Properties, InductionFacts, SequenceTheorems

-----------------------------------------------------------------------------
(* Forests *)

Parents == [Objs -> Objs \cup {NOTHING}]

\* Every set of objects has one whose parent is not in it.
Forest(par) ==
  /\ par \in Parents
  /\ \A T \in SUBSET Objs : T # {} => \E x \in T : par[x] \notin T

\* What holds for an object if it holds for its parent holds for all.
LEMMA Downwards ==
  ASSUME NEW par, Forest(par), NEW T \in SUBSET Objs,
         \A x \in Objs : (par[x] # NOTHING => par[x] \in T) => x \in T
  PROVE  T = Objs
<1> SUFFICES ASSUME Objs \ T # {}  PROVE FALSE
  OBVIOUS
<1>1. PICK x \in Objs \ T : par[x] \notin Objs \ T
  BY DEF Forest
<1>2. par[x] \in Objs \cup {NOTHING}
  BY DEF Forest, Parents
<1> QED  BY <1>1, <1>2

\* f has the value that the step function g makes of the value for the parent.
IsInherited(f, X, root, par, g) ==
  /\ f \in [Objs -> X]
  /\ \A x \in Objs : f[x] = g[<<x, IF par[x] = NOTHING THEN root ELSE f[par[x]]>>]
IsMaker(g, X) == g \in [Objs \X X -> X]

\* Definition by recursion from the parent.
LEMMA TreeRecursion ==
  ASSUME NEW par, Forest(par), NEW X, NEW root \in X, NEW g, IsMaker(g, X)
  PROVE  \E f : IsInherited(f, X, root, par, g)
<1> DEFINE Up(A) == \A x \in A : par[x] # NOTHING => par[x] \in A
           Val(f, x) == IF par[x] = NOTHING THEN root ELSE f[par[x]]
           Part(A, f) == /\ f \in [A -> X]
                         /\ \A x \in A : f[x] = g[<<x, Val(f, x)>>]
           Known(x) == \E A \in SUBSET Objs : x \in A /\ Up(A) /\ \E f \in [A -> X] : Part(A, f)
           T == {x \in Objs : Known(x)}
<1>1. \A x \in Objs : par[x] \in Objs \cup {NOTHING}
  BY DEF Forest, Parents
<1>2. ASSUME NEW A \in SUBSET Objs, NEW B \in SUBSET Objs, Up(A), Up(B),
             NEW f, NEW h, Part(A, f), Part(B, h)
      PROVE  \A x \in A \cap B : f[x] = h[x]
  <2> DEFINE D == {x \in A \cap B : f[x] # h[x]}
  <2> SUFFICES ASSUME D # {}  PROVE FALSE
    OBVIOUS
  <2>1. PICK x \in D : par[x] \notin D
    BY DEF Forest
  <2>2. Val(f, x) = Val(h, x)
    BY <1>1, <1>2, <2>1
  <2>3. f[x] = g[<<x, Val(f, x)>>] /\ h[x] = g[<<x, Val(h, x)>>]
    BY <1>2, <2>1
  <2> QED  BY <2>1, <2>2, <2>3
<1>3. T = Objs
  <2>1. ASSUME NEW x \in Objs, par[x] # NOTHING => par[x] \in T  PROVE x \in T
    <3>1. PICK A \in SUBSET Objs : /\ Up(A) /\ (par[x] # NOTHING => par[x] \in A)
                                   /\ \E f \in [A -> X] : Part(A, f)
      <4>1. CASE par[x] # NOTHING
        BY <2>1, <4>1
      <4>2. CASE par[x] = NOTHING
        <5>1. Up({}) /\ [y \in {} |-> root] \in [{} -> X]
              /\ Part({}, [y \in {} |-> root])
          OBVIOUS
        <5> QED  BY <4>2, <5>1
      <4> QED  BY <4>1, <4>2
    <3>2. PICK f \in [A -> X] : Part(A, f)
      BY <3>1
    <3>3. CASE x \in A
      BY <3>1, <3>3
    <3>4. CASE x \notin A
      <4> DEFINE B == A \cup {x}
                 h == [y \in B |-> IF y = x THEN g[<<x, Val(f, x)>>] ELSE f[y]]
      <4>1. par[x] # x
        BY <3>1, <3>4, <1>1, NothingAssumption
      <4>2. Val(f, x) \in X
        BY <3>1, <3>2
      <4>3. g[<<x, Val(f, x)>>] \in X
        BY <4>2 DEF IsMaker
      <4>4. h \in [B -> X]
        BY <3>2, <4>3
      <4>5. \A y \in B : Val(h, y) = Val(f, y)
        BY <3>1, <3>4, <4>1
      <4>6. \A y \in B : h[y] = g[<<y, Val(h, y)>>]
        BY <3>2, <3>4, <4>5
      <4>7. B \in SUBSET Objs /\ x \in B /\ Up(B)
        BY <3>1
      <4> HIDE DEF h
      <4> QED  BY <4>4, <4>6, <4>7
    <3> QED  BY <3>3, <3>4
  <2> HIDE DEF T
  <2>2. T \in SUBSET Objs
    BY DEF T
  <2> QED  BY <2>1, <2>2, Downwards
<1> DEFINE A(x) == CHOOSE A \in SUBSET Objs :
                     x \in A /\ Up(A) /\ \E f \in [A -> X] : Part(A, f)
           F(x) == CHOOSE f : f \in [A(x) -> X] /\ Part(A(x), f)
           all == [x \in Objs |-> F(x)[x]]
<1>4. \A x \in Objs : /\ A(x) \in SUBSET Objs /\ x \in A(x) /\ Up(A(x))
                      /\ Part(A(x), F(x))
  <2> TAKE x \in Objs
  <2>1. Known(x)
    BY <1>3
  <2>2. /\ A(x) \in SUBSET Objs /\ x \in A(x) /\ Up(A(x))
        /\ \E f \in [A(x) -> X] : Part(A(x), f)
    BY <2>1
  <2> HIDE DEF A
  <2>3. Part(A(x), F(x))
    BY <2>2
  <2> QED  BY <2>2, <2>3
<1> HIDE DEF A, F
<1>5. all \in [Objs -> X]
  BY <1>4
<1>6. ASSUME NEW x \in Objs  PROVE all[x] = g[<<x, Val(all, x)>>]
  <2>1. F(x)[x] = g[<<x, Val(F(x), x)>>]
    BY <1>4
  <2>2. par[x] # NOTHING => F(x)[par[x]] = F(par[x])[par[x]]
    <3>1. SUFFICES ASSUME par[x] # NOTHING  PROVE F(x)[par[x]] = F(par[x])[par[x]]
      OBVIOUS
    <3>2. par[x] \in Objs /\ par[x] \in A(x) \cap A(par[x])
      BY <1>1, <1>4, <3>1
    <3>3. /\ A(x) \in SUBSET Objs /\ A(par[x]) \in SUBSET Objs /\ Up(A(x)) /\ Up(A(par[x]))
          /\ Part(A(x), F(x)) /\ Part(A(par[x]), F(par[x]))
      BY <1>4, <3>2
    <3> QED  BY <1>2, <3>2, <3>3
  <2>3. Val(F(x), x) = Val(all, x)
    BY <1>1, <2>2
  <2> QED  BY <2>1, <2>3
<1> QED  BY <1>5, <1>6 DEF IsInherited

-----------------------------------------------------------------------------
(* The definitions an object has, and the objects above and below it *)

\* The definitions of each object are its own and then those of its parent.
IsDefs(D, defs, par) ==
  /\ D \in [Objs -> Seq(Propdef)]
  /\ \A x \in Objs : D[x] = IF par[x] = NOTHING THEN defs[x] ELSE defs[x] \o D[par[x]]

OfParent(D, p) == IF p = NOTHING THEN <<>> ELSE D[p]

LEMMA DefsExist ==
  ASSUME NEW par, Forest(par), NEW defs \in [Objs -> Seq(Propdef)]
  PROVE  \E D : IsDefs(D, defs, par)
<1> DEFINE g == [t \in Objs \X Seq(Propdef) |->
                   IF par[t[1]] = NOTHING THEN defs[t[1]] ELSE defs[t[1]] \o t[2]]
<1>1. IsMaker(g, Seq(Propdef))
  BY DEF IsMaker
<1>2. <<>> \in Seq(Propdef)
  OBVIOUS
<1>3. \A x \in Objs : \A s \in Seq(Propdef) :
        g[<<x, s>>] = IF par[x] = NOTHING THEN defs[x] ELSE defs[x] \o s
  OBVIOUS
<1> HIDE DEF g
<1>4. PICK D : IsInherited(D, Seq(Propdef), <<>>, par, g)
  BY <1>1, <1>2, TreeRecursion
<1>5. D \in [Objs -> Seq(Propdef)]
  BY <1>4 DEF IsInherited
<1>6. ASSUME NEW x \in Objs
      PROVE  D[x] = IF par[x] = NOTHING THEN defs[x] ELSE defs[x] \o D[par[x]]
  <2>1. D[x] = g[<<x, IF par[x] = NOTHING THEN <<>> ELSE D[par[x]]>>]
    BY <1>4 DEF IsInherited
  <2>2. CASE par[x] = NOTHING
    BY <1>2, <1>3, <2>1, <2>2
  <2>3. CASE par[x] # NOTHING
    <3>1. D[par[x]] \in Seq(Propdef)
      BY <1>5, <2>3 DEF Forest, Parents
    <3>2. D[x] = g[<<x, D[par[x]]>>]
      BY <2>1, <2>3
    <3> QED  BY <1>3, <2>3, <3>1, <3>2
  <2> QED  BY <2>2, <2>3
<1> QED  BY <1>5, <1>6 DEF IsDefs

\* The recursive function in DefsOf.
LEMMA DefsOfIs ==
  ASSUME NEW par, Forest(par), NEW D, IsDefs(D, propdefs, par),
         propdefs \in [Objs -> Seq(Propdef)], NEW o \in Objs \cup {NOTHING}
  PROVE  DefsOf(par, o) = OfParent(D, o)
<1> DEFINE Eq(f) == f = [x \in Objs |-> IF par[x] = NOTHING THEN propdefs[x]
                                        ELSE propdefs[x] \o f[par[x]]]
           d == CHOOSE f : Eq(f)
<1>1. DefsOf(par, o) = IF o = NOTHING THEN <<>> ELSE d[o]
  BY DEF DefsOf
<1>2. Eq(D)
  BY DEF IsDefs
<1>3. Eq(d)
  BY <1>2
<1> HIDE DEF d
<1>4. \A x \in Objs : d[x] = D[x]
  <2> DEFINE T == {x \in Objs : d[x] = D[x]}
  <2>1. ASSUME NEW x \in Objs, par[x] # NOTHING => par[x] \in T  PROVE x \in T
    <3>1. d[x] = IF par[x] = NOTHING THEN propdefs[x] ELSE propdefs[x] \o d[par[x]]
      BY <1>3
    <3>2. D[x] = IF par[x] = NOTHING THEN propdefs[x] ELSE propdefs[x] \o D[par[x]]
      BY <1>2
    <3> QED  BY <2>1, <3>1, <3>2
  <2>2. T \in SUBSET Objs
    OBVIOUS
  <2>3. T = Objs
    <3> HIDE DEF T
    <3> QED  BY <2>1, <2>2, Downwards
  <2> QED  BY <2>3
<1> QED  BY <1>1, <1>4 DEF OfParent

\* The path of each object begins with it and goes on as that of its parent.
IsPaths(P, par) ==
  /\ P \in [Objs -> Seq(Objs)]
  /\ \A x \in Objs : P[x] = IF par[x] = NOTHING THEN <<x>> ELSE <<x>> \o P[par[x]]

LEMMA PathsExist ==
  ASSUME NEW par, Forest(par)
  PROVE  \E P : IsPaths(P, par)
<1> DEFINE g == [t \in Objs \X Seq(Objs) |->
                   IF par[t[1]] = NOTHING THEN <<t[1]>> ELSE <<t[1]>> \o t[2]]
<1>1. IsMaker(g, Seq(Objs))
  BY DEF IsMaker
<1>2. <<>> \in Seq(Objs)
  OBVIOUS
<1>3. \A x \in Objs : \A s \in Seq(Objs) :
        g[<<x, s>>] = IF par[x] = NOTHING THEN <<x>> ELSE <<x>> \o s
  OBVIOUS
<1> HIDE DEF g
<1>4. PICK P : IsInherited(P, Seq(Objs), <<>>, par, g)
  BY <1>1, <1>2, TreeRecursion
<1>5. P \in [Objs -> Seq(Objs)]
  BY <1>4 DEF IsInherited
<1>6. ASSUME NEW x \in Objs
      PROVE  P[x] = IF par[x] = NOTHING THEN <<x>> ELSE <<x>> \o P[par[x]]
  <2>1. P[x] = g[<<x, IF par[x] = NOTHING THEN <<>> ELSE P[par[x]]>>]
    BY <1>4 DEF IsInherited
  <2>2. CASE par[x] = NOTHING
    BY <1>2, <1>3, <2>1, <2>2
  <2>3. CASE par[x] # NOTHING
    <3>1. P[par[x]] \in Seq(Objs)
      BY <1>5, <2>3 DEF Forest, Parents
    <3>2. P[x] = g[<<x, P[par[x]]>>]
      BY <2>1, <2>3
    <3> QED  BY <1>3, <2>3, <3>1, <3>2
  <2> QED  BY <2>2, <2>3
<1> QED  BY <1>5, <1>6 DEF IsPaths

\* The recursive function in Path.
LEMMA PathIs ==
  ASSUME NEW par, Forest(par)
  PROVE  /\ IsPaths([x \in Objs |-> Path(par, x)], par)
         /\ Path(par, NOTHING) = <<>>
<1> DEFINE Eq(f) == f = [x \in Objs |-> IF par[x] = NOTHING THEN <<x>> ELSE <<x>> \o f[par[x]]]
           up == CHOOSE f : Eq(f)
<1>1. PICK P : IsPaths(P, par)
  BY PathsExist
<1>2. Eq(P)
  BY <1>1 DEF IsPaths
<1>3. Eq(up)
  BY <1>2
<1>4. \A o : Path(par, o) = IF o = NOTHING THEN <<>> ELSE up[o]
  BY DEF Path
<1> HIDE DEF up
<1>5. \A x \in Objs : up[x] = P[x]
  <2> DEFINE T == {x \in Objs : up[x] = P[x]}
  <2>1. ASSUME NEW x \in Objs, par[x] # NOTHING => par[x] \in T  PROVE x \in T
    <3>1. up[x] = IF par[x] = NOTHING THEN <<x>> ELSE <<x>> \o up[par[x]]
      BY <1>3
    <3>2. P[x] = IF par[x] = NOTHING THEN <<x>> ELSE <<x>> \o P[par[x]]
      BY <1>2
    <3> QED  BY <2>1, <3>1, <3>2
  <2>2. T \in SUBSET Objs
    OBVIOUS
  <2>3. T = Objs
    <3> HIDE DEF T
    <3> QED  BY <2>1, <2>2, Downwards
  <2> QED  BY <2>3
<1>6. \A x \in Objs : x # NOTHING
  BY NothingAssumption
<1>7. [x \in Objs |-> Path(par, x)] = P
  BY <1>1, <1>4, <1>5, <1>6 DEF IsPaths
<1> QED  BY <1>1, <1>4, <1>7

\* A holds o and what is below it.
IsBelow(A, par, o) ==
  A \subseteq Objs /\ \A d \in Objs : d \in A <=> d = o \/ par[d] \in A

\* Whether x is on the path of o.
LEMMA OnPath ==
  ASSUME NEW par, Forest(par), NEW o \in Objs, NEW x
  PROVE  Contains(Path(par, o), x)
           <=> o = x \/ (par[o] # NOTHING /\ Contains(Path(par, par[o]), x))
<1> DEFINE P == [y \in Objs |-> Path(par, y)]
<1>1. IsPaths(P, par)
  BY PathIs
<1>2. P[o] = Path(par, o) /\ (par[o] # NOTHING => P[par[o]] = Path(par, par[o]))
  BY DEF Forest, Parents
<1> HIDE DEF P
<1>3. CASE par[o] = NOTHING
  <2>1. P[o] = <<o>>
    BY <1>1, <1>3 DEF IsPaths
  <2> QED  BY <1>2, <1>3, <2>1 DEF Contains
<1>4. CASE par[o] # NOTHING
  <2> DEFINE s == P[par[o]]
  <2>1. s \in Seq(Objs) /\ P[o] = <<o>> \o s
    BY <1>1, <1>4 DEF IsPaths, Forest, Parents
  <2> HIDE DEF s
  <2>2. /\ Len(<<o>> \o s) = Len(s) + 1 /\ (<<o>> \o s)[1] = o
        /\ \A i \in 1..Len(s) : (<<o>> \o s)[i + 1] = s[i]
    BY <2>1
  <2>3. (\E i \in 1..(Len(s) + 1) : P[o][i] = x) <=> o = x \/ \E i \in 1..Len(s) : s[i] = x
    <3>1. ASSUME NEW i \in 1..(Len(s) + 1), P[o][i] = x
          PROVE  o = x \/ \E j \in 1..Len(s) : s[j] = x
      <4>1. CASE i = 1
        BY <2>1, <2>2, <3>1, <4>1
      <4>2. CASE i # 1
        <5>1. i - 1 \in 1..Len(s) /\ (i - 1) + 1 = i
          BY <2>1, <4>2
        <5>2. s[i - 1] = x
          BY <2>1, <2>2, <3>1, <5>1
        <5> QED  BY <5>1, <5>2
      <4> QED  BY <4>1, <4>2
    <3>2. ASSUME o = x  PROVE 1 \in 1..(Len(s) + 1) /\ P[o][1] = x
      BY <2>1, <2>2, <3>2
    <3>3. ASSUME NEW j \in 1..Len(s), s[j] = x
          PROVE  j + 1 \in 1..(Len(s) + 1) /\ P[o][j + 1] = x
      BY <2>1, <2>2, <3>3
    <3> QED  BY <3>1, <3>2, <3>3
  <2>4. Len(P[o]) = Len(s) + 1
    BY <2>1, <2>2
  <2>5. Contains(P[o], x) <=> o = x \/ Contains(s, x)
    BY <2>3, <2>4 DEF Contains
  <2>6. s = Path(par, par[o])
    BY <1>2, <1>4 DEF s
  <2> QED  BY <1>2, <1>4, <2>5, <2>6
<1> QED  BY <1>3, <1>4

LEMMA NothingOnPath ==
  ASSUME NEW par, Forest(par), NEW x
  PROVE  ~Contains(Path(par, NOTHING), x)
<1>1. Path(par, NOTHING) = <<>>
  BY PathIs
<1> QED  BY <1>1 DEF Contains

LEMMA AtOrBelowIs ==
  ASSUME NEW par, Forest(par), NEW o
  PROVE  IsBelow(AtOrBelow(par, o), par, o)
<1> DEFINE A == {d \in Objs : Contains(Path(par, d), o)}
<1>1. AtOrBelow(par, o) = A
  BY DEF AtOrBelow
<1>2. ASSUME NEW d \in Objs  PROVE d \in A <=> d = o \/ par[d] \in A
  <2>1. d \in A <=> d = o \/ (par[d] # NOTHING /\ Contains(Path(par, par[d]), o))
    BY OnPath
  <2>2. par[d] \in Objs \cup {NOTHING} /\ NOTHING \notin Objs
    BY NothingAssumption DEF Forest, Parents
  <2> QED  BY <2>1, <2>2
<1> QED  BY <1>1, <1>2 DEF IsBelow

LEMMA BelowUnique ==
  ASSUME NEW par, Forest(par), NEW o, NEW A, NEW B, IsBelow(A, par, o), IsBelow(B, par, o)
  PROVE  A = B
<1> DEFINE T == {x \in Objs : x \in A <=> x \in B}
<1>1. ASSUME NEW x \in Objs, par[x] # NOTHING => par[x] \in T  PROVE x \in T
  <2>1. par[x] \in A <=> par[x] \in B
    BY <1>1, NothingAssumption DEF IsBelow
  <2> QED  BY <2>1 DEF IsBelow
<1>2. T \in SUBSET Objs
  OBVIOUS
<1>3. T = Objs
  <2> HIDE DEF T
  <2> QED  BY <1>1, <1>2, Downwards
<1> QED  BY <1>3 DEF IsBelow

\* No object is below itself.
LEMMA ParentNotBelow ==
  ASSUME NEW par, Forest(par), NEW o \in Objs, NEW A, IsBelow(A, par, o)
  PROVE  par[o] \notin A
<1>1. o \in A /\ A \in SUBSET Objs
  BY DEF IsBelow
<1>2. PICK x \in A : par[x] \notin A
  BY <1>1 DEF Forest
<1>3. x = o
  BY <1>2 DEF IsBelow
<1> QED  BY <1>2, <1>3

-----------------------------------------------------------------------------
(* Where the definitions come from *)

\* Every element of s is a definition of an object in S.
From(s, defs, S) == \A i \in 1..Len(s) : \E e \in S : \E k \in 1..Len(defs[e]) : s[i] = defs[e][k]

LEMMA Assoc ==
  \A a, b, c \in Seq(Propdef) : (a \o b) \o c = a \o (b \o c)
BY ConcatAssociative

LEMMA FromConcat ==
  ASSUME NEW s \in Seq(Propdef), NEW t \in Seq(Propdef), NEW defs, NEW S,
         From(s, defs, S), From(t, defs, S)
  PROVE  From(s \o t, defs, S)
<1>1. /\ Len(s \o t) = Len(s) + Len(t) /\ Len(s) \in Nat /\ Len(t) \in Nat
      /\ \A i \in 1..(Len(s) + Len(t)) :
           (s \o t)[i] = IF i <= Len(s) THEN s[i] ELSE t[i - Len(s)]
  BY ConcatProperties, LenProperties
<1> SUFFICES ASSUME NEW i \in 1..(Len(s) + Len(t))
             PROVE  \E e \in S : \E k \in 1..Len(defs[e]) : (s \o t)[i] = defs[e][k]
  BY <1>1 DEF From
<1>2. CASE i <= Len(s)
  <2>1. i \in 1..Len(s) /\ (s \o t)[i] = s[i]
    BY <1>1, <1>2
  <2> QED  BY <2>1 DEF From
<1>3. CASE ~ i <= Len(s)
  <2>1. i - Len(s) \in 1..Len(t) /\ (s \o t)[i] = t[i - Len(s)]
    BY <1>1, <1>3
  <2> QED  BY <2>1 DEF From
<1> QED  BY <1>2, <1>3

LEMMA FromOwn ==
  ASSUME NEW defs, NEW S, NEW e \in S
  PROVE  From(defs[e], defs, S)
BY DEF From

LEMMA FromMore ==
  ASSUME NEW s, NEW defs, NEW S, NEW T, S \subseteq T, From(s, defs, S)
  PROVE  From(s, defs, T)
BY DEF From

\* L has of each object in A the definitions at or below o.
IsLocals(L, A, o, defs, par) ==
  /\ L \in [A -> Seq(Propdef)]
  /\ L[o] = defs[o]
  /\ \A d \in A \ {o} : L[d] = defs[d] \o L[par[d]]
  /\ \A d \in A : From(L[d], defs, A)

HasLocals(L, A, o, defs, par, D) ==
  /\ IsLocals(L, A, o, defs, par)
  /\ \A d \in A : D[d] = L[d] \o OfParent(D, par[o])

\* The definitions of an object at or below o are those at or below o and those
\* that o inherits.
LEMMA Locals ==
  \A par, defs, D, o, A :
    /\ Forest(par) /\ defs \in [Objs -> Seq(Propdef)] /\ IsDefs(D, defs, par)
    /\ o \in Objs /\ IsBelow(A, par, o)
    => \E L : HasLocals(L, A, o, defs, par, D)
<1> SUFFICES ASSUME NEW par, Forest(par), NEW defs, defs \in [Objs -> Seq(Propdef)],
                    NEW D, IsDefs(D, defs, par), NEW o \in Objs, NEW A, IsBelow(A, par, o)
             PROVE  \E L : HasLocals(L, A, o, defs, par, D)
  OBVIOUS
<1> DEFINE g == [t \in Objs \X Seq(Propdef) |->
                   IF t[1] \in A THEN defs[t[1]] \o t[2] ELSE <<>>]
<1>1. IsMaker(g, Seq(Propdef))
  BY DEF IsMaker
<1>2. <<>> \in Seq(Propdef)
  OBVIOUS
<1>3. \A x \in Objs : \A s \in Seq(Propdef) :
        g[<<x, s>>] = IF x \in A THEN defs[x] \o s ELSE <<>>
  OBVIOUS
<1> HIDE DEF g
<1>4. PICK f : IsInherited(f, Seq(Propdef), <<>>, par, g)
  BY <1>1, <1>2, TreeRecursion
<1>5. f \in [Objs -> Seq(Propdef)] /\ A \subseteq Objs /\ o \in A /\ par[o] \notin A
  BY <1>4, ParentNotBelow DEF IsInherited, IsBelow
<1>6. \A x \in Objs : par[x] # NOTHING => par[x] \in Objs
  BY DEF Forest, Parents
<1>7. ASSUME NEW x \in Objs
      PROVE  f[x] = IF x \in A THEN defs[x] \o OfParent(f, par[x]) ELSE <<>>
  <2>1. OfParent(f, par[x]) \in Seq(Propdef)
    BY <1>2, <1>5, <1>6 DEF OfParent
  <2>2. f[x] = g[<<x, OfParent(f, par[x])>>]
    BY <1>4 DEF IsInherited, OfParent
  <2> QED  BY <1>3, <2>1, <2>2
<1>8. f[o] = defs[o]
  <2>1. OfParent(f, par[o]) = <<>>
    BY <1>5, <1>6, <1>7 DEF OfParent
  <2>2. defs[o] \o <<>> = defs[o]
    BY ConcatEmptySeq
  <2> QED  BY <1>5, <1>7, <2>1, <2>2
<1>9. \A d \in A \ {o} : /\ par[d] \in A /\ par[d] # NOTHING /\ d \in Objs
                         /\ f[d] = defs[d] \o f[par[d]]
  <2> TAKE d \in A \ {o}
  <2>1. d \in Objs /\ par[d] \in A
    BY DEF IsBelow
  <2>2. par[d] # NOTHING
    BY <1>5, <2>1, NothingAssumption
  <2> QED  BY <1>7, <2>1, <2>2 DEF OfParent
<1> DEFINE T == {d \in Objs : d \in A => /\ From(f[d], defs, A)
                                         /\ D[d] = f[d] \o OfParent(D, par[o])}
<1>10. ASSUME NEW d \in Objs, par[d] # NOTHING => par[d] \in T  PROVE d \in T
  <2> SUFFICES ASSUME d \in A  PROVE /\ From(f[d], defs, A)
                                     /\ D[d] = f[d] \o OfParent(D, par[o])
    OBVIOUS
  <2>1. From(defs[d], defs, A)
    BY FromOwn
  <2>2. CASE d = o
    <3>1. D[o] = IF par[o] = NOTHING THEN defs[o] ELSE defs[o] \o D[par[o]]
      BY DEF IsDefs
    <3>2. defs[o] \o <<>> = defs[o]
      BY ConcatEmptySeq
    <3>3. D[o] = defs[o] \o OfParent(D, par[o])
      BY <3>1, <3>2 DEF OfParent
    <3> QED  BY <1>8, <2>1, <2>2, <3>3
  <2>3. CASE d # o
    <3>1. /\ par[d] \in A /\ par[d] \in T /\ par[d] \in Objs
          /\ f[d] = defs[d] \o f[par[d]] /\ D[d] = defs[d] \o D[par[d]]
      BY <1>9, <1>10, <1>5, <2>3 DEF IsDefs
    <3>2. From(f[par[d]], defs, A) /\ D[par[d]] = f[par[d]] \o OfParent(D, par[o])
      BY <3>1
    <3>3. /\ defs[d] \in Seq(Propdef) /\ f[par[d]] \in Seq(Propdef)
          /\ OfParent(D, par[o]) \in Seq(Propdef)
      BY <1>2, <1>5, <1>6, <3>1 DEF OfParent, IsDefs
    <3>4. From(f[d], defs, A)
      BY <2>1, <3>1, <3>2, <3>3, FromConcat
    <3>5. (defs[d] \o f[par[d]]) \o OfParent(D, par[o])
            = defs[d] \o (f[par[d]] \o OfParent(D, par[o]))
      BY ONLY <3>3, Assoc
    <3> QED  BY <3>1, <3>2, <3>4, <3>5
  <2> QED  BY <2>2, <2>3
<1>11. T = Objs
  <2>1. T \in SUBSET Objs
    OBVIOUS
  <2> HIDE DEF T
  <2> QED  BY <1>10, <2>1, Downwards
<1> DEFINE L == [d \in A |-> f[d]]
<1>12. \A d \in A : L[d] = f[d]
  OBVIOUS
<1>13. L \in [A -> Seq(Propdef)]
  BY <1>5
<1> HIDE DEF L
<1>14. \A d \in A : From(L[d], defs, A) /\ D[d] = L[d] \o OfParent(D, par[o])
  BY <1>5, <1>11, <1>12
<1>15. IsLocals(L, A, o, defs, par)
  BY <1>5, <1>8, <1>9, <1>12, <1>13, <1>14 DEF IsLocals
<1> QED  BY <1>14, <1>15 DEF HasLocals

-----------------------------------------------------------------------------
(* The properties that the old and the new parent have in common *)

LEMMA MinFacts ==
  ASSUME NEW I \in SUBSET Nat, I # {}
  PROVE  Min(I) \in I /\ \A y \in I : Min(I) <= y
<1>1. \E x \in I : \A y \in I : x <= y
  BY Least
<1> QED  BY <1>1 DEF Min

\* The first object of the path s of `new' that is on the path of `old'.
LEMMA CommonFirst ==
  ASSUME NEW par, NEW old, NEW new, NEW s \in Seq(Objs), s = Path(par, new)
  PROVE  /\ (\A i \in 1..Len(s) : ~Contains(Path(par, old), s[i]))
               => CommonProps(par, old, new) = 0
         /\ \A k \in 1..Len(s) :
              Contains(Path(par, old), s[k])
              /\ (\A i \in 1..(k - 1) : ~Contains(Path(par, old), s[i]))
                => CommonProps(par, old, new) = CountProperties(par, s[k])
<1> DEFINE I == {i \in 1..Len(s) : Contains(Path(par, old), s[i])}
           k == IF I # {} THEN Min(I) ELSE 0
<1>1. CommonProps(par, old, new) = IF k = 0 THEN 0 ELSE CountProperties(par, s[k])
  BY DEF CommonProps, SelectInSeq
<1>2. Len(s) \in Nat /\ I \in SUBSET Nat
  OBVIOUS
<1>3. ASSUME \A i \in 1..Len(s) : ~Contains(Path(par, old), s[i])
      PROVE  k = 0
  BY <1>3
<1>4. ASSUME NEW m \in 1..Len(s), Contains(Path(par, old), s[m]),
             \A i \in 1..(m - 1) : ~Contains(Path(par, old), s[i])
      PROVE  k = m
  <2>1. m \in I
    BY <1>4
  <2>2. k \in I /\ k <= m
    BY <1>2, <2>1, MinFacts
  <2>3. k \in 1..Len(s) /\ Contains(Path(par, old), s[k])
    BY <2>2
  <2> HIDE DEF k
  <2>4. ~ k < m
    BY <1>2, <1>4, <2>3
  <2> QED  BY <1>2, <2>2, <2>3, <2>4
<1> HIDE DEF k
<1>5. \A m \in 1..Len(s) : m # 0
  BY <1>2
<1> QED  BY <1>1, <1>3, <1>4, <1>5

LEMMA CommonStep ==
  ASSUME NEW par, Forest(par), NEW old, NEW p \in Objs
  PROVE  /\ CommonProps(par, old, NOTHING) = 0
         /\ CommonProps(par, old, p) =
              IF Contains(Path(par, old), p) THEN CountProperties(par, p)
              ELSE CommonProps(par, old, par[p])
<1> DEFINE On(x) == Contains(Path(par, old), x)
           t == Path(par, par[p])
           s == Path(par, p)
<1>1. IsPaths([x \in Objs |-> Path(par, x)], par) /\ Path(par, NOTHING) = <<>>
  BY PathIs
<1>2. par[p] \in Objs \cup {NOTHING}
  BY DEF Forest, Parents
<1>3. t \in Seq(Objs) /\ s = <<p>> \o t
  <2>1. CASE par[p] = NOTHING
    <3>1. s = <<p>>
      BY <1>1, <2>1 DEF IsPaths
    <3>2. t = <<>>
      BY <1>1, <2>1
    <3>3. <<p>> \o <<>> = <<p>> /\ <<>> \in Seq(Objs)
      BY ConcatEmptySeq
    <3> QED  BY <3>1, <3>2, <3>3
  <2>2. CASE par[p] # NOTHING
    BY <1>1, <1>2, <2>2 DEF IsPaths
  <2> QED  BY <2>1, <2>2
<1>4. s \in Seq(Objs)
  BY <1>3
<1>5. CommonProps(par, old, NOTHING) = 0
  <2>1. Path(par, NOTHING) \in Seq(Objs) /\ Len(Path(par, NOTHING)) = 0
    BY <1>1
  <2>2. (\A i \in 1..Len(Path(par, NOTHING)) : ~On(Path(par, NOTHING)[i]))
          => CommonProps(par, old, NOTHING) = 0
    BY <2>1, CommonFirst
  <2> QED  BY <2>1, <2>2
<1>6. /\ (\A i \in 1..Len(t) : ~On(t[i])) => CommonProps(par, old, par[p]) = 0
      /\ \A k \in 1..Len(t) : On(t[k]) /\ (\A i \in 1..(k - 1) : ~On(t[i]))
                                => CommonProps(par, old, par[p]) = CountProperties(par, t[k])
  BY <1>3, CommonFirst
<1>7. /\ (\A i \in 1..Len(s) : ~On(s[i])) => CommonProps(par, old, p) = 0
      /\ \A k \in 1..Len(s) : On(s[k]) /\ (\A i \in 1..(k - 1) : ~On(s[i]))
                                => CommonProps(par, old, p) = CountProperties(par, s[k])
  BY <1>4, CommonFirst
<1> HIDE DEF s, t, On
<1>8. /\ Len(t) \in Nat /\ Len(s) = Len(t) + 1 /\ s[1] = p
      /\ \A i \in 1..Len(t) : s[i + 1] = t[i]
  BY <1>3
<1>9. CASE On(p)
  <2>1. 1 \in 1..Len(s) /\ On(s[1]) /\ \A i \in 1..(1 - 1) : ~On(s[i])
    BY <1>8, <1>9
  <2>2. CommonProps(par, old, p) = CountProperties(par, s[1])
    BY <1>7, <2>1
  <2> QED  BY <1>5, <1>8, <1>9, <2>2 DEF On
<1>10. CASE ~On(p)
  <2>1. \A i \in 1..Len(s) : i = 1 \/ (i - 1 \in 1..Len(t) /\ s[i] = t[i - 1])
    <3> TAKE i \in 1..Len(s)
    <3>1. CASE i # 1
      <4>1. i - 1 \in 1..Len(t) /\ (i - 1) + 1 = i
        BY <1>8, <3>1
      <4> QED  BY <1>8, <4>1
    <3> QED  BY <3>1
  <2>2. CASE \A i \in 1..Len(t) : ~On(t[i])
    <3>1. \A i \in 1..Len(s) : ~On(s[i])
      BY <1>8, <1>10, <2>1, <2>2
    <3>2. CommonProps(par, old, p) = 0 /\ CommonProps(par, old, par[p]) = 0
      BY <1>6, <1>7, <2>2, <3>1
    <3> QED  BY <1>5, <1>10, <3>2 DEF On
  <2>3. CASE \E i \in 1..Len(t) : On(t[i])
    <3> DEFINE J == {i \in 1..Len(t) : On(t[i])}
    <3>1. J \in SUBSET Nat /\ J # {}
      BY <1>8, <2>3
    <3>2. PICK k \in J : \A i \in J : k <= i
      BY <3>1, Least
    <3>3. k \in 1..Len(t) /\ On(t[k]) /\ \A i \in 1..(k - 1) : ~On(t[i])
      BY <1>8, <3>2
    <3>4. CommonProps(par, old, par[p]) = CountProperties(par, t[k])
      BY <1>6, <3>3
    <3>5. k + 1 \in 1..Len(s) /\ s[k + 1] = t[k]
      BY <1>8, <3>3
    <3>6. \A i \in 1..((k + 1) - 1) : ~On(s[i])
      <4> TAKE i \in 1..((k + 1) - 1)
      <4>1. i \in 1..Len(s) /\ (i # 1 => i - 1 \in 1..(k - 1))
        BY <1>8, <3>3
      <4> QED  BY <1>8, <1>10, <2>1, <3>3, <4>1
    <3>7. CommonProps(par, old, p) = CountProperties(par, s[k + 1])
      BY <1>7, <3>3, <3>5, <3>6
    <3> QED  BY <1>5, <1>10, <3>4, <3>5, <3>7 DEF On
  <2> QED  BY <2>2, <2>3
<1> QED  BY <1>9, <1>10

\* The objects on the path of o.
Above(par, o) == {e \in Objs : Contains(Path(par, o), e)}

\* What an object has comes from what is above it.
LEMMA FromAbove ==
  ASSUME NEW par, Forest(par), NEW defs \in [Objs -> Seq(Propdef)],
         NEW D, IsDefs(D, defs, par), NEW o \in Objs
  PROVE  From(D[o], defs, Above(par, o))
<1> DEFINE U == {y \in Objs : From(D[y], defs, Above(par, y))}
<1>1. ASSUME NEW y \in Objs, par[y] # NOTHING => par[y] \in U  PROVE y \in U
  <2>1. y \in Above(par, y)
    BY OnPath DEF Above
  <2>2. From(defs[y], defs, Above(par, y))
    BY <2>1, FromOwn
  <2>3. CASE par[y] = NOTHING
    BY <2>2, <2>3 DEF IsDefs
  <2>4. CASE par[y] # NOTHING
    <3>1. par[y] \in Objs /\ From(D[par[y]], defs, Above(par, par[y]))
      BY <1>1, <2>4
    <3>2. Above(par, par[y]) \subseteq Above(par, y)
      BY <2>4, <3>1, OnPath DEF Above
    <3>3. From(D[par[y]], defs, Above(par, y))
      BY <3>1, <3>2, FromMore
    <3>4. defs[y] \in Seq(Propdef) /\ D[par[y]] \in Seq(Propdef)
      BY <3>1 DEF IsDefs
    <3>5. From(defs[y] \o D[par[y]], defs, Above(par, y))
      BY <2>2, <3>3, <3>4, FromConcat
    <3> QED  BY <2>4, <3>5 DEF IsDefs
  <2> QED  BY <2>3, <2>4
<1>2. U = Objs
  <2>1. U \in SUBSET Objs
    OBVIOUS
  <2> HIDE DEF U
  <2> QED  BY <1>1, <2>1, Downwards
<1> QED  BY <1>2

\* An object has what every object on its path has, after what is defined below.
LEMMA Suffix ==
  ASSUME NEW par, Forest(par), NEW defs \in [Objs -> Seq(Propdef)],
         NEW D, IsDefs(D, defs, par), NEW e \in Objs, NEW q \in Objs,
         e \in Above(par, q)
  PROVE  \E s \in Seq(Propdef) : D[q] = s \o D[e] /\ From(s, defs, Above(par, q))
<1> DEFINE Ends(y) == \E s \in Seq(Propdef) : D[y] = s \o D[e] /\ From(s, defs, Above(par, y))
           T == {y \in Objs : e \in Above(par, y) => Ends(y)}
<1>1. ASSUME NEW y \in Objs, par[y] # NOTHING => par[y] \in T  PROVE y \in T
  <2> SUFFICES ASSUME e \in Above(par, y)  PROVE Ends(y)
    OBVIOUS
  <2>1. D[e] \in Seq(Propdef) /\ defs[y] \in Seq(Propdef)
    BY DEF IsDefs
  <2>2. CASE y = e
    <3>1. <<>> \in Seq(Propdef) /\ <<>> \o D[e] = D[e]
      BY <2>1, ConcatEmptySeq
    <3>2. From(<<>>, defs, Above(par, y))
      BY DEF From
    <3> QED  BY <2>2, <3>1, <3>2
  <2>3. CASE y # e
    <3>1. par[y] # NOTHING /\ Contains(Path(par, par[y]), e) /\ par[y] \in Objs
      BY <2>3, OnPath DEF Above, Forest, Parents
    <3>2. Ends(par[y])
      BY <1>1, <3>1 DEF Above
    <3>3. PICK s \in Seq(Propdef) : D[par[y]] = s \o D[e] /\ From(s, defs, Above(par, par[y]))
      BY <3>2
    <3>4. D[y] = defs[y] \o D[par[y]]
      BY <3>1 DEF IsDefs
    <3>5. (defs[y] \o s) \o D[e] = defs[y] \o (s \o D[e])
      BY ONLY <2>1, s \in Seq(Propdef), Assoc
    <3>6. Above(par, par[y]) \subseteq Above(par, y) /\ y \in Above(par, y)
      BY <3>1, OnPath DEF Above
    <3>7. From(defs[y], defs, Above(par, y)) /\ From(s, defs, Above(par, y))
      BY <3>3, <3>6, FromOwn, FromMore
    <3>8. From(defs[y] \o s, defs, Above(par, y)) /\ defs[y] \o s \in Seq(Propdef)
      BY <2>1, <3>7, FromConcat, ConcatProperties
    <3>9. D[y] = (defs[y] \o s) \o D[e]
      BY <3>3, <3>4, <3>5
    <3> HIDE DEF T
    <3> QED  BY <3>8, <3>9
  <2> QED  BY <2>2, <2>3
<1>2. T = Objs
  <2>1. T \in SUBSET Objs
    OBVIOUS
  <2> HIDE DEF T
  <2> QED  BY <1>1, <2>1, Downwards
<1> QED  BY <1>2

\* What CommonProps counts is the common end of the properties of the old and the
\* new parent; what comes before it is defined on different objects.
IsCommon(N, O, C, D, defs, par, old, new) ==
  /\ N \in Seq(Propdef) /\ O \in Seq(Propdef) /\ C \in Seq(Propdef)
  /\ OfParent(D, new) = N \o C
  /\ OfParent(D, old) = O \o C
  /\ CommonProps(par, old, new) = Len(C)
  /\ From(N, defs, Objs \ Above(par, old))
  /\ From(O, defs, Above(par, old))

LEMMA Common ==
  ASSUME NEW par, Forest(par), propdefs \in [Objs -> Seq(Propdef)],
         NEW D, IsDefs(D, propdefs, par),
         NEW old \in Objs \cup {NOTHING}, NEW new \in Objs \cup {NOTHING}
  PROVE  \E N, O, C : IsCommon(N, O, C, D, propdefs, par, old, new)
<1> DEFINE Has(y) == \E N, O, C : IsCommon(N, O, C, D, propdefs, par, old, y)
           T == {y \in Objs : Has(y)}
<1>1. /\ \A y \in Objs : D[y] \in Seq(Propdef) /\ propdefs[y] \in Seq(Propdef)
      /\ \A y : From(<<>>, propdefs, y)
      /\ <<>> \in Seq(Propdef) /\ Len(<<>>) = 0
      /\ \A s \in Seq(Propdef) : <<>> \o s = s /\ s \o <<>> = s
  BY ConcatEmptySeq DEF IsDefs, From
<1>2. From(OfParent(D, old), propdefs, Above(par, old)) /\ OfParent(D, old) \in Seq(Propdef)
  <2>1. CASE old = NOTHING
    BY <1>1, <2>1 DEF OfParent
  <2>2. CASE old # NOTHING
    <3>1. From(D[old], propdefs, Above(par, old))
      BY <2>2, FromAbove
    <3> QED  BY <1>1, <2>2, <3>1 DEF OfParent
  <2> QED  BY <2>1, <2>2
<1>3. Has(NOTHING)
  <2>1. CommonProps(par, old, NOTHING) = 0
    <3>1. CASE Objs = {}
      <4>1. IsPaths([x \in Objs |-> Path(par, x)], par) /\ Path(par, NOTHING) = <<>>
        BY PathIs
      <4>2. <<>> \in Seq(Objs) /\ \A i \in 1..Len(<<>>) : ~Contains(Path(par, old), <<>>[i])
        OBVIOUS
      <4> QED  BY <4>1, <4>2, CommonFirst
    <3>2. CASE Objs # {}
      BY <3>2, CommonStep
    <3> QED  BY <3>1, <3>2
  <2>2. OfParent(D, NOTHING) = <<>>
    BY DEF OfParent
  <2>3. <<>> \o <<>> = <<>> /\ OfParent(D, old) \o <<>> = OfParent(D, old)
    BY <1>1, <1>2
  <2>4. IsCommon(<<>>, OfParent(D, old), <<>>, D, propdefs, par, old, NOTHING)
    BY <1>1, <1>2, <2>1, <2>2, <2>3 DEF IsCommon
  <2> QED  BY <2>4
<1>4. ASSUME NEW y \in Objs, par[y] # NOTHING => par[y] \in T  PROVE y \in T
  <2>1. OfParent(D, y) = D[y]
    BY NothingAssumption DEF OfParent
  <2>2. CASE Contains(Path(par, old), y)
    <3>1. CommonProps(par, old, y) = Len(D[y])
      BY <2>1, <2>2, CommonStep, DefsOfIs DEF CountProperties
    <3>2. old \in Objs /\ y \in Above(par, old)
      BY <2>2, NothingOnPath DEF Above
    <3>3. PICK s \in Seq(Propdef) : D[old] = s \o D[y] /\ From(s, propdefs, Above(par, old))
      BY <3>2, Suffix
    <3>4. OfParent(D, old) = D[old]
      BY <3>2, NothingAssumption DEF OfParent
    <3>5. IsCommon(<<>>, s, D[y], D, propdefs, par, old, y)
      BY <1>1, <2>1, <3>1, <3>3, <3>4 DEF IsCommon
    <3> QED  BY <3>5
  <2>3. CASE ~Contains(Path(par, old), y)
    <3>1. CommonProps(par, old, y) = CommonProps(par, old, par[y])
      BY <2>3, CommonStep
    <3>2. Has(par[y])
      BY <1>3, <1>4
    <3>3. PICK N, O, C : IsCommon(N, O, C, D, propdefs, par, old, par[y])
      BY <3>2
    <3>4. D[y] = propdefs[y] \o OfParent(D, par[y])
      <4>1. propdefs[y] \o <<>> = propdefs[y]
        BY <1>1
      <4> QED  BY <4>1 DEF IsDefs, OfParent
    <3>5. N \in Seq(Propdef) /\ C \in Seq(Propdef) /\ propdefs[y] \in Seq(Propdef)
      BY <1>1, <3>3 DEF IsCommon
    <3>6. (propdefs[y] \o N) \o C = propdefs[y] \o (N \o C)
      BY ONLY <3>5, Assoc
    <3>7. From(propdefs[y], propdefs, Objs \ Above(par, old))
      BY <2>3, FromOwn DEF Above
    <3>8. From(propdefs[y] \o N, propdefs, Objs \ Above(par, old))
          /\ propdefs[y] \o N \in Seq(Propdef)
      BY <3>3, <3>5, <3>7, FromConcat, ConcatProperties DEF IsCommon
    <3>9. OfParent(D, par[y]) = N \o C
      BY <3>3 DEF IsCommon
    <3>10. D[y] = (propdefs[y] \o N) \o C
      BY <3>4, <3>6, <3>9
    <3>11. IsCommon(propdefs[y] \o N, O, C, D, propdefs, par, old, y)
      BY <2>1, <3>1, <3>3, <3>8, <3>10 DEF IsCommon
    <3> QED  BY <3>11
  <2> QED  BY <2>2, <2>3
<1>5. T = Objs
  <2>1. T \in SUBSET Objs
    OBVIOUS
  <2> HIDE DEF T
  <2> QED  BY <1>4, <2>1, Downwards
<1> QED  BY <1>3, <1>5

-----------------------------------------------------------------------------
(* Another parent *)

Reparented(par, o, p) == [par EXCEPT ![o] = p]

LEMMA MovedForest ==
  ASSUME NEW par, Forest(par), NEW o \in Objs, NEW p \in Objs \cup {NOTHING},
         NEW A, IsBelow(A, par, o), p \notin A
  PROVE  Forest(Reparented(par, o, p)) /\ IsBelow(A, Reparented(par, o, p), o)
<1> DEFINE q == [par EXCEPT ![o] = p]
<1>1. q \in Parents /\ q[o] = p /\ \A x \in Objs \ {o} : q[x] = par[x]
  BY DEF Forest, Parents
<1> HIDE DEF q
<1>2. IsBelow(A, q, o)
  BY <1>1 DEF IsBelow
<1>3. ASSUME NEW T \in SUBSET Objs, T # {}  PROVE \E x \in T : q[x] \notin T
  <2>1. CASE o \notin T
    BY <1>1, <1>3, <2>1 DEF Forest
  <2>2. CASE o \in T /\ p \notin T
    BY <1>1, <2>2
  <2>3. CASE o \in T /\ p \in T
    <3>1. T \ A \in SUBSET Objs /\ T \ A # {}
      BY <2>3
    <3>2. PICK x \in T \ A : par[x] \notin T \ A
      BY <3>1 DEF Forest
    <3>3. x # o /\ par[x] \notin A
      BY <3>2 DEF IsBelow
    <3> QED  BY <1>1, <3>2, <3>3
  <2> QED  BY <2>1, <2>2, <2>3
<1>4. Forest(q)
  BY <1>1, <1>3 DEF Forest
<1> QED  BY <1>2, <1>4 DEF q, Reparented

\* L(d) followed by what the new parent has, for what is at or below o.
Defs2(D, L, A, p) == [x \in Objs |-> IF x \in A THEN L[x] \o OfParent(D, p) ELSE D[x]]

LEMMA MovedDefs ==
  ASSUME NEW par, Forest(par), NEW o \in Objs, NEW p \in Objs \cup {NOTHING},
         NEW A, IsBelow(A, par, o), p \notin A, NEW defs \in [Objs -> Seq(Propdef)],
         NEW D, IsDefs(D, defs, par), NEW L, IsLocals(L, A, o, defs, par)
  PROVE  /\ IsDefs(Defs2(D, L, A, p), defs, Reparented(par, o, p))
         /\ \A x \in (Objs \cup {NOTHING}) \ A :
              OfParent(Defs2(D, L, A, p), x) = OfParent(D, x)
         /\ IsLocals(L, A, o, defs, Reparented(par, o, p))
<1> DEFINE q == [par EXCEPT ![o] = p]
           E == Defs2(D, L, A, p)
           r == OfParent(D, p)
<1>1. q[o] = p /\ \A x \in Objs \ {o} : q[x] = par[x]
  BY DEF Forest, Parents
<1>2. /\ \A x \in Objs \cap A : E[x] = L[x] \o r
      /\ \A x \in Objs \ A : E[x] = D[x]
  BY DEF Defs2
<1>3. r \in Seq(Propdef) /\ \A x \in Objs : D[x] \in Seq(Propdef)
  BY DEF OfParent, IsDefs
<1>4. A \subseteq Objs /\ o \in A /\ \A x \in A : L[x] \in Seq(Propdef)
  BY DEF IsBelow, IsLocals
<1>5. E \in [Objs -> Seq(Propdef)]
  <2>1. \A x \in Objs : (IF x \in A THEN L[x] \o r ELSE D[x]) \in Seq(Propdef)
    BY <1>3, <1>4, ConcatProperties
  <2> QED  BY <2>1 DEF Defs2
<1>6. \A x \in (Objs \cup {NOTHING}) \ A : OfParent(E, x) = OfParent(D, x)
  BY <1>2 DEF OfParent
<1> HIDE DEF q, E
<1>7. ASSUME NEW x \in Objs
      PROVE  E[x] = IF q[x] = NOTHING THEN defs[x] ELSE defs[x] \o E[q[x]]
  <2>1. CASE x \notin A
    <3>1. x # o /\ par[x] \notin A /\ q[x] = par[x] /\ par[x] \in Objs \cup {NOTHING}
      BY <1>1, <1>4, <2>1 DEF IsBelow, Forest, Parents
    <3>2. E[x] = D[x] /\ (par[x] # NOTHING => E[par[x]] = D[par[x]])
      BY <1>2, <2>1, <3>1
    <3> QED  BY <3>1, <3>2 DEF IsDefs
  <2>2. CASE x = o
    <3>1. E[o] = defs[o] \o r
      BY <1>2, <1>4 DEF IsLocals
    <3>2. r = IF p = NOTHING THEN <<>> ELSE E[p]
      BY <1>2 DEF OfParent
    <3>3. defs[o] \o <<>> = defs[o]
      BY ConcatEmptySeq
    <3> QED  BY <1>1, <2>2, <3>1, <3>2, <3>3
  <2>3. CASE x \in A /\ x # o
    <3>1. par[x] \in A /\ q[x] = par[x] /\ par[x] # NOTHING /\ par[x] \in Objs
      BY <1>1, <1>4, <2>3, NothingAssumption DEF IsBelow
    <3>2. L[x] = defs[x] \o L[par[x]] /\ E[x] = L[x] \o r /\ E[par[x]] = L[par[x]] \o r
      BY <1>2, <1>4, <2>3, <3>1 DEF IsLocals
    <3>3. defs[x] \in Seq(Propdef) /\ L[par[x]] \in Seq(Propdef)
      BY <1>4, <3>1
    <3>4. (defs[x] \o L[par[x]]) \o r = defs[x] \o (L[par[x]] \o r)
      BY ONLY ZenonT(60), <1>3, <3>3, Assoc
    <3> QED  BY <3>1, <3>2, <3>4
  <2> QED  BY <2>1, <2>2, <2>3
<1>8. IsDefs(E, defs, q)
  BY <1>5, <1>7 DEF IsDefs
<1>9. IsLocals(L, A, o, defs, q)
  BY <1>1, <1>4 DEF IsLocals
<1> QED  BY <1>6, <1>8, <1>9 DEF q, E, Reparented

-----------------------------------------------------------------------------
(* fix_props() *)


DbOf(par, own, v) == [parent |-> par, owner |-> own, propval |-> v]

ValuesOf(v, p) == IF p = NOTHING THEN <<>> ELSE v[p]

LEMMA InheritedIs ==
  ASSUME NEW r \in Pval, NEW u \in Objs \cup {NOTHING}
  PROVE  /\ Inherited(r, u) \in Pval
         /\ Inherited(r, u) = [def |-> r.def, var |-> CLEAR,
                               owner |-> IF r.chown THEN u ELSE r.owner, chown |-> r.chown]
<1>1. Inherited(r, u) \in Pval
  BY DEF Inherited, Pval
<1>2. /\ Inherited(r, u).def = r.def /\ Inherited(r, u).var = CLEAR
      /\ Inherited(r, u).chown = r.chown
      /\ Inherited(r, u).owner = IF r.chown THEN u ELSE r.owner
  BY DEF Inherited, Pval
<1> QED  BY ONLY <1>1, <1>2 DEF Pval

LEMMA InheritedFacts ==
  ASSUME NEW v \in Pval, NEW w \in Objs \cup {NOTHING}
  PROVE  /\ Inherited(v, w) \in Pval
         /\ Inherited(v, w).def = v.def
         /\ \A u \in Objs \cup {NOTHING} : Inherited(Inherited(v, u), w) = Inherited(v, w)
<1>1. \A u \in Objs \cup {NOTHING} :
        /\ Inherited(v, u) \in Pval
        /\ Inherited(v, u) = [def |-> v.def, var |-> CLEAR,
                              owner |-> IF v.chown THEN u ELSE v.owner, chown |-> v.chown]
  BY InheritedIs
<1>2. ASSUME NEW u \in Objs \cup {NOTHING}
      PROVE  Inherited(Inherited(v, u), w) = Inherited(v, w)
  <2>1. PICK i : i = Inherited(v, u)
    OBVIOUS
  <2>2. /\ i \in Pval
        /\ i = [def |-> v.def, var |-> CLEAR,
                owner |-> IF v.chown THEN u ELSE v.owner, chown |-> v.chown]
    BY <1>1, <2>1
  <2>3. Inherited(i, w) = [def |-> i.def, var |-> CLEAR,
                           owner |-> IF i.chown THEN w ELSE i.owner, chown |-> i.chown]
    BY <2>2, InheritedIs
  <2>4. i.def = v.def /\ i.chown = v.chown /\ (~v.chown => i.owner = v.owner)
    BY <2>2
  <2>5. Inherited(i, w) = Inherited(v, w)
    BY <1>1, <2>3, <2>4
  <2> QED  BY <2>1, <2>5
<1> QED  BY <1>1, <1>2

LEMMA PvalConcat ==
  ASSUME NEW s \in Seq(Pval), NEW t \in Seq(Pval)
  PROVE  /\ s \o t \in Seq(Pval) /\ Len(s \o t) = Len(s) + Len(t)
         /\ \A i \in 1..(Len(s) + Len(t)) :
              (s \o t)[i] = IF i <= Len(s) THEN s[i] ELSE t[i - Len(s)]
BY ConcatProperties

\* The slots of an object afterwards: the first l, then `new' from the source, then
\* the last `common'.
Refit(s, l, source, w, old, new, common) ==
  SubSeq(s, 1, l) \o [i \in 1..new |-> Inherited(source[i], w)]
    \o SubSeq(s, l + old + 1, l + old + common)

\* What Refit makes of s.
IsRefit(r, s, l, source, w, old, new, common) ==
  /\ r \in Seq(Pval) /\ Len(r) = l + new + common
  /\ \A i \in 1..l : r[i] = s[i]
  /\ \A i \in 1..new : r[l + i] = Inherited(source[i], w)
  /\ \A i \in 1..common : r[l + new + i] = s[l + old + i]

LEMMA RefitIs ==
  \A s, source \in Seq(Pval), l, old, new, common \in Nat, w \in Objs \cup {NOTHING} :
    Len(s) = l + old + common /\ new <= Len(source) =>
      IsRefit(Refit(s, l, source, w, old, new, common), s, l, source, w, old, new, common)
<1> TAKE s, source \in Seq(Pval), l, old, new, common \in Nat, w \in Objs \cup {NOTHING}
<1> HAVE Len(s) = l + old + common /\ new <= Len(source)
<1> DEFINE a == SubSeq(s, 1, l)
           b == [i \in 1..new |-> Inherited(source[i], w)]
           c == SubSeq(s, l + old + 1, l + old + common)
           r == Refit(s, l, source, w, old, new, common)
<1>1. /\ a \in Seq(Pval) /\ Len(a) = l /\ \A i \in 1..l : a[i] = s[i]
  <2>1. \A i \in 1..l : s[i] \in Pval
    OBVIOUS
  <2>2. 1 \in Int /\ l \in Int
    OBVIOUS
  <2> QED  BY <2>1, <2>2, SubSeqProperties
<1>2. /\ b \in Seq(Pval) /\ Len(b) = new /\ \A i \in 1..new : b[i] = Inherited(source[i], w)
  <2>1. \A i \in 1..new : source[i] \in Pval
    OBVIOUS
  <2>2. \A i \in 1..new : Inherited(source[i], w) \in Pval
    BY <2>1, InheritedFacts
  <2> QED  BY <2>2
<1>3. /\ c \in Seq(Pval) /\ Len(c) = common /\ \A i \in 1..common : c[i] = s[l + old + i]
  <2> DEFINE m == l + old + 1
             n == l + old + common
  <2>1. m \in Int /\ n \in Int /\ (IF m <= n THEN n - m + 1 ELSE 0) = common
    OBVIOUS
  <2>2. \A i \in m..n : s[i] \in Pval
    OBVIOUS
  <2>3. /\ SubSeq(s, m, n) \in Seq(Pval)
        /\ Len(SubSeq(s, m, n)) = IF m <= n THEN n - m + 1 ELSE 0
        /\ \A i \in 1..(n - m + 1) : SubSeq(s, m, n)[i] = s[m + i - 1]
    <3> HIDE DEF m, n
    <3> QED  BY ONLY <2>1, <2>2, SubSeqProperties
  <2>4. \A i \in 1..common : i \in 1..(n - m + 1) /\ m + i - 1 = l + old + i
    OBVIOUS
  <2> QED  BY <2>1, <2>3, <2>4
<1> HIDE DEF a, b, c
<1>4. /\ a \o b \in Seq(Pval) /\ Len(a \o b) = l + new
      /\ \A i \in 1..(l + new) : (a \o b)[i] = IF i <= l THEN a[i] ELSE b[i - l]
  <2>1. a \in Seq(Pval) /\ b \in Seq(Pval)
    BY <1>1, <1>2
  <2>2. /\ a \o b \in Seq(Pval) /\ Len(a \o b) = Len(a) + Len(b)
        /\ \A i \in 1..(Len(a) + Len(b)) :
             (a \o b)[i] = IF i <= Len(a) THEN a[i] ELSE b[i - Len(a)]
    BY ONLY <2>1, PvalConcat
  <2> QED  BY <1>1, <1>2, <2>2
<1>5. r = (a \o b) \o c
  BY DEF r, Refit, a, b, c
<1>6. /\ r \in Seq(Pval) /\ Len(r) = l + new + common
      /\ \A i \in 1..(l + new + common) :
           r[i] = IF i <= l + new THEN (a \o b)[i] ELSE c[i - (l + new)]
  <2>1. l + new \in Nat
    OBVIOUS
  <2> DEFINE m == l + new
             ab == a \o b
  <2>2. /\ ab \in Seq(Pval) /\ Len(ab) = m /\ m \in Nat
    BY <1>4, <2>1
  <2> HIDE DEF m, ab
  <2>3. ab \in Seq(Pval) /\ c \in Seq(Pval)
    BY <1>3, <2>2
  <2>4. /\ ab \o c \in Seq(Pval) /\ Len(ab \o c) = Len(ab) + Len(c)
        /\ \A i \in 1..(Len(ab) + Len(c)) :
             (ab \o c)[i] = IF i <= Len(ab) THEN ab[i] ELSE c[i - Len(ab)]
    BY ONLY <2>3, PvalConcat
  <2>5. /\ ab \o c \in Seq(Pval) /\ Len(ab \o c) = m + common
        /\ \A i \in 1..(m + common) : (ab \o c)[i] = IF i <= m THEN ab[i] ELSE c[i - m]
    BY <1>3, <2>2, <2>4
  <2> QED  BY <1>5, <2>5 DEF m, ab
<1> HIDE DEF r
<1>7. \A i \in 1..l : r[i] = s[i]
  <2> TAKE i \in 1..l
  <2>1. i \in 1..(l + new + common) /\ i \in 1..(l + new) /\ i <= l + new /\ i <= l
    OBVIOUS
  <2> QED  BY <1>1, <1>4, <1>6, <2>1
<1>8. \A i \in 1..new : r[l + i] = Inherited(source[i], w)
  <2> TAKE i \in 1..new
  <2>1. /\ l + i \in 1..(l + new + common) /\ l + i \in 1..(l + new) /\ l + i <= l + new
        /\ ~ l + i <= l /\ (l + i) - l = i
    OBVIOUS
  <2> QED  BY <1>2, <1>4, <1>6, <2>1
<1>9. \A i \in 1..common : r[l + new + i] = s[l + old + i]
  <2> TAKE i \in 1..common
  <2>1. /\ l + new + i \in 1..(l + new + common) /\ ~ l + new + i <= l + new
        /\ (l + new + i) - (l + new) = i
    OBVIOUS
  <2> QED  BY <1>3, <1>6, <2>1
<1> QED  BY <1>6, <1>7, <1>8, <1>9 DEF r, IsRefit

\* The values of all objects afterwards, for the objects A at or below o.
Fixed(pv, own, L, A, source, old, new, common) ==
  [d \in Objs |-> IF d \in A
                  THEN Refit(pv[d], Len(L[d]), source, own[d], old, new, common)
                  ELSE pv[d]]

\* There are as many slots as fix_props() is told to move.
Fits(pv, L, A, source, old, new, common) ==
  new <= Len(source) /\ \A d \in A : Len(pv[d]) = Len(L[d]) + old + common

\* L has the definitions at or below o of the objects A, db is a database with these
\* parents, owners and values, and source has the values of the new parent.
Fixing(par, o, A, pv, own, db, L, source) ==
  /\ Forest(par) /\ o \in Objs /\ IsBelow(A, par, o)
  /\ propdefs \in [Objs -> Seq(Propdef)] /\ IsLocals(L, A, o, propdefs, par)
  /\ pv \in [Objs -> Seq(Pval)] /\ own \in [Objs -> Objs \cup {NOTHING}]
  /\ db = DbOf(par, own, pv)
  /\ source \in Seq(Pval) /\ source = ValuesOf(pv, par[o])

\* fix_props() takes the slots for each object from its parent, which comes before
\* it; it could as well take them from the new parent of o.
LEMMA FixPropsIs ==
  \A par, o, A, pv, own, db, L, source : \A old, new, common \in Nat :
    /\ Fixing(par, o, A, pv, own, db, L, source)
    /\ Fits(pv, L, A, source, old, new, common)
    => FixProps(db, o, old, new, common) = Fixed(pv, own, L, A, source, old, new, common)
<1> TAKE par, o, A, pv, own, db, L, source
<1> TAKE old, new, common \in Nat
<1> SUFFICES ASSUME Fixing(par, o, A, pv, own, db, L, source),
                    Fits(pv, L, A, source, old, new, common)
             PROVE  FixProps(db, o, old, new, common)
                      = Fixed(pv, own, L, A, source, old, new, common)
  OBVIOUS
<1> USE DEF Fixing
<1> DEFINE below == AtOrBelow(par, o)
           EqL(f) == f = [d \in below |-> Len(propdefs[d]) + IF d = o THEN 0 ELSE f[par[d]]]
           local == CHOOSE f : EqL(f)
           Src(f, d) == IF d # o THEN f[par[d]]
                        ELSE IF par[o] = NOTHING THEN <<>> ELSE pv[par[o]]
           Frm(d) == IF d = o THEN 0 ELSE local[par[d]]
           EqF(f) == f = [d \in below |->
                       SubSeq(pv[d], 1, local[d])
                         \o [i \in 1..new |-> Inherited(Src(f, d)[Frm(d) + i], own[d])]
                         \o SubSeq(pv[d], local[d] + old + 1, local[d] + old + common)]
           fixed == CHOOSE f : EqF(f)
<1>0. new <= Len(source) /\ \A d \in A : Len(pv[d]) = Len(L[d]) + old + common
  BY DEF Fits
<1>1. below = A
  BY AtOrBelowIs, BelowUnique
<1>2. FixProps(db, o, old, new, common)
        = [d \in Objs |-> IF d \in below THEN fixed[d] ELSE pv[d]]
  <2>1. db.parent = par /\ db.propval = pv /\ db.owner = own
    BY DEF DbOf
  <2> QED  BY <2>1 DEF FixProps
<1>3. /\ o \in A /\ A \subseteq Objs /\ \A d \in A \ {o} : par[d] \in A
      /\ \A d \in A : L[d] \in Seq(Propdef) /\ Len(L[d]) \in Nat
  BY DEF IsBelow, IsLocals
<1>4. \A d \in A : local[d] = Len(L[d])
  <2> DEFINE l == [d \in A |-> Len(L[d])]
  <2>1. EqL(l)
    <3>1. ASSUME NEW d \in A
          PROVE  Len(L[d]) = Len(propdefs[d]) + IF d = o THEN 0 ELSE l[par[d]]
      <4>1. CASE d = o
        <5>1. L[d] = propdefs[d] /\ Len(propdefs[d]) \in Nat
          BY <1>3, <4>1 DEF IsLocals
        <5> QED  BY <4>1, <5>1
      <4>2. CASE d # o
        <5>1. L[d] = propdefs[d] \o L[par[d]] /\ par[d] \in A
          BY <1>3, <4>2 DEF IsLocals
        <5>2. propdefs[d] \in Seq(Propdef) /\ L[par[d]] \in Seq(Propdef)
          BY <1>3, <5>1
        <5>3. Len(propdefs[d] \o L[par[d]]) = Len(propdefs[d]) + Len(L[par[d]])
          BY ONLY <5>2, ConcatProperties
        <5>4. Len(L[d]) = Len(propdefs[d]) + l[par[d]]
          BY <5>1, <5>3
        <5> QED  BY <4>2, <5>4
      <4> QED  BY <4>1, <4>2
    <3>2. l = [d \in A |-> Len(propdefs[d]) + IF d = o THEN 0 ELSE l[par[d]]]
      BY <3>1
    <3> QED  BY <1>1, <3>2
  <2>2. EqL(local)
    BY <2>1
  <2> HIDE DEF local
  <2> DEFINE T == {d \in Objs : d \in A => local[d] = l[d]}
  <2>3. ASSUME NEW d \in Objs, par[d] # NOTHING => par[d] \in T  PROVE d \in T
    <3> SUFFICES ASSUME d \in A  PROVE local[d] = l[d]
      OBVIOUS
    <3>1. /\ local[d] = Len(propdefs[d]) + IF d = o THEN 0 ELSE local[par[d]]
          /\ l[d] = Len(propdefs[d]) + IF d = o THEN 0 ELSE l[par[d]]
      BY <1>1, <2>1, <2>2
    <3>2. d # o => par[d] \in A /\ par[d] \in Objs /\ par[d] # NOTHING
      BY <1>3, NothingAssumption
    <3> QED  BY <2>3, <3>1, <3>2
  <2>4. T = Objs
    <3>1. T \in SUBSET Objs
      OBVIOUS
    <3> HIDE DEF T
    <3> QED  BY <2>3, <3>1, Downwards
  <2> QED  BY <1>3, <2>4
<1> HIDE DEF local, below
<1> DEFINE R(d) == Refit(pv[d], Len(L[d]), source, own[d], old, new, common)
           r == [d \in A |-> R(d)]
<1>5. \A d \in A :
        /\ Len(R(d)) = Len(L[d]) + new + common
        /\ \A i \in 1..new : R(d)[Len(L[d]) + i] = Inherited(source[i], own[d])
  <2> TAKE d \in A
  <2> HIDE DEF R
  <2> DEFINE s == pv[d]
             l == Len(L[d])
             w == own[d]
  <2>1. /\ s \in Seq(Pval) /\ w \in Objs \cup {NOTHING} /\ l \in Nat
        /\ Len(s) = l + old + common
    BY <1>0, <1>3
  <2>2. R(d) = Refit(s, l, source, w, old, new, common)
    BY DEF R
  <2> HIDE DEF s, l, w
  <2>3. IsRefit(Refit(s, l, source, w, old, new, common), s, l, source, w, old, new, common)
    <3>1. /\ source \in Seq(Pval) /\ old \in Nat /\ new \in Nat /\ common \in Nat
          /\ new <= Len(source)
      BY <1>0
    <3> QED  BY ONLY <2>1, <3>1, RefitIs
  <2>4. IsRefit(R(d), s, l, source, w, old, new, common)
    BY <2>2, <2>3
  <2> QED  BY <2>4 DEF IsRefit, s, l, w
<1>6. \A i \in 1..new : source[i] \in Pval
  BY <1>0
<1>7. ASSUME NEW f, NEW d \in A, d # o => f[par[d]] = r[par[d]]
      PROVE  [i \in 1..new |-> Inherited(Src(f, d)[Frm(d) + i], own[d])]
               = [i \in 1..new |-> Inherited(source[i], own[d])]
  <2> SUFFICES ASSUME NEW i \in 1..new
               PROVE  Inherited(Src(f, d)[Frm(d) + i], own[d]) = Inherited(source[i], own[d])
    OBVIOUS
  <2>1. CASE d = o
    <3>1. Src(f, d) = source /\ Frm(d) + i = i
      BY <2>1 DEF ValuesOf
    <3> QED  BY <3>1
  <2>2. CASE d # o
    <3>1. par[d] \in A
      BY <1>3, <2>2
    <3>2. Src(f, d) = R(par[d]) /\ Frm(d) = Len(L[par[d]])
      BY <1>4, <1>7, <2>2, <3>1
    <3>3. R(par[d])[Len(L[par[d]]) + i] = Inherited(source[i], own[par[d]])
      BY <1>5, <3>1
    <3>4. own[par[d]] \in Objs \cup {NOTHING} /\ own[d] \in Objs \cup {NOTHING}
      BY <1>3, <3>1
    <3>5. Inherited(Inherited(source[i], own[par[d]]), own[d]) = Inherited(source[i], own[d])
      BY <1>6, <3>4, InheritedFacts
    <3> HIDE DEF R, Src, Frm
    <3> QED  BY <3>2, <3>3, <3>5
  <2> QED  BY <2>1, <2>2
<1> DEFINE V(f, d) == SubSeq(pv[d], 1, local[d])
                        \o [i \in 1..new |-> Inherited(Src(f, d)[Frm(d) + i], own[d])]
                        \o SubSeq(pv[d], local[d] + old + 1, local[d] + old + common)
<1>8. ASSUME NEW f, NEW d \in A, d # o => f[par[d]] = r[par[d]]
      PROVE  V(f, d) = r[d]
  <2>1. V(f, d) = SubSeq(pv[d], 1, local[d])
                    \o [i \in 1..new |-> Inherited(source[i], own[d])]
                    \o SubSeq(pv[d], local[d] + old + 1, local[d] + old + common)
    <3> HIDE DEF r, Src, Frm
    <3> QED  BY <1>7, <1>8
  <2>2. local[d] = Len(L[d]) /\ r[d] = R(d)
    BY <1>4
  <2> QED  BY <2>1, <2>2 DEF Refit
<1>9. EqF(r)
  <2>1. \A d \in A : r[d] = V(r, d)
    <3> HIDE DEF V, r
    <3> QED  BY <1>8
  <2>2. r = [d \in A |-> V(r, d)]
    <3>1. r = [d \in A |-> r[d]]
      OBVIOUS
    <3> HIDE DEF V, r
    <3> QED  BY <2>1, <3>1
  <2> HIDE DEF R, r, Src, Frm
  <2> QED  BY <1>1, <2>2
<1>10. EqF(fixed)
  <2> HIDE DEF r
  <2> QED  BY <1>9
<1> HIDE DEF fixed, r
<1>11. \A d \in A : fixed[d] = V(fixed, d)
  <2> HIDE DEF Src, Frm
  <2> QED  BY <1>1, <1>10
<1> HIDE DEF V
<1>12. \A d \in A : fixed[d] = r[d]
  <2> DEFINE T == {d \in Objs : d \in A => fixed[d] = r[d]}
  <2>1. ASSUME NEW d \in Objs, par[d] # NOTHING => par[d] \in T  PROVE d \in T
    <3> SUFFICES ASSUME d \in A  PROVE fixed[d] = r[d]
      OBVIOUS
    <3>1. d # o => fixed[par[d]] = r[par[d]]
      <4>1. d # o => par[d] \in A /\ par[d] \in Objs /\ par[d] # NOTHING
        BY <1>3, NothingAssumption
      <4> QED  BY <2>1, <4>1
    <3> QED  BY <1>8, <1>11, <3>1
  <2>2. T = Objs
    <3>1. T \in SUBSET Objs
      OBVIOUS
    <3> HIDE DEF T
    <3> QED  BY <2>1, <3>1, Downwards
  <2> QED  BY <1>3, <2>2
<1>13. \A d \in A : r[d] = R(d)
  BY DEF r
<1> HIDE DEF R
<1>14. [d \in Objs |-> IF d \in below THEN fixed[d] ELSE pv[d]]
         = [d \in Objs |-> IF d \in A THEN R(d) ELSE pv[d]]
  BY <1>1, <1>12, <1>13
<1> QED  BY <1>2, <1>14 DEF R, Fixed

-----------------------------------------------------------------------------
(* db_change_parent() *)

\* The values are those of the definitions D, in the same order.
Matches(v, D) ==
  \A x \in Objs : /\ Len(v[x]) = Len(D[x])
                  /\ \A i \in 1..Len(D[x]) : v[x][i].def = D[x][i].def

\* The values v2 that db_change_parent() makes of v for o, the new parent p, the old
\* parent q and the objects A at or below o: each of these keeps the values of what
\* is defined at or below o and of what p and q have in common, and gets those that
\* only p has.
IsMoved(v2, v, own, L, N, O, C, A, D, p, q) ==
  /\ v2 \in [Objs -> Seq(Pval)]
  /\ \A d \in Objs \ A : v2[d] = v[d]
  /\ \A d \in A : /\ Len(v[d]) = Len(L[d]) + Len(O) + Len(C)
                  /\ IsRefit(v2[d], v[d], Len(L[d]), ValuesOf(v, p), own[d],
                             Len(O), Len(N), Len(C))
  /\ N \in Seq(Propdef) /\ O \in Seq(Propdef) /\ C \in Seq(Propdef)
  /\ OfParent(D, p) = N \o C
  /\ OfParent(D, q) = O \o C

LEMMA ChangeParentIs ==
  ASSUME NEW db, NEW par, NEW own, NEW pv,
         db = DbOf(par, own, pv),
         NEW o, NEW p, NEW moved,
         moved = DbOf(Reparented(par, o, p), own, pv),
         NEW common, common = CommonProps(moved.parent, par[o], p)
  PROVE  ChangeParent(db, o, p)
           = DbOf(Reparented(par, o, p), own,
                  FixProps(moved, o,
                           CountProperties(moved.parent, par[o]) - common,
                           CountProperties(moved.parent, p) - common, common))
<1>1. [db EXCEPT !.parent[o] = p] = moved
  BY DEF DbOf, Reparented
<1>2. db.parent = par
  BY DEF DbOf
<1>3. ChangeParent(db, o, p)
        = [moved EXCEPT !.propval = FixProps(moved, o,
                            CountProperties(moved.parent, par[o]) - common,
                            CountProperties(moved.parent, p) - common, common)]
  BY ONLY <1>1, <1>2, common = CommonProps(moved.parent, par[o], p) DEF ChangeParent
<1> DEFINE v2 == FixProps(moved, o, CountProperties(moved.parent, par[o]) - common,
                          CountProperties(moved.parent, p) - common, common)
<1>4. ChangeParent(db, o, p) = [moved EXCEPT !.propval = v2]
  BY <1>3
<1> HIDE DEF v2
<1>5. [moved EXCEPT !.propval = v2]
        = DbOf(Reparented(par, o, p), own, v2)
  BY DEF DbOf
<1>6. ChangeParent(db, o, p)
        = DbOf(Reparented(par, o, p), own, v2)
  BY ONLY <1>4, <1>5
<1> QED  BY ONLY <1>6 DEF v2

\* D has the definitions of the objects under the parents par, and v their values.
Aligned(defs, par, own, v, D) ==
  /\ Forest(par) /\ defs \in [Objs -> Seq(Propdef)] /\ IsDefs(D, defs, par)
  /\ own \in [Objs -> Objs \cup {NOTHING}]
  /\ v \in [Objs -> Seq(Pval)] /\ Matches(v, D)

\* An object has a value for what it defines.
Valued(defs, v) == \A x \in Objs : \A i \in 1..Len(defs[x]) : v[x][i].var # CLEAR

\* o goes from where it is to p, which is not below it.
Moving(par, own, v, D, o, p, A, L) ==
  /\ Aligned(propdefs, par, own, v, D)
  /\ o \in Objs /\ p \in Objs \cup {NOTHING} /\ IsBelow(A, par, o) /\ p \notin A
  /\ IsLocals(L, A, o, propdefs, par)
  /\ \A d \in A : D[d] = L[d] \o OfParent(D, par[o])

Moved(par, own, v, D, o, p, A, L, v2, N, O, C) ==
  /\ ChangeParent(DbOf(par, own, v), o, p) = DbOf(Reparented(par, o, p), own, v2)
  /\ IsMoved(v2, v, own, L, N, O, C, A, D, p, par[o])
  /\ From(N, propdefs, Objs \ Above(Reparented(par, o, p), par[o]))
  /\ From(O, propdefs, Above(Reparented(par, o, p), par[o]))

LEMMA MoveIs ==
  \A par, own, pv, D, o, p, A, L :
    Moving(par, own, pv, D, o, p, A, L) =>
      \E v2, N, O, C : Moved(par, own, pv, D, o, p, A, L, v2, N, O, C)
<1> SUFFICES ASSUME NEW par, NEW own, NEW pv, NEW D, NEW o, NEW p, NEW A, NEW L,
                    Moving(par, own, pv, D, o, p, A, L)
             PROVE  \E v2, N, O, C : Moved(par, own, pv, D, o, p, A, L, v2, N, O, C)
  OBVIOUS
<1> DEFINE db == DbOf(par, own, pv)
<1>0. /\ Forest(par) /\ propdefs \in [Objs -> Seq(Propdef)]
      /\ IsDefs(D, propdefs, par)
      /\ pv \in [Objs -> Seq(Pval)] /\ Matches(pv, D)
      /\ own \in [Objs -> Objs \cup {NOTHING}]
      /\ o \in Objs /\ p \in Objs \cup {NOTHING}
      /\ IsBelow(A, par, o) /\ p \notin A /\ IsLocals(L, A, o, propdefs, par)
      /\ \A d \in A : D[d] = L[d] \o OfParent(D, par[o])
      /\ db = DbOf(par, own, pv)
  BY DEF Moving, Aligned
<1> HIDE DEF db
<1> USE <1>0
<1> DEFINE q == par[o]
           par2 == Reparented(par, o, p)
           D2 == Defs2(D, L, A, p)
           moved == DbOf(par2, own, pv)
           common == CommonProps(par2, q, p)
           old == CountProperties(par2, q) - common
           new == CountProperties(par2, p) - common
           v2 == FixProps(moved, o, old, new, common)
<1>1. /\ Forest(par2) /\ IsBelow(A, par2, o)
  BY MovedForest
<1>2. /\ IsDefs(D2, propdefs, par2)
      /\ \A x \in (Objs \cup {NOTHING}) \ A : OfParent(D2, x) = OfParent(D, x)
  <2>1. /\ Forest(par) /\ o \in Objs /\ p \in Objs \cup {NOTHING} /\ IsBelow(A, par, o)
        /\ p \notin A /\ propdefs \in [Objs -> Seq(Propdef)]
        /\ IsDefs(D, propdefs, par) /\ IsLocals(L, A, o, propdefs, par)
    OBVIOUS
  <2>2. IsDefs(Defs2(D, L, A, p), propdefs, Reparented(par, o, p))
    BY ONLY <2>1, MovedDefs
  <2>3. \A x \in (Objs \cup {NOTHING}) \ A : OfParent(Defs2(D, L, A, p), x) = OfParent(D, x)
    BY DEF Defs2, OfParent
  <2> QED  BY <2>2, <2>3
<1>3. /\ q \in (Objs \cup {NOTHING}) \ A /\ p \in (Objs \cup {NOTHING}) \ A
      /\ par2[o] = p /\ \A d \in A \ {o} : par2[d] = par[d]
      /\ o \in A /\ A \subseteq Objs
  <2>1. q \in Objs \cup {NOTHING} /\ par \in Parents
    BY DEF Forest, Parents
  <2> QED  BY <2>1, ParentNotBelow DEF IsBelow, Parents, Reparented
<1>4. IsLocals(L, A, o, propdefs, par2)
  <2> HIDE DEF par2
  <2> QED  BY <1>3 DEF IsLocals
<1>5. ChangeParent(db, o, p) = DbOf(par2, own, v2)
  <2>1. moved.parent = par2
    BY DEF DbOf
  <2>2. common = CommonProps(moved.parent, par[o], p)
    BY <2>1
  <2>3. moved = DbOf(Reparented(par, o, p), own, pv)
    OBVIOUS
  <2> HIDE DEF moved, common
  <2>4. ChangeParent(db, o, p)
          = DbOf(Reparented(par, o, p), own,
                 FixProps(moved, o,
                          CountProperties(moved.parent, par[o]) - common,
                          CountProperties(moved.parent, p) - common, common))
    BY ONLY <2>2, <2>3, db = DbOf(par, own, pv), ChangeParentIs
  <2> QED  BY <2>1, <2>4
<1> HIDE DEF par2, D2
<1>6. PICK N, O, C : IsCommon(N, O, C, D2, propdefs, par2, q, p)
  BY <1>1, <1>2, <1>3, Common
<1>7. /\ N \in Seq(Propdef) /\ O \in Seq(Propdef) /\ C \in Seq(Propdef)
      /\ OfParent(D, p) = N \o C /\ OfParent(D, q) = O \o C
      /\ OfParent(D2, p) = N \o C /\ OfParent(D2, q) = O \o C
      /\ common = Len(C)
  BY <1>2, <1>3, <1>6 DEF IsCommon
<1>8. Len(N) \in Nat /\ Len(O) \in Nat /\ Len(C) \in Nat
      /\ Len(N \o C) = Len(N) + Len(C) /\ Len(O \o C) = Len(O) + Len(C)
  BY <1>7, ConcatProperties, LenProperties
<1>9. common = Len(C) /\ old = Len(O) /\ new = Len(N)
  <2>1. DefsOf(par2, q) = O \o C /\ DefsOf(par2, p) = N \o C
    <3>1. DefsOf(par2, q) = OfParent(D2, q)
      BY <1>1, <1>2, <1>3, DefsOfIs
    <3>2. DefsOf(par2, p) = OfParent(D2, p)
      BY <1>1, <1>2, <1>3, DefsOfIs
    <3> QED  BY <1>7, <3>1, <3>2
  <2>2. CountProperties(par2, q) = Len(O) + Len(C) /\ CountProperties(par2, p) = Len(N) + Len(C)
    BY <1>8, <2>1 DEF CountProperties
  <2>3. common = Len(C)
    BY <1>7
  <2> QED  BY <1>8, <2>2, <2>3
<1> HIDE DEF common, old, new, moved
<1> DEFINE source == ValuesOf(pv, p)
<1>10. /\ source = ValuesOf(pv, par2[o])
       /\ source \in Seq(Pval)
       /\ Len(source) = Len(OfParent(D, p))
  <2>1. CASE p = NOTHING
    <3>1. source = <<>> /\ OfParent(D, p) = <<>>
      BY <2>1 DEF ValuesOf, OfParent
    <3> QED  BY <1>3, <2>1, <3>1
  <2>2. CASE p # NOTHING
    <3>1. p \in Objs /\ source = pv[p] /\ OfParent(D, p) = D[p]
      BY <2>2 DEF ValuesOf, OfParent
    <3> QED  BY <1>3, <2>2, <3>1 DEF Matches
  <2> QED  BY <2>1, <2>2
<1>11. Len(N) <= Len(source)
  BY <1>7, <1>8, <1>10
<1>12. \A d \in A : Len(pv[d]) = Len(L[d]) + Len(O) + Len(C) /\ Len(L[d]) \in Nat
  <2> TAKE d \in A
  <2>1. L[d] \in Seq(Propdef) /\ D[d] = L[d] \o (O \o C) /\ O \o C \in Seq(Propdef)
    BY <1>4, <1>7, ConcatProperties DEF IsLocals
  <2>2. Len(D[d]) = Len(L[d]) + (Len(O) + Len(C)) /\ Len(L[d]) \in Nat
    BY <1>8, <2>1, ConcatProperties, LenProperties
  <2>3. Len(pv[d]) = Len(D[d])
    BY <1>3 DEF Matches
  <2>4. Len(pv[d]) = Len(L[d]) + (Len(O) + Len(C))
    BY ONLY <2>2, <2>3
  <2> DEFINE i == Len(L[d])
             j == Len(O)
             k == Len(C)
             n == Len(pv[d])
  <2>5. n = i + (j + k) /\ i \in Nat /\ j \in Nat /\ k \in Nat
    BY <1>8, <2>2, <2>4
  <2>6. n = i + j + k
    <3> HIDE DEF i, j, k, n
    <3> QED  BY ONLY <2>5
  <2> QED  BY <2>2, <2>6
<1>13. v2 = Fixed(pv, own, L, A, source, old, new, common)
  <2>1. moved = DbOf(par2, own, pv)
    BY DEF moved
  <2>2. Fits(pv, L, A, source, old, new, common)
    BY <1>9, <1>11, <1>12 DEF Fits
  <2>3. old \in Nat /\ new \in Nat /\ common \in Nat
    BY <1>8, <1>9
  <2> HIDE DEF source, q
  <2>4. source \in Seq(Pval) /\ source = ValuesOf(pv, par2[o])
    BY <1>10
  <2>5. /\ Forest(par2) /\ o \in Objs /\ IsBelow(A, par2, o)
        /\ pv \in [Objs -> Seq(Pval)] /\ own \in [Objs -> Objs \cup {NOTHING}]
        /\ propdefs \in [Objs -> Seq(Propdef)] /\ IsLocals(L, A, o, propdefs, par2)
    BY <1>1, <1>4
  <2>6. Fixing(par2, o, A, pv, own, moved, L, source)
    BY ONLY <2>1, <2>4, <2>5 DEF Fixing
  <2>7. FixProps(moved, o, old, new, common) = Fixed(pv, own, L, A, source, old, new, common)
    BY ONLY <2>2, <2>3, <2>6, FixPropsIs
  <2> QED  BY <2>7 DEF v2
<1> HIDE DEF v2
<1>14. IsMoved(v2, pv, own, L, N, O, C, A, D, p, q)
  <2>1. ASSUME NEW d \in A
        PROVE  IsRefit(v2[d], pv[d], Len(L[d]), source, own[d], Len(O), Len(N), Len(C))
    <3>1. v2[d] = Refit(pv[d], Len(L[d]), source, own[d], Len(O), Len(N), Len(C))
      BY <1>3, <1>9, <1>13 DEF Fixed
    <3>2. pv[d] \in Seq(Pval) /\ own[d] \in Objs \cup {NOTHING}
      BY <1>3
    <3> DEFINE s == pv[d]
               l == Len(L[d])
               w == own[d]
               oo == Len(O)
               nn == Len(N)
               cc == Len(C)
    <3>3. /\ s \in Seq(Pval) /\ source \in Seq(Pval) /\ l \in Nat /\ oo \in Nat /\ nn \in Nat
          /\ cc \in Nat /\ w \in Objs \cup {NOTHING}
          /\ Len(s) = l + oo + cc /\ nn <= Len(source)
      BY <1>8, <1>10, <1>11, <1>12, <3>2
    <3>4. IsRefit(Refit(s, l, source, w, oo, nn, cc), s, l, source, w, oo, nn, cc)
      <4> HIDE DEF s, l, w, oo, nn, cc, source
      <4> QED  BY ONLY <3>3, RefitIs
    <3> HIDE DEF source
    <3> QED  BY <3>1, <3>4
  <2>2. \A d \in Objs \ A : v2[d] = pv[d]
    BY <1>13 DEF Fixed
  <2>3. v2 \in [Objs -> Seq(Pval)]
    <3>1. \A d \in A : v2[d] \in Seq(Pval)
      BY <2>1 DEF IsRefit
    <3>2. \A d \in Objs : v2[d] \in Seq(Pval)
      BY <2>2, <3>1
    <3>3. v2 = [d \in Objs |-> v2[d]]
      BY <1>13 DEF Fixed
    <3> QED  BY <3>2, <3>3
  <2> QED  BY <1>7, <1>12, <2>1, <2>2, <2>3 DEF IsMoved
<1> QED  BY <1>5, <1>6, <1>14 DEF IsCommon, par2, Moved

LEMMA DefsConcat ==
  \A s, t \in Seq(Propdef) :
    /\ s \o t \in Seq(Propdef) /\ Len(s) \in Nat /\ Len(t) \in Nat
    /\ Len(s \o t) = Len(s) + Len(t)
    /\ \A i \in 1..Len(s) : (s \o t)[i] = s[i]
    /\ \A i \in 1..Len(t) : (s \o t)[Len(s) + i] = t[i]
<1> SUFFICES ASSUME NEW s \in Seq(Propdef), NEW t \in Seq(Propdef)
             PROVE  /\ s \o t \in Seq(Propdef) /\ Len(s) \in Nat /\ Len(t) \in Nat
                    /\ Len(s \o t) = Len(s) + Len(t)
                    /\ \A i \in 1..Len(s) : (s \o t)[i] = s[i]
                    /\ \A i \in 1..Len(t) : (s \o t)[Len(s) + i] = t[i]
  OBVIOUS
<1>1. /\ s \o t \in Seq(Propdef) /\ Len(s) \in Nat /\ Len(t) \in Nat
      /\ Len(s \o t) = Len(s) + Len(t)
      /\ \A i \in 1..(Len(s) + Len(t)) :
           (s \o t)[i] = IF i <= Len(s) THEN s[i] ELSE t[i - Len(s)]
  BY ConcatProperties, LenProperties
<1>2. \A i \in 1..Len(s) : (s \o t)[i] = s[i]
  BY <1>1
<1>3. ASSUME NEW i \in 1..Len(t)  PROVE (s \o t)[Len(s) + i] = t[i]
  <2>1. /\ Len(s) + i \in 1..(Len(s) + Len(t)) /\ ~ Len(s) + i <= Len(s)
        /\ (Len(s) + i) - Len(s) = i
    BY <1>1
  <2> QED  BY <1>1, <2>1
<1> QED  BY <1>1, <1>2, <1>3

\* Three definitions after another.
LEMMA Concat3 ==
  \A s, t, u \in Seq(Propdef) :
    /\ s \o (t \o u) \in Seq(Propdef)
    /\ Len(s \o (t \o u)) = Len(s) + Len(t) + Len(u)
    /\ \A i \in 1..Len(s) : (s \o (t \o u))[i] = s[i]
    /\ \A i \in 1..Len(t) : (s \o (t \o u))[Len(s) + i] = t[i]
    /\ \A i \in 1..Len(u) : (s \o (t \o u))[Len(s) + Len(t) + i] = u[i]
<1> TAKE s, t, u \in Seq(Propdef)
<1> DEFINE tu == t \o u
<1>1. /\ tu \in Seq(Propdef) /\ Len(s) \in Nat /\ Len(t) \in Nat /\ Len(u) \in Nat
      /\ Len(tu) = Len(t) + Len(u)
      /\ \A i \in 1..Len(t) : tu[i] = t[i]
      /\ \A i \in 1..Len(u) : tu[Len(t) + i] = u[i]
  BY DefsConcat
<1> HIDE DEF tu
<1>2. /\ s \o tu \in Seq(Propdef)
      /\ Len(s \o tu) = Len(s) + Len(tu)
      /\ \A i \in 1..Len(s) : (s \o tu)[i] = s[i]
      /\ \A i \in 1..Len(tu) : (s \o tu)[Len(s) + i] = tu[i]
  BY <1>1, DefsConcat
<1>3. \A i \in 1..Len(t) : (s \o tu)[Len(s) + i] = t[i]
  BY <1>1, <1>2
<1>4. ASSUME NEW i \in 1..Len(u)  PROVE (s \o tu)[Len(s) + Len(t) + i] = u[i]
  <2>1. Len(t) + i \in 1..Len(tu) /\ Len(s) + Len(t) + i = Len(s) + (Len(t) + i)
    BY <1>1
  <2> QED  BY <1>1, <1>2, <2>1
<1> QED  BY <1>1, <1>2, <1>3, <1>4 DEF tu

\* x is s, then t, then u.
Joined(x, s, t, u) ==
  /\ Len(x) = Len(s) + Len(t) + Len(u)
  /\ \A i \in 1..Len(s) : x[i] = s[i]
  /\ \A i \in 1..Len(t) : x[Len(s) + i] = t[i]
  /\ \A i \in 1..Len(u) : x[Len(s) + Len(t) + i] = u[i]

LEMMA JoinedIs ==
  \A s, t, u : s \in Seq(Propdef) /\ t \in Seq(Propdef) /\ u \in Seq(Propdef)
                => Joined(s \o (t \o u), s, t, u)
<1> SUFFICES ASSUME NEW s \in Seq(Propdef), NEW t \in Seq(Propdef), NEW u \in Seq(Propdef)
             PROVE  Joined(s \o (t \o u), s, t, u)
  OBVIOUS
<1> QED  BY Concat3 DEF Joined

\* The values s are of the definitions t.
SameDefs(s, t) == \A i \in 1..Len(t) : s[i].def = t[i].def

\* The values of one object after the change: they are those of the definitions l,
\* n and c if they were those of l, o and c.
LEMMA RefitMatches ==
  \A r, s, w : \A source \in Seq(Pval), l, o, n, c \in Seq(Propdef) :
     /\ IsRefit(r, s, Len(l), source, w, Len(o), Len(n), Len(c))
     /\ SameDefs(s, l \o (o \o c)) /\ SameDefs(source, n \o c)
     /\ Len(source) = Len(n \o c) /\ w \in Objs \cup {NOTHING}
     => Len(r) = Len(l \o (n \o c)) /\ SameDefs(r, l \o (n \o c))
<1> SUFFICES ASSUME NEW r, NEW s, NEW l \in Seq(Propdef), NEW source \in Seq(Pval), NEW w,
                    NEW o \in Seq(Propdef), NEW n \in Seq(Propdef), NEW c \in Seq(Propdef),
                    IsRefit(r, s, Len(l), source, w, Len(o), Len(n), Len(c)),
                    SameDefs(s, l \o (o \o c)), SameDefs(source, n \o c),
                    Len(source) = Len(n \o c), w \in Objs \cup {NOTHING}
             PROVE  Len(r) = Len(l \o (n \o c)) /\ SameDefs(r, l \o (n \o c))
  OBVIOUS
<1>1. /\ Len(l) \in Nat /\ Len(o) \in Nat /\ Len(n) \in Nat /\ Len(c) \in Nat
      /\ Len(n \o c) = Len(n) + Len(c)
      /\ \A i \in 1..Len(n) : (n \o c)[i] = n[i]
  BY DefsConcat
<1> DEFINE old == l \o (o \o c)
           new == l \o (n \o c)
<1>2. /\ Len(old) = Len(l) + Len(o) + Len(c)
      /\ \A i \in 1..Len(l) : old[i] = l[i]
      /\ \A i \in 1..Len(c) : old[Len(l) + Len(o) + i] = c[i]
  BY Concat3
<1>3. /\ Len(new) = Len(l) + Len(n) + Len(c)
      /\ \A i \in 1..Len(l) : new[i] = l[i]
      /\ \A i \in 1..Len(n) : new[Len(l) + i] = n[i]
      /\ \A i \in 1..Len(c) : new[Len(l) + Len(n) + i] = c[i]
  BY Concat3
<1>4. \A i \in 1..Len(old) : s[i].def = old[i].def
  BY DEF SameDefs
<1> HIDE DEF old, new
<1>5. /\ Len(r) = Len(l) + Len(n) + Len(c)
      /\ \A i \in 1..Len(l) : r[i] = s[i]
      /\ \A i \in 1..Len(n) : r[Len(l) + i] = Inherited(source[i], w)
      /\ \A i \in 1..Len(c) : r[Len(l) + Len(n) + i] = s[Len(l) + Len(o) + i]
  BY DEF IsRefit
<1>6. ASSUME NEW i \in 1..Len(l)  PROVE r[i].def = new[i].def
  <2>1. i \in 1..Len(old)
    BY <1>1, <1>2
  <2>2. s[i].def = old[i].def
    BY <1>4, <2>1
  <2>3. old[i] = l[i] /\ new[i] = l[i] /\ r[i] = s[i]
    BY <1>2, <1>3, <1>5
  <2> QED  BY ONLY <2>2, <2>3
<1>7. ASSUME NEW i \in 1..Len(n)  PROVE r[Len(l) + i].def = new[Len(l) + i].def
  <2>1. i \in 1..Len(n \o c)
    BY <1>1
  <2>2. source[i] \in Pval /\ source[i].def = n[i].def
    BY <1>1, <2>1 DEF SameDefs
  <2>3. Inherited(source[i], w).def = source[i].def
    BY <2>2, InheritedFacts
  <2> QED  BY <1>3, <1>5, <2>2, <2>3
<1>8. ASSUME NEW i \in 1..Len(c)
      PROVE  r[Len(l) + Len(n) + i].def = new[Len(l) + Len(n) + i].def
  <2>1. Len(l) + Len(o) + i \in 1..Len(old)
    BY <1>1, <1>2
  <2>2. s[Len(l) + Len(o) + i].def = old[Len(l) + Len(o) + i].def
    BY <1>4, <2>1
  <2>3. /\ old[Len(l) + Len(o) + i] = c[i]
        /\ new[Len(l) + Len(n) + i] = c[i]
        /\ r[Len(l) + Len(n) + i] = s[Len(l) + Len(o) + i]
    BY <1>2, <1>3, <1>5
  <2> QED  BY ONLY <2>2, <2>3
<1>9. ASSUME NEW i \in 1..Len(new)  PROVE r[i].def = new[i].def
  <2>1. CASE i <= Len(l)
    <3>1. i \in 1..Len(l)
      BY <1>1, <1>3, <2>1
    <3> QED  BY <1>6, <3>1
  <2>2. CASE Len(l) < i /\ i <= Len(l) + Len(n)
    <3>1. i - Len(l) \in 1..Len(n) /\ i = Len(l) + (i - Len(l))
      BY <1>1, <1>3, <2>2
    <3> QED  BY <1>7, <3>1
  <2>3. CASE Len(l) + Len(n) < i
    <3>1. /\ i - (Len(l) + Len(n)) \in 1..Len(c)
          /\ i = Len(l) + Len(n) + (i - (Len(l) + Len(n)))
      BY <1>1, <1>3, <2>3
    <3> QED  BY <1>8, <3>1
  <2>4. i \in Nat
    BY <1>1, <1>3
  <2> QED  BY <1>1, <2>1, <2>2, <2>3, <2>4
<1> QED  BY <1>3, <1>5, <1>9 DEF new, SameDefs

LEMMA MovedMatches ==
  ASSUME NEW par, NEW own, NEW v, NEW D, NEW o, NEW p, NEW A, NEW L, NEW v2,
         NEW N, NEW O, NEW C, Moving(par, own, v, D, o, p, A, L),
         Moved(par, own, v, D, o, p, A, L, v2, N, O, C)
  PROVE  /\ Aligned(propdefs, Reparented(par, o, p), own, v2, Defs2(D, L, A, p))
         /\ Valued(propdefs, v) => Valued(propdefs, v2)
<1> DEFINE D2 == Defs2(D, L, A, p)
           par2 == Reparented(par, o, p)
           q == par[o]
<1>1. /\ Forest(par) /\ propdefs \in [Objs -> Seq(Propdef)]
      /\ IsDefs(D, propdefs, par)
      /\ v \in [Objs -> Seq(Pval)] /\ Matches(v, D)
      /\ own \in [Objs -> Objs \cup {NOTHING}]
      /\ o \in Objs /\ p \in Objs \cup {NOTHING}
      /\ IsBelow(A, par, o) /\ p \notin A /\ IsLocals(L, A, o, propdefs, par)
      /\ A \subseteq Objs
      /\ \A d \in A : D[d] = L[d] \o OfParent(D, par[o])
  BY DEF Moving, Aligned, IsBelow
<1>2. Forest(par2)
  BY <1>1, MovedForest
<1>3. IsDefs(D2, propdefs, par2)
  BY ONLY <1>1, MovedDefs
<1>4. IsMoved(v2, v, own, L, N, O, C, A, D, p, q)
  BY DEF Moved
<1>5. /\ v2 \in [Objs -> Seq(Pval)]
      /\ \A d \in Objs \ A : v2[d] = v[d]
      /\ \A d \in A : /\ Len(v[d]) = Len(L[d]) + Len(O) + Len(C)
                      /\ IsRefit(v2[d], v[d], Len(L[d]), ValuesOf(v, p), own[d],
                                 Len(O), Len(N), Len(C))
      /\ N \in Seq(Propdef) /\ O \in Seq(Propdef) /\ C \in Seq(Propdef)
      /\ OfParent(D, p) = N \o C
      /\ OfParent(D, q) = O \o C
  BY <1>4 DEF IsMoved
<1> HIDE DEF par2, q
<1>6. /\ \A x \in A : D2[x] = L[x] \o (N \o C)
      /\ \A x \in Objs \ A : D2[x] = D[x]
  BY <1>1, <1>5 DEF Defs2
<1>7. \A x \in Objs : v[x] \in Seq(Pval) /\ D[x] \in Seq(Propdef) /\ Len(v[x]) = Len(D[x])
                      /\ \A i \in 1..Len(D[x]) : v[x][i].def = D[x][i].def
  BY <1>1 DEF Matches, IsDefs
<1> HIDE DEF D2
<1>8. /\ ValuesOf(v, p) \in Seq(Pval) /\ Len(ValuesOf(v, p)) = Len(N \o C)
      /\ SameDefs(ValuesOf(v, p), N \o C)
  <2>1. CASE p = NOTHING
    <3>1. ValuesOf(v, p) = <<>> /\ N \o C = <<>>
      BY <1>5, <2>1 DEF OfParent, ValuesOf
    <3> QED  BY <3>1 DEF SameDefs
  <2>2. CASE p # NOTHING
    <3>1. p \in Objs /\ N \o C = D[p] /\ ValuesOf(v, p) = v[p]
      BY <1>1, <1>5, <2>2 DEF OfParent, ValuesOf
    <3> QED  BY <1>7, <3>1 DEF SameDefs
  <2> QED  BY <2>1, <2>2
<1>9. Matches(v2, D2)
  <2> SUFFICES ASSUME NEW x \in Objs
               PROVE  /\ Len(v2[x]) = Len(D2[x])
                      /\ \A i \in 1..Len(D2[x]) : v2[x][i].def = D2[x][i].def
    BY DEF Matches
  <2>1. CASE x \notin A
    BY <1>5, <1>6, <1>7, <2>1
  <2>2. CASE x \in A
    <3> DEFINE s == v[x]
               r == v2[x]
               l == L[x]
               w == own[x]
               source == ValuesOf(v, p)
    <3>1. l \in Seq(Propdef) /\ w \in Objs \cup {NOTHING} /\ D[x] = l \o (O \o C)
      BY <1>1, <1>5, <2>2 DEF IsLocals, q
    <3>2. IsRefit(r, s, Len(l), source, w, Len(O), Len(N), Len(C))
      BY <1>5, <2>2
    <3>3. SameDefs(s, l \o (O \o C))
      BY <1>7, <3>1 DEF SameDefs
    <3> HIDE DEF s, r, l, w, source
    <3>4. source \in Seq(Pval) /\ Len(source) = Len(N \o C) /\ SameDefs(source, N \o C)
      BY <1>8 DEF source
    <3>5. N \in Seq(Propdef) /\ O \in Seq(Propdef) /\ C \in Seq(Propdef)
      BY <1>5
    <3>6. Len(r) = Len(l \o (N \o C)) /\ SameDefs(r, l \o (N \o C))
      BY ONLY <3>1, <3>2, <3>3, <3>4, <3>5, RefitMatches
    <3> QED  BY <1>6, <2>2, <3>6 DEF r, l, SameDefs
  <2> QED  BY <2>1, <2>2
<1>10. ASSUME Valued(propdefs, v)  PROVE Valued(propdefs, v2)
  <2> SUFFICES ASSUME NEW x \in Objs, NEW i \in 1..Len(propdefs[x])
               PROVE  v2[x][i].var # CLEAR
    BY DEF Valued
  <2>1. v[x][i].var # CLEAR
    BY <1>10 DEF Valued
  <2>2. v2[x][i] = v[x][i]
    <3>1. CASE x \notin A
      BY <1>5, <3>1
    <3>2. CASE x \in A
      <4>1. i \in 1..Len(L[x])
        <5>1. CASE x = o
          BY <1>1, <3>2, <5>1 DEF IsLocals
        <5>2. CASE x # o
          <6>1. L[x] = propdefs[x] \o L[par[x]] /\ par[x] \in A
            BY <1>1, <3>2, <5>2 DEF IsLocals, IsBelow
          <6>2. propdefs[x] \in Seq(Propdef) /\ L[par[x]] \in Seq(Propdef)
            BY <1>1, <6>1 DEF IsLocals
          <6>3. /\ Len(L[x]) = Len(propdefs[x]) + Len(L[par[x]])
                /\ Len(propdefs[x]) \in Nat /\ Len(L[par[x]]) \in Nat
            BY <6>1, <6>2, DefsConcat
          <6>4. \A a, b \in Nat : \A j \in 1..a : j \in 1..(a + b)
            OBVIOUS
          <6>5. i \in 1..(Len(propdefs[x]) + Len(L[par[x]]))
            BY ONLY <6>3, <6>4, i \in 1..Len(propdefs[x])
          <6> QED  BY <6>3, <6>5
        <5> QED  BY <5>1, <5>2
      <4>2. IsRefit(v2[x], v[x], Len(L[x]), ValuesOf(v, p), own[x],
                    Len(O), Len(N), Len(C))
        BY <1>5, <3>2
      <4> QED  BY <4>1, <4>2 DEF IsRefit
    <3> QED  BY <3>1, <3>2
  <2> QED  BY <2>1, <2>2
<1> QED  BY <1>1, <1>2, <1>3, <1>5, <1>9, <1>10 DEF Aligned, par2, D2

-----------------------------------------------------------------------------
(* Names *)

UniqueNames(s) == \A i, j \in 1..Len(s) : s[i].name = s[j].name => i = j
NamesApart(s, t) == \A i \in 1..Len(s), j \in 1..Len(t) : s[i].name # t[j].name

LEMMA NamesConcat ==
  \A s, t \in Seq(Propdef) :
    UniqueNames(s \o t) <=> UniqueNames(s) /\ UniqueNames(t) /\ NamesApart(s, t)
<1> TAKE s, t \in Seq(Propdef)
<1> DEFINE m == Len(s)
           n == Len(t)
           r == s \o t
<1>1. /\ m \in Nat /\ n \in Nat /\ Len(r) = m + n
      /\ \A i \in 1..m : r[i] = s[i]
      /\ \A i \in 1..n : r[m + i] = t[i]
  BY DefsConcat
<1> HIDE DEF r
<1>2. ASSUME UniqueNames(r)  PROVE UniqueNames(s) /\ UniqueNames(t) /\ NamesApart(s, t)
  <2>1. UniqueNames(s)
    <3> SUFFICES ASSUME NEW i \in 1..m, NEW j \in 1..m, s[i].name = s[j].name
                 PROVE  i = j
      BY DEF UniqueNames
    <3>1. i \in 1..Len(r) /\ j \in 1..Len(r)
      BY <1>1
    <3>2. r[i].name = r[j].name
      BY <1>1
    <3> QED  BY <1>2, <3>1, <3>2 DEF UniqueNames
  <2>2. UniqueNames(t)
    <3> SUFFICES ASSUME NEW i \in 1..n, NEW j \in 1..n, t[i].name = t[j].name
                 PROVE  i = j
      BY DEF UniqueNames
    <3>1. m + i \in 1..Len(r) /\ m + j \in 1..Len(r)
      BY <1>1
    <3>2. r[m + i] = t[i] /\ r[m + j] = t[j]
      BY <1>1
    <3>3. r[m + i].name = r[m + j].name
      BY ONLY <3>2, t[i].name = t[j].name
    <3>4. m + i = m + j
      BY <1>2, <3>1, <3>3 DEF UniqueNames
    <3> QED  BY <1>1, <3>4
  <2>3. NamesApart(s, t)
    <3> SUFFICES ASSUME NEW i \in 1..m, NEW j \in 1..n, s[i].name = t[j].name
                 PROVE  FALSE
      BY DEF NamesApart
    <3>1. i \in 1..Len(r) /\ m + j \in 1..Len(r) /\ i # m + j
      BY <1>1
    <3>2. r[i] = s[i] /\ r[m + j] = t[j]
      BY <1>1
    <3>3. r[i].name = r[m + j].name
      BY ONLY <3>2, s[i].name = t[j].name
    <3> QED  BY <1>2, <3>1, <3>3 DEF UniqueNames
  <2> QED  BY <2>1, <2>2, <2>3
<1>3. ASSUME UniqueNames(s), UniqueNames(t), NamesApart(s, t)  PROVE UniqueNames(r)
  <2> SUFFICES ASSUME NEW i \in 1..(m + n), NEW j \in 1..(m + n), r[i].name = r[j].name
               PROVE  i = j
    BY <1>1 DEF UniqueNames
  <2>1. ASSUME NEW k \in 1..(m + n)
        PROVE  \/ k \in 1..m /\ r[k] = s[k]
               \/ k - m \in 1..n /\ r[k] = t[k - m]
    <3>1. CASE k <= m
      BY <1>1, <3>1
    <3>2. CASE ~ k <= m
      <4>1. k - m \in 1..n /\ m + (k - m) = k
        BY <1>1, <3>2
      <4> QED  BY <1>1, <4>1
    <3> QED  BY <3>1, <3>2
  <2>2. CASE i \in 1..m /\ r[i] = s[i] /\ j \in 1..m /\ r[j] = s[j]
    BY <1>3, <2>2 DEF UniqueNames
  <2>3. CASE i \in 1..m /\ r[i] = s[i] /\ j - m \in 1..n /\ r[j] = t[j - m]
    BY <1>3, <2>3 DEF NamesApart
  <2>4. CASE i - m \in 1..n /\ r[i] = t[i - m] /\ j \in 1..m /\ r[j] = s[j]
    <3>1. s[j].name # t[i - m].name
      BY <1>3, <2>4 DEF NamesApart
    <3> QED  BY <2>4, <3>1
  <2>5. CASE i - m \in 1..n /\ r[i] = t[i - m] /\ j - m \in 1..n /\ r[j] = t[j - m]
    <3>1. t[i - m].name = t[j - m].name
      BY <2>5
    <3>2. i - m = j - m
      <4> DEFINE a == i - m
                 b == j - m
      <4>1. a \in 1..n /\ b \in 1..n /\ t[a].name = t[b].name
        BY <2>5, <3>1
      <4> HIDE DEF a, b
      <4>2. a = b
        BY <1>3, <4>1 DEF UniqueNames
      <4> QED  BY <4>2 DEF a, b
    <3> QED  BY <1>1, <3>2
  <2> QED  BY <2>1, <2>2, <2>3, <2>4, <2>5
<1> QED  BY <1>2, <1>3 DEF r

\* What is left when a part is taken out of the middle.
LEMMA NamesPart ==
  \A a, b, c \in Seq(Propdef) : UniqueNames(a \o (b \o c)) => UniqueNames(a \o c)
<1> TAKE a, b, c \in Seq(Propdef)
<1> HAVE UniqueNames(a \o (b \o c))
<1>1. /\ b \o c \in Seq(Propdef) /\ Len(b) \in Nat /\ Len(c) \in Nat
      /\ Len(b \o c) = Len(b) + Len(c)
      /\ \A i \in 1..Len(c) : (b \o c)[Len(b) + i] = c[i]
  BY DefsConcat
<1>2. UniqueNames(a) /\ UniqueNames(b \o c) /\ NamesApart(a, b \o c)
  BY <1>1, NamesConcat
<1>3. UniqueNames(c)
  BY <1>2, NamesConcat
<1>4. NamesApart(a, c)
  <2> SUFFICES ASSUME NEW i \in 1..Len(a), NEW j \in 1..Len(c)
               PROVE  a[i].name # c[j].name
    BY DEF NamesApart
  <2>1. Len(b) + j \in 1..Len(b \o c) /\ (b \o c)[Len(b) + j] = c[j]
    BY <1>1
  <2>2. a[i].name # (b \o c)[Len(b) + j].name
    BY <1>2, <2>1 DEF NamesApart
  <2> QED  BY <2>1, <2>2
<1> QED  BY <1>2, <1>3, <1>4, NamesConcat

Unique(D) == \A x \in Objs : UniqueNames(D[x])

\* Objects with these definitions, parents, owners and values are as they should be.
Sane(defs, par, own, v) ==
  /\ \E D : Aligned(defs, par, own, v, D) /\ Unique(D)
  /\ Valued(defs, v)

LEMMA MovingExists ==
  \A par, own, v, D, o, p :
    /\ Aligned(propdefs, par, own, v, D) /\ o \in Objs /\ p \in Objs \cup {NOTHING}
    /\ p \notin AtOrBelow(par, o)
    => \E L : Moving(par, own, v, D, o, p, AtOrBelow(par, o), L)
<1> SUFFICES ASSUME NEW par, NEW own, NEW v, NEW D, NEW o, NEW p,
                    Aligned(propdefs, par, own, v, D), o \in Objs, p \in Objs \cup {NOTHING},
                    p \notin AtOrBelow(par, o)
             PROVE  \E L : Moving(par, own, v, D, o, p, AtOrBelow(par, o), L)
  OBVIOUS
<1> DEFINE A == AtOrBelow(par, o)
<1>1. Forest(par) /\ propdefs \in [Objs -> Seq(Propdef)] /\ IsDefs(D, propdefs, par)
  BY DEF Aligned
<1>2. IsBelow(A, par, o) /\ p \notin A
  BY <1>1, AtOrBelowIs
<1> HIDE DEF A
<1>3. PICK L : HasLocals(L, A, o, propdefs, par, D)
  BY <1>1, <1>2, Locals
<1>4. Moving(par, own, v, D, o, p, A, L)
  BY <1>2, <1>3 DEF Moving, HasLocals
<1> QED  BY <1>4 DEF A

LEMMA MoveSane ==
  \A par, own, v, D, o, p, A, L :
    /\ Moving(par, own, v, D, o, p, A, L) /\ Unique(D) /\ Valued(propdefs, v)
    /\ \A d \in A : UniqueNames(L[d] \o OfParent(D, p))
    => \E v2 : /\ ChangeParent(DbOf(par, own, v), o, p) = DbOf(Reparented(par, o, p), own, v2)
               /\ Sane(propdefs, Reparented(par, o, p), own, v2)
<1> SUFFICES ASSUME NEW par, NEW own, NEW v, NEW D, NEW o, NEW p, NEW A, NEW L,
                    Moving(par, own, v, D, o, p, A, L), Unique(D), Valued(propdefs, v),
                    \A d \in A : UniqueNames(L[d] \o OfParent(D, p))
             PROVE  \E v2 :
               /\ ChangeParent(DbOf(par, own, v), o, p) = DbOf(Reparented(par, o, p), own, v2)
               /\ Sane(propdefs, Reparented(par, o, p), own, v2)
  OBVIOUS
<1>1. PICK v2, N, O, C : Moved(par, own, v, D, o, p, A, L, v2, N, O, C)
  BY MoveIs
<1> DEFINE D2 == Defs2(D, L, A, p)
<1>2. Aligned(propdefs, Reparented(par, o, p), own, v2, D2) /\ Valued(propdefs, v2)
  BY <1>1, MovedMatches
<1>3. Unique(D2)
  BY DEF Unique, Defs2
<1>4. Sane(propdefs, Reparented(par, o, p), own, v2)
  <2> HIDE DEF D2
  <2> QED  BY <1>2, <1>3 DEF Sane
<1>5. ChangeParent(DbOf(par, own, v), o, p) = DbOf(Reparented(par, o, p), own, v2)
  BY <1>1 DEF Moved
<1> QED  BY <1>4, <1>5

\* o goes to its grandparent or to nothing.
LEMMA Ascends ==
  \A par, own, v, o, p :
    /\ Sane(propdefs, par, own, v) /\ o \in Objs
    /\ p = NOTHING \/ (par[o] # NOTHING /\ p = par[par[o]])
    => \E v2 : /\ ChangeParent(DbOf(par, own, v), o, p) = DbOf(Reparented(par, o, p), own, v2)
               /\ Sane(propdefs, Reparented(par, o, p), own, v2)
<1> SUFFICES ASSUME NEW par, NEW own, NEW v, NEW o, NEW p,
                    Sane(propdefs, par, own, v), o \in Objs,
                    p = NOTHING \/ (par[o] # NOTHING /\ p = par[par[o]])
             PROVE  \E v2 :
               /\ ChangeParent(DbOf(par, own, v), o, p) = DbOf(Reparented(par, o, p), own, v2)
               /\ Sane(propdefs, Reparented(par, o, p), own, v2)
  OBVIOUS
<1>1. PICK D : Aligned(propdefs, par, own, v, D) /\ Unique(D)
  BY DEF Sane
<1>2. /\ Forest(par) /\ propdefs \in [Objs -> Seq(Propdef)] /\ IsDefs(D, propdefs, par)
      /\ par \in Parents
  BY <1>1 DEF Aligned, Forest
<1> DEFINE A == AtOrBelow(par, o)
<1>3. IsBelow(A, par, o)
  BY <1>2, AtOrBelowIs
<1> HIDE DEF A
<1>4. p \in Objs \cup {NOTHING} /\ p \notin A
  <2>1. par[o] \notin A
    BY <1>2, <1>3, ParentNotBelow
  <2>2. NOTHING \notin A
    BY <1>3, NothingAssumption DEF IsBelow
  <2>3. par[o] # NOTHING => par[o] \in Objs /\ par[par[o]] \in Objs \cup {NOTHING}
    BY <1>2 DEF Parents
  <2> QED  BY <1>3, <2>1, <2>2, <2>3 DEF IsBelow
<1>5. PICK L : Moving(par, own, v, D, o, p, A, L)
  BY <1>1, <1>4, MovingExists DEF A
<1>6. /\ A \subseteq Objs
      /\ \A d \in A : L[d] \in Seq(Propdef) /\ D[d] = L[d] \o OfParent(D, par[o])
  BY <1>3, <1>5 DEF Moving, IsLocals, IsBelow
<1>7. \E b \in Seq(Propdef) : OfParent(D, par[o]) = b \o OfParent(D, p)
  <2>1. CASE p = NOTHING
    <3>1. OfParent(D, p) = <<>>
      BY <2>1 DEF OfParent
    <3>2. OfParent(D, par[o]) \in Seq(Propdef)
      BY <1>2 DEF OfParent, IsDefs, Parents
    <3>3. OfParent(D, par[o]) \o <<>> = OfParent(D, par[o])
      BY <3>2, ConcatEmptySeq
    <3> QED  BY <3>1, <3>2, <3>3
  <2>2. CASE p # NOTHING
    <3>1. par[o] \in Objs /\ p = par[par[o]] /\ par[o] # NOTHING
      BY <1>2, <2>2 DEF Parents
    <3>2. OfParent(D, par[o]) = D[par[o]] /\ OfParent(D, p) = D[p]
      BY <2>2, <3>1 DEF OfParent
    <3>3. D[par[o]] = propdefs[par[o]] \o D[p] /\ propdefs[par[o]] \in Seq(Propdef)
      BY <1>2, <2>2, <3>1 DEF IsDefs
    <3> QED  BY <3>2, <3>3
  <2> QED  BY <2>1, <2>2
<1>8. PICK b \in Seq(Propdef) : OfParent(D, par[o]) = b \o OfParent(D, p)
  BY <1>7
<1>9. OfParent(D, p) \in Seq(Propdef)
  BY <1>2, <1>4 DEF OfParent, IsDefs
<1>10. ASSUME NEW d \in A  PROVE UniqueNames(L[d] \o OfParent(D, p))
  <2>1. L[d] \in Seq(Propdef) /\ D[d] = L[d] \o (b \o OfParent(D, p))
    BY <1>6, <1>8
  <2>2. UniqueNames(D[d])
    BY <1>1, <1>6 DEF Unique
  <2>3. UniqueNames(L[d] \o (b \o OfParent(D, p)))
    BY <2>1, <2>2
  <2> QED  BY <1>9, <2>1, <2>3, NamesPart
<1>11. Valued(propdefs, v)
  BY DEF Sane
<1> QED  BY <1>1, <1>5, <1>10, <1>11, MoveSane

-----------------------------------------------------------------------------
(* The loop over the children *)

\* What holds for the empty set, and for a set if it does for it without any one of
\* its elements, holds for every subset of a finite set.
LEMMA SubsetsClosed ==
  ASSUME NEW S, IsFiniteSet(S), NEW U, {} \in U,
         \A T \in SUBSET S : T # {} /\ (\A x \in T : T \ {x} \in U) => T \in U
  PROVE  SUBSET S \subseteq U
<1> DEFINE N == {n \in Nat : \A T \in SUBSET S : Cardinality(T) = n => T \in U}
<1>1. \A T \in SUBSET S : IsFiniteSet(T) /\ Cardinality(T) \in Nat
  BY FS_Subset, FS_CardinalityType
<1>2. 0 \in N
  <2>1. \A T \in SUBSET S : Cardinality(T) = 0 => T = {}
    BY <1>1, FS_EmptySet
  <2> QED  BY <2>1
<1>3. ASSUME NEW n \in Nat, n \in N  PROVE n + 1 \in N
  <2> SUFFICES ASSUME NEW T \in SUBSET S, Cardinality(T) = n + 1  PROVE T \in U
    OBVIOUS
  <2>1. T # {}
    <3>1. Cardinality({}) = 0 /\ n + 1 # 0
      BY FS_EmptySet
    <3> QED  BY ONLY <3>1, Cardinality(T) = n + 1
  <2>2. ASSUME NEW x \in T  PROVE T \ {x} \in U
    <3>1. IsFiniteSet(T)
      BY <1>1
    <3>2. Cardinality(T \ {x}) = Cardinality(T) - 1
      BY <3>1, FS_RemoveElement
    <3>3. Cardinality(T \ {x}) = n /\ T \ {x} \in SUBSET S
      BY <3>2
    <3> QED  BY <1>3, <3>3
  <2> QED  BY <2>1, <2>2
<1>4. Nat \subseteq N
  <2> HIDE DEF N
  <2> QED  BY <1>2, <1>3, NatClosed
<1>5. ASSUME NEW T \in SUBSET S  PROVE T \in U
  <2>1. Cardinality(T) \in N
    BY <1>1, <1>4
  <2> QED  BY <2>1
<1> QED  BY <1>5

\* The parents when the objects in s have got the parent p.
Adopted(par, s, p) == [x \in Objs |-> IF x \in s THEN p ELSE par[x]]

\* f has the database after the objects of each subset of S have gone to p.
IsFold(f, S, base, p) ==
  /\ ChangeParents(base, S, p) = f[S] /\ f[{}] = base
  /\ \A s \in SUBSET S : s # {} => \E c \in s : f[s] = ChangeParent(f[s \ {c}], c, p)

\* The recursive function in FoldSet exists.
LEMMA ChangeParentsStep ==
  ASSUME NEW S, IsFiniteSet(S), NEW base, NEW p
  PROVE  \E f : IsFold(f, S, base, p)
<1> DEFINE St(c, d) == ChangeParent(d, c, p)
           Ch(s) == CHOOSE x \in s : TRUE
           Val(f, s) == IF s = {} THEN base ELSE St(Ch(s), f[s \ {Ch(s)}])
           Eq(f, T) == f = [s \in SUBSET T |-> Val(f, s)]
           F(T) == CHOOSE f : Eq(f, T)
<1>1. ChangeParents(base, S, p) = F(S)[S]
  BY DEF ChangeParents, FoldSet, MapThenFoldSet
<1> HIDE DEF St, F
<1>2. ASSUME NEW T1 \in SUBSET S, NEW T2 \in SUBSET S, NEW f, NEW h, Eq(f, T1), Eq(h, T2)
      PROVE  \A s \in SUBSET (T1 \cap T2) : f[s] = h[s]
  <2> DEFINE T == T1 \cap T2
             U == {s \in SUBSET T : f[s] = h[s]}
  <2>1. \A s \in SUBSET T : f[s] = Val(f, s) /\ h[s] = Val(h, s)
    <3>1. T \in SUBSET T1 /\ T \in SUBSET T2
      OBVIOUS
    <3> HIDE DEF T, Val
    <3> QED  BY <1>2, <3>1
  <2>2. {} \in U
    BY <2>1
  <2>3. ASSUME NEW s \in SUBSET T, s # {}, \A x \in s : s \ {x} \in U
        PROVE  s \in U
    <3>1. Ch(s) \in s
      BY <2>3
    <3>2. f[s \ {Ch(s)}] = h[s \ {Ch(s)}]
      BY <2>3, <3>1
    <3> QED  BY <2>1, <3>2
  <2>4. IsFiniteSet(T)
    BY FS_Subset
  <2>5. SUBSET T \subseteq U
    <3> HIDE DEF U, T
    <3> QED  BY <2>2, <2>3, <2>4, SubsetsClosed
  <2> QED  BY <2>5
<1> DEFINE U == {T \in SUBSET S : Eq(F(T), T)}
<1>3. ASSUME NEW T \in SUBSET S, NEW f, Eq(f, T)  PROVE T \in U
  BY ZenonT(60), <1>3 DEF F
<1>4. {} \in U
  <2> DEFINE f == [s \in SUBSET {} |-> base]
  <2>1. f = [s \in SUBSET {} |-> Val(f, s)]
    OBVIOUS
  <2>2. Eq(f, {}) /\ {} \in SUBSET S
    BY <2>1
  <2> HIDE DEF f, Eq, U
  <2> QED  BY <1>3, <2>2
<1>5. ASSUME NEW T \in SUBSET S, T # {}, \A x \in T : T \ {x} \in U  PROVE T \in U
  <2> DEFINE X(s) == CHOOSE x \in T : x \notin s
             f == [s \in SUBSET T |-> IF s = T THEN St(Ch(T), F(T \ {Ch(T)})[T \ {Ch(T)}])
                                      ELSE F(T \ {X(s)})[s]]
  <2>1. \A s \in SUBSET T : s # T => X(s) \in T /\ X(s) \notin s
    OBVIOUS
  <2>2. Ch(T) \in T
    BY <1>5
  <2>3. \A x \in T : Eq(F(T \ {x}), T \ {x})
    BY <1>5
  <2>4. ASSUME NEW s \in SUBSET T, NEW x \in T, x \notin s
        PROVE  f[s] = F(T \ {x})[s]
    <3>1. s # T /\ f[s] = F(T \ {X(s)})[s]
      BY <2>4
    <3>2. X(s) \in T /\ X(s) \notin s
      BY <2>1, <3>1
    <3> HIDE DEF X, f, Eq
    <3>3. Eq(F(T \ {X(s)}), T \ {X(s)}) /\ Eq(F(T \ {x}), T \ {x})
      BY <2>3, <3>2
    <3>4. /\ s \in SUBSET ((T \ {X(s)}) \cap (T \ {x}))
          /\ T \ {X(s)} \in SUBSET S /\ T \ {x} \in SUBSET S
      BY <2>4, <3>2
    <3>5. F(T \ {X(s)})[s] = F(T \ {x})[s]
      BY ONLY <1>2, <3>3, <3>4
    <3> QED  BY <3>1, <3>5
  <2>5. ASSUME NEW s \in SUBSET T  PROVE f[s] = Val(f, s)
    <3>1. CASE s = T
      <4>1. f[T] = St(Ch(T), F(T \ {Ch(T)})[T \ {Ch(T)}])
        OBVIOUS
      <4>2. f[T \ {Ch(T)}] = F(T \ {Ch(T)})[T \ {Ch(T)}]
        <5> HIDE DEF f, Ch
        <5> QED  BY <2>2, <2>4
      <4> HIDE DEF f, Ch
      <4> QED  BY <1>5, <3>1, <4>1, <4>2
    <3>2. CASE s # T
      <4>1. PICK x \in T : x \notin s
        BY <3>2
      <4>2. f[s] = F(T \ {x})[s]
        <5> HIDE DEF f
        <5> QED  BY <2>4, <4>1
      <4>3. F(T \ {x})[s] = Val(F(T \ {x}), s)
        <5>1. Eq(F(T \ {x}), T \ {x}) /\ s \in SUBSET (T \ {x})
          BY <2>3, <4>1
        <5> HIDE DEF Val
        <5> QED  BY <5>1
      <4>4. f[s \ {Ch(s)}] = F(T \ {x})[s \ {Ch(s)}]
        <5>1. s \ {Ch(s)} \in SUBSET T /\ x \notin s \ {Ch(s)}
          BY <4>1
        <5> HIDE DEF f, Ch
        <5> QED  BY <2>4, <4>1, <5>1
      <4> HIDE DEF f, Ch
      <4> QED  BY <4>2, <4>3, <4>4
    <3> QED  BY <3>1, <3>2
  <2>6. Eq(f, T)
    <3>1. f = [s \in SUBSET T |-> f[s]]
      OBVIOUS
    <3> HIDE DEF f, Val
    <3> QED  BY <2>5, <3>1
  <2> HIDE DEF f, Eq, U
  <2> QED  BY <1>3, <2>6
<1>6. S \in U
  <2>1. SUBSET S \subseteq U
    <3> HIDE DEF U
    <3> QED  BY <1>4, <1>5, SubsetsClosed
  <2> QED  BY <2>1
<1> DEFINE f == F(S)
<1>7. Eq(f, S)
  BY <1>6
<1> HIDE DEF f
<1>8. \A s \in SUBSET S : f[s] = Val(f, s)
  <2> HIDE DEF Val
  <2> QED  BY <1>7
<1>9. f[{}] = base
  BY <1>8
<1>10. ASSUME NEW s \in SUBSET S, s # {}
       PROVE  \E c \in s : f[s] = ChangeParent(f[s \ {c}], c, p)
  <2>1. Ch(s) \in s
    BY <1>10
  <2>2. f[s] = St(Ch(s), f[s \ {Ch(s)}])
    BY <1>8, <1>10
  <2> HIDE DEF Ch
  <2> QED  BY <2>1, <2>2 DEF St
<1>11. IsFold(f, S, base, p)
  BY <1>1, <1>9, <1>10 DEF IsFold, f
<1> QED  BY <1>11

\* All the objects K have the parent o and go to its parent.
LEMMA ChildrenAscend ==
  \A par, own, v, K, o :
    /\ Sane(propdefs, par, own, v) /\ o \in Objs /\ K \in SUBSET Objs
    /\ \A c \in K : par[c] = o
    => \E v2 : /\ ChangeParents(DbOf(par, own, v), K, par[o])
                    = DbOf(Adopted(par, K, par[o]), own, v2)
               /\ Sane(propdefs, Adopted(par, K, par[o]), own, v2)
<1> SUFFICES ASSUME NEW par, NEW own, NEW v, NEW K, NEW o,
                    Sane(propdefs, par, own, v), o \in Objs, K \in SUBSET Objs,
                    \A c \in K : par[c] = o
             PROVE  \E v2 : /\ ChangeParents(DbOf(par, own, v), K, par[o])
                                 = DbOf(Adopted(par, K, par[o]), own, v2)
                            /\ Sane(propdefs, Adopted(par, K, par[o]), own, v2)
  OBVIOUS
<1> DEFINE g == par[o]
           base == DbOf(par, own, v)
           Q(s, db) == \E w : /\ db = DbOf(Adopted(par, s, g), own, w)
                              /\ Sane(propdefs, Adopted(par, s, g), own, w)
<1>1. Forest(par) /\ par \in Parents
  BY DEF Sane, Aligned, Forest
<1>2. o \notin K
  <2>1. par[o] # o
    <3>1. {o} \in SUBSET Objs /\ {o} # {}
      OBVIOUS
    <3>2. \E x \in {o} : par[x] \notin {o}
      BY <1>1, <3>1 DEF Forest
    <3> QED  BY <3>2
  <2> QED  BY <2>1
<1>3. IsFiniteSet(K)
  BY ObjsAssumption, FS_Subset
<1>4. \E f : IsFold(f, K, base, g)
  BY <1>3, ChangeParentsStep
<1> HIDE DEF base
<1>5. PICK f : /\ ChangeParents(base, K, g) = f[K] /\ f[{}] = base
               /\ \A s \in SUBSET K : s # {} =>
                    \E c \in s : f[s] = ChangeParent(f[s \ {c}], c, g)
  BY <1>4 DEF IsFold
<1> DEFINE U == {s \in SUBSET K : Q(s, f[s])}
<1>6. {} \in U
  <2>1. Adopted(par, {}, g) = par
    BY <1>1 DEF Adopted, Parents
  <2> QED  BY <1>5, <2>1 DEF base
<1>7. ASSUME NEW s \in SUBSET K, s # {}, \A x \in s : s \ {x} \in U  PROVE s \in U
  <2>1. PICK c \in s : f[s] = ChangeParent(f[s \ {c}], c, g)
    BY <1>5, <1>7
  <2> DEFINE par1 == Adopted(par, s \ {c}, g)
  <2>2. PICK w : f[s \ {c}] = DbOf(par1, own, w) /\ Sane(propdefs, par1, own, w)
    BY <1>7
  <2>3. c \in Objs /\ par1[c] = o /\ o # NOTHING /\ par1[o] = g
    BY <1>2, NothingAssumption DEF Adopted
  <2>4. Reparented(par1, c, g) = Adopted(par, s, g)
    BY <1>1 DEF Reparented, Adopted, Parents
  <2> HIDE DEF par1, g
  <2>5. \E v2 : /\ ChangeParent(DbOf(par1, own, w), c, g) = DbOf(Reparented(par1, c, g), own, v2)
                /\ Sane(propdefs, Reparented(par1, c, g), own, v2)
    BY <2>2, <2>3, Ascends
  <2> QED  BY <2>1, <2>2, <2>4, <2>5
<1>8. SUBSET K \subseteq U
  <2> HIDE DEF U
  <2> QED  BY <1>3, <1>6, <1>7, SubsetsClosed
<1>9. Q(K, f[K])
  BY <1>8
<1> QED  BY <1>5, <1>9 DEF base

-----------------------------------------------------------------------------
(* Looking for a property, and changes of values *)

\* n is the place of the name in s, or 0.
Found(n, s, name) ==
  \/ n = 0 /\ \A i \in 1..Len(s) : s[i].name # name
  \/ n \in 1..Len(s) /\ s[n].name = name

LEMMA FindIs ==
  \A par, D, o, name :
    /\ Forest(par) /\ propdefs \in [Objs -> Seq(Propdef)] /\ IsDefs(D, propdefs, par)
    /\ o \in Objs
    => Found(FindProperty(par, o, name), D[o], name)
<1> SUFFICES ASSUME NEW par, NEW D, NEW o, NEW name,
                    Forest(par), propdefs \in [Objs -> Seq(Propdef)],
                    IsDefs(D, propdefs, par), o \in Objs
             PROVE  Found(FindProperty(par, o, name), D[o], name)
  OBVIOUS
<1> DEFINE I == {i \in 1..Len(D[o]) : D[o][i].name = name}
           n == FindProperty(par, o, name)
<1>1. DefsOf(par, o) = D[o]
  <2>1. DefsOf(par, o) = OfParent(D, o)
    BY DefsOfIs
  <2> QED  BY <2>1, NothingAssumption DEF OfParent
<1>2. n = IF I # {} THEN Min(I) ELSE 0
  BY <1>1 DEF FindProperty, SelectInSeq
<1>3. I \in SUBSET Nat
  OBVIOUS
<1>4. I # {} => Min(I) \in I
  <2> HIDE DEF I
  <2> QED  BY <1>3, MinFacts
<1> QED  BY <1>2, <1>4 DEF Found

\* v2 has values in the same places as v, and clears none where it is defined.
KeepsPlaces(defs, v, v2) ==
  \A x \in Objs :
    /\ Len(v2[x]) = Len(v[x])
    /\ \A i \in 1..Len(v[x]) :
         /\ v2[x][i].def = v[x][i].def
         /\ i \in 1..Len(defs[x]) /\ v[x][i].var # CLEAR => v2[x][i].var # CLEAR

LEMMA Edited ==
  \A defs, par, own, v, own2, v2 :
    /\ Sane(defs, par, own, v)
    /\ own2 \in [Objs -> Objs \cup {NOTHING}] /\ v2 \in [Objs -> Seq(Pval)]
    /\ KeepsPlaces(defs, v, v2)
    => Sane(defs, par, own2, v2)
<1> SUFFICES ASSUME NEW defs, NEW par, NEW own, NEW v, NEW own2, NEW v2,
                    Sane(defs, par, own, v),
                    own2 \in [Objs -> Objs \cup {NOTHING}], v2 \in [Objs -> Seq(Pval)],
                    KeepsPlaces(defs, v, v2)
             PROVE  Sane(defs, par, own2, v2)
  OBVIOUS
<1> USE DEF KeepsPlaces
<1>1. PICK D : Aligned(defs, par, own, v, D) /\ Unique(D)
  BY DEF Sane
<1>2. Aligned(defs, par, own2, v2, D)
  <2>1. Matches(v2, D)
    <3> SUFFICES ASSUME NEW x \in Objs
                 PROVE  /\ Len(v2[x]) = Len(D[x])
                        /\ \A i \in 1..Len(D[x]) : v2[x][i].def = D[x][i].def
      BY DEF Matches
    <3>1. Len(v[x]) = Len(D[x]) /\ \A i \in 1..Len(D[x]) : v[x][i].def = D[x][i].def
      BY <1>1 DEF Aligned, Matches
    <3> QED  BY <3>1
  <2> QED  BY <1>1, <2>1 DEF Aligned
<1>3. Valued(defs, v2)
  <2> SUFFICES ASSUME NEW x \in Objs, NEW i \in 1..Len(defs[x])  PROVE v2[x][i].var # CLEAR
    BY DEF Valued
  <2>1. v[x][i].var # CLEAR
    BY DEF Sane, Valued
  <2>2. i \in 1..Len(v[x])
    <3>1. Len(v[x]) = Len(D[x]) /\ defs[x] \in Seq(Propdef) /\ Forest(par)
      BY <1>1 DEF Aligned, Matches
    <3>2. D[x] = IF par[x] = NOTHING THEN defs[x] ELSE defs[x] \o D[par[x]]
      BY <1>1 DEF Aligned, IsDefs
    <3>3. CASE par[x] = NOTHING
      BY <3>1, <3>2, <3>3
    <3>4. CASE par[x] # NOTHING
      <4>1. D[par[x]] \in Seq(Propdef)
        BY <1>1, <3>1, <3>4 DEF Aligned, IsDefs, Forest, Parents
      <4>2. /\ Len(D[x]) = Len(defs[x]) + Len(D[par[x]])
            /\ Len(defs[x]) \in Nat /\ Len(D[par[x]]) \in Nat
        BY <3>1, <3>2, <3>4, <4>1, DefsConcat
      <4>3. \A a, b \in Nat : \A j \in 1..a : j \in 1..(a + b)
        OBVIOUS
      <4>4. i \in 1..(Len(defs[x]) + Len(D[par[x]]))
        BY ONLY <4>2, <4>3, i \in 1..Len(defs[x])
      <4> QED  BY <3>1, <4>2, <4>4
    <3> QED  BY <3>3, <3>4
  <2> QED  BY <2>1, <2>2
<1> QED  BY <1>1, <1>2, <1>3 DEF Sane

\* One slot of one object gets another value of the same definition.
LEMMA SetSlot ==
  \A v \in [Objs -> Seq(Pval)], o \in Objs, r \in Pval : \A n \in 1..Len(v[o]) :
    r.def = v[o][n].def =>
      LET v2 == [v EXCEPT ![o] = [@ EXCEPT ![n] = r]]
      IN  /\ v2 \in [Objs -> Seq(Pval)]
          /\ \A x \in Objs :
               /\ Len(v2[x]) = Len(v[x])
               /\ \A i \in 1..Len(v[x]) :
                    /\ v2[x][i].def = v[x][i].def
                    /\ v2[x][i].var # v[x][i].var => x = o /\ i = n /\ v2[x][i].var = r.var
<1> TAKE v \in [Objs -> Seq(Pval)], o \in Objs, r \in Pval
<1> TAKE n \in 1..Len(v[o])
<1> HAVE r.def = v[o][n].def
<1> DEFINE s == [v[o] EXCEPT ![n] = r]
           v2 == [v EXCEPT ![o] = s]
<1>1. /\ s \in Seq(Pval) /\ Len(s) = Len(v[o])
      /\ \A i \in 1..Len(v[o]) : s[i] = IF i = n THEN r ELSE v[o][i]
  <2>1. v[o] \in Seq(Pval)
    OBVIOUS
  <2> QED  BY <2>1, ExceptSeq
<1> HIDE DEF s
<1>2. v2 \in [Objs -> Seq(Pval)] /\ \A x \in Objs : v2[x] = IF x = o THEN s ELSE v[x]
  BY <1>1
<1> HIDE DEF v2
<1>3. ASSUME NEW x \in Objs
      PROVE  /\ Len(v2[x]) = Len(v[x])
             /\ \A i \in 1..Len(v[x]) :
                  /\ v2[x][i].def = v[x][i].def
                  /\ v2[x][i].var # v[x][i].var => x = o /\ i = n /\ v2[x][i].var = r.var
  <2>1. CASE x # o
    BY <1>2, <2>1
  <2>2. CASE x = o
    BY <1>1, <1>2, <2>2
  <2> QED  BY <2>1, <2>2
<1> QED  BY <1>2, <1>3 DEF v2, s

-----------------------------------------------------------------------------
(* The invariant *)

\* The state has its types, a number that is not valid has nothing, and the objects
\* have the values of what they define and inherit.
IInv ==
  /\ objs \subseteq Objs /\ changes \in 0..MaxChanges
  /\ Sane(propdefs, parent, owner, propval)
  /\ \A x \in Objs :
       /\ parent[x] \in objs \cup {NOTHING}
       /\ x \notin objs => parent[x] = NOTHING /\ owner[x] = NOTHING /\ propdefs[x] = <<>>

LEMMA Types ==
  ASSUME IInv
  PROVE  /\ propdefs \in [Objs -> Seq(Propdef)] /\ propval \in [Objs -> Seq(Pval)]
         /\ parent \in Parents /\ Forest(parent) /\ owner \in [Objs -> Objs \cup {NOTHING}]
         /\ Valued(propdefs, propval)
         /\ \E D : IsDefs(D, propdefs, parent) /\ Matches(propval, D) /\ Unique(D)
BY DEF IInv, Sane, Aligned, Forest

LEMMA InitIInv ==
  Init => IInv
<1> SUFFICES ASSUME Init  PROVE IInv
  OBVIOUS
<1> USE DEF Init
<1> DEFINE D == [o \in Objs |-> <<>>]
<1>1. /\ propdefs \in [Objs -> Seq(Propdef)] /\ propval \in [Objs -> Seq(Pval)]
      /\ parent \in Parents /\ owner \in [Objs -> Objs \cup {NOTHING}]
  BY DEF Parents
<1>2. Forest(parent)
  BY <1>1, NothingAssumption DEF Forest
<1>3. IsDefs(D, propdefs, parent) /\ Matches(propval, D) /\ Unique(D)
  BY DEF IsDefs, Matches, Unique, UniqueNames
<1>4. Valued(propdefs, propval)
  BY DEF Valued
<1>5. Sane(propdefs, parent, owner, propval)
  <2> HIDE DEF D, Init
  <2> QED  BY <1>1, <1>2, <1>3, <1>4 DEF Sane, Aligned
<1>6. objs \subseteq Objs /\ changes \in 0..MaxChanges
  BY BoundsAssumption
<1> QED  BY <1>5, <1>6 DEF IInv

\* Whatever is looked up among the properties of an object has a slot.
LEMMA SlotFound ==
  ASSUME IInv, NEW o \in Objs, NEW name, NEW n, n = FindProperty(parent, o, name), n # 0
  PROVE  /\ n \in 1..Len(propval[o])
         /\ (\A i \in 1..Len(propdefs[o]) : propdefs[o][i].name # name)
              => n \notin 1..Len(propdefs[o])
<1>1. PICK D : IsDefs(D, propdefs, parent) /\ Matches(propval, D)
  BY Types
<1>2. n \in 1..Len(D[o]) /\ D[o][n].name = name
  <2>1. Found(n, D[o], name)
    BY <1>1, Types, FindIs
  <2> QED  BY <2>1 DEF Found
<1>3. Len(propval[o]) = Len(D[o])
  BY <1>1 DEF Matches
<1>4. ASSUME n \in 1..Len(propdefs[o])  PROVE propdefs[o][n].name = name
  <2>1. D[o] = IF parent[o] = NOTHING THEN propdefs[o] ELSE propdefs[o] \o D[parent[o]]
    BY <1>1 DEF IsDefs
  <2>2. CASE parent[o] = NOTHING
    BY <1>2, <2>1, <2>2
  <2>3. CASE parent[o] # NOTHING
    <3>1. propdefs[o] \in Seq(Propdef) /\ D[parent[o]] \in Seq(Propdef)
      BY <1>1, <2>3, Types DEF IsDefs, Parents
    <3>2. (propdefs[o] \o D[parent[o]])[n] = propdefs[o][n]
      BY <1>4, <3>1, DefsConcat
    <3> QED  BY <1>2, <2>1, <2>3, <3>2
  <2> QED  BY <2>2, <2>3
<1> QED  BY <1>2, <1>3, <1>4

\* One slot gets another value, which is not CLEAR where the property is defined.
LEMMA SlotSane ==
  ASSUME NEW par, NEW own, NEW v, Sane(propdefs, par, own, v),
         NEW o \in Objs, NEW n \in 1..Len(v[o]), NEW r \in Pval, r.def = v[o][n].def,
         n \in 1..Len(propdefs[o]) /\ v[o][n].var # CLEAR => r.var # CLEAR,
         NEW v2, v2 = [v EXCEPT ![o] = [@ EXCEPT ![n] = r]]
  PROVE  Sane(propdefs, par, own, v2)
<1>1. v \in [Objs -> Seq(Pval)] /\ own \in [Objs -> Objs \cup {NOTHING}]
  BY DEF Sane, Aligned
<1>2. /\ v2 \in [Objs -> Seq(Pval)]
      /\ \A x \in Objs :
           /\ Len(v2[x]) = Len(v[x])
           /\ \A i \in 1..Len(v[x]) :
                /\ v2[x][i].def = v[x][i].def
                /\ v2[x][i].var # v[x][i].var => x = o /\ i = n /\ v2[x][i].var = r.var
  BY <1>1, SetSlot
<1>3. KeepsPlaces(propdefs, v, v2)
  BY ONLY <1>2, n \in 1..Len(propdefs[o]) /\ v[o][n].var # CLEAR => r.var # CLEAR
     DEF KeepsPlaces
<1>4. Sane(propdefs, par, own, v) /\ v2 \in [Objs -> Seq(Pval)]
  BY <1>2
<1> QED  BY ONLY <1>1, <1>3, <1>4, Edited

LEMMA PutPropIInv ==
  ASSUME IInv, PutProp  PROVE IInv'
<1>1. PICK o \in objs, name \in Names, val \in Values :
        /\ FindProperty(parent, o, name) # 0
        /\ propval' = [propval EXCEPT ![o][FindProperty(parent, o, name)].var = val]
        /\ UNCHANGED <<objs, parent, owner, propdefs, changes>>
  BY DEF PutProp
<1> DEFINE n == FindProperty(parent, o, name)
           r == [propval[o][n] EXCEPT !.var = val]
<1>2. o \in Objs
  BY DEF IInv
<1>3. n \in 1..Len(propval[o])
  BY <1>1, <1>2, SlotFound
<1>4. propval' = [propval EXCEPT ![o] = [@ EXCEPT ![n] = r]]
  BY <1>1
<1> HIDE DEF n
<1>5. propval[o][n] \in Pval
  BY <1>2, <1>3, Types
<1>6. r \in Pval /\ r.def = propval[o][n].def /\ r.var = val /\ val # CLEAR
  BY <1>5, ClearAssumption DEF Pval
<1> HIDE DEF r
<1>7. Sane(propdefs, parent, owner, propval)
  BY DEF IInv
<1>8. Sane(propdefs, parent, owner, propval')
  BY ONLY <1>2, <1>3, <1>4, <1>6, <1>7, SlotSane
<1> QED  BY <1>1, <1>8 DEF IInv

LEMMA ClearPropIInv ==
  ASSUME IInv, ClearProp  PROVE IInv'
<1>1. PICK o \in objs, name \in Names :
        /\ FindProperty(parent, o, name) # 0
        /\ ~DefinedHere(o, name)
        /\ propval' = [propval EXCEPT ![o][FindProperty(parent, o, name)].var = CLEAR]
        /\ UNCHANGED <<objs, parent, owner, propdefs, changes>>
  BY DEF ClearProp
<1> DEFINE n == FindProperty(parent, o, name)
           r == [propval[o][n] EXCEPT !.var = CLEAR]
<1>2. o \in Objs
  BY DEF IInv
<1>3. \A i \in 1..Len(propdefs[o]) : propdefs[o][i].name # name
  <2>1. propdefs[o] \in Seq(Propdef)
    BY <1>2, Types
  <2> QED  BY <1>1, <2>1 DEF DefinedHere
<1>4. n \in 1..Len(propval[o]) /\ n \notin 1..Len(propdefs[o])
  BY <1>1, <1>2, <1>3, SlotFound
<1>5. propval' = [propval EXCEPT ![o] = [@ EXCEPT ![n] = r]]
  BY <1>1
<1> HIDE DEF n
<1>6. propval[o][n] \in Pval
  BY <1>2, <1>4, Types
<1>7. r \in Pval /\ r.def = propval[o][n].def
  BY <1>6 DEF Pval
<1> HIDE DEF r
<1>8. Sane(propdefs, parent, owner, propval)
  BY DEF IInv
<1>9. Sane(propdefs, parent, owner, propval')
  BY ONLY <1>2, <1>4, <1>5, <1>7, <1>8, SlotSane
<1> QED  BY <1>1, <1>9 DEF IInv

LEMMA SetPropInfoIInv ==
  ASSUME IInv, SetPropInfo  PROVE IInv'
<1>1. PICK o \in objs, name \in Names, w \in Owners, c \in BOOLEAN :
        LET n == FindProperty(parent, o, name)
        IN  /\ n # 0
            /\ Change
            /\ w \in objs
            /\ propval' = [propval EXCEPT ![o][n].owner = w, ![o][n].chown = c]
            /\ UNCHANGED <<objs, parent, owner, propdefs>>
  BY ZenonT(60) DEF SetPropInfo
<1> DEFINE n == FindProperty(parent, o, name)
           r == [propval[o][n] EXCEPT !.owner = w, !.chown = c]
<1>2. o \in Objs
  BY DEF IInv
<1>3. n \in 1..Len(propval[o])
  BY <1>1, <1>2, SlotFound
<1>4. propval' = [propval EXCEPT ![o][n].owner = w, ![o][n].chown = c]
  BY <1>1
<1> HIDE DEF n
<1>5. propval[o][n] \in Pval /\ propval \in [Objs -> Seq(Pval)] /\ propval[o] \in Seq(Pval)
  BY <1>2, <1>3, Types
<1>6. propval' = [propval EXCEPT ![o] = [@ EXCEPT ![n] = r]]
  <2> DEFINE s == [propval[o] EXCEPT ![n] = [propval[o][n] EXCEPT !.owner = w]]
             v1 == [propval EXCEPT ![o] = s]
  <2>1. propval' = [v1 EXCEPT ![o] = [v1[o] EXCEPT ![n] = [v1[o][n] EXCEPT !.chown = c]]]
    BY <1>4
  <2>2. v1[o] = s /\ s[n] = [propval[o][n] EXCEPT !.owner = w]
    BY <1>2, <1>3, <1>5
  <2>3. [s[n] EXCEPT !.chown = c] = r
    BY <1>5, <2>2 DEF Pval
  <2>4. [s EXCEPT ![n] = r] = [propval[o] EXCEPT ![n] = r]
    BY <1>3, <1>5
  <2>5. propval' = [v1 EXCEPT ![o] = [s EXCEPT ![n] = r]]
    BY <2>1, <2>2, <2>3
  <2> HIDE DEF s, r
  <2> QED  BY <1>5, <2>4, <2>5
<1>7. r \in Pval /\ r.def = propval[o][n].def /\ r.var = propval[o][n].var
  BY <1>5, NothingAssumption DEF Pval
<1> HIDE DEF r
<1>8. Sane(propdefs, parent, owner, propval)
  BY DEF IInv
<1>9. Sane(propdefs, parent, owner, propval')
  BY ONLY <1>2, <1>3, <1>6, <1>7, <1>8, SlotSane
<1>10. changes' \in 0..MaxChanges
  BY <1>1, BoundsAssumption DEF Change, IInv
<1> QED  BY <1>1, <1>9, <1>10 DEF IInv

LEMMA SetOwnerIInv ==
  ASSUME IInv, SetOwner  PROVE IInv'
<1>1. PICK o \in objs, w \in Owners :
        Change /\ owner' = [owner EXCEPT ![o] = w] /\ UNCHANGED <<objs, parent, propdefs, propval>>
  BY DEF SetOwner
<1>2. o \in Objs /\ owner' \in [Objs -> Objs \cup {NOTHING}]
  BY <1>1, Types, NothingAssumption DEF IInv
<1>3. /\ Sane(propdefs, parent, owner, propval) /\ propval \in [Objs -> Seq(Pval)]
      /\ KeepsPlaces(propdefs, propval, propval)
  BY Types DEF IInv, KeepsPlaces
<1>4. Sane(propdefs, parent, owner', propval)
  BY <1>2, <1>3, Edited
<1>5. changes' \in 0..MaxChanges
  BY <1>1, BoundsAssumption DEF Change, IInv
<1>6. \A x \in Objs : x \notin objs => owner'[x] = NOTHING
  BY <1>1, Types DEF IInv
<1> QED  BY <1>1, <1>4, <1>5, <1>6 DEF IInv

\* No object at or below o defines a name that the new parent has.
LEMMA ChparentNames ==
  ASSUME NEW D, IsDefs(D, propdefs, parent), Forest(parent), Unique(D),
         propdefs \in [Objs -> Seq(Propdef)], NEW o \in Objs, NEW p \in Objs \cup {NOTHING},
         CheckPropertiesForChparent(o, p),
         NEW L, IsLocals(L, AtOrBelow(parent, o), o, propdefs, parent),
         NEW d \in AtOrBelow(parent, o), D[d] = L[d] \o OfParent(D, parent[o])
  PROVE  UniqueNames(L[d] \o OfParent(D, p))
<1> DEFINE A == AtOrBelow(parent, o)
           s == OfParent(D, p)
<1>1. DefsOf(parent, p) = s
  BY DefsOfIs
<1>2. s \in Seq(Propdef) /\ \A i \in 1..Len(s) : ~PropertyDefinedAtOrBelow(s[i].name, o)
  <2>1. s \in Seq(Propdef)
    BY DEF OfParent, IsDefs
  <2> HIDE DEF s
  <2> QED  BY <1>1, <2>1 DEF CheckPropertiesForChparent
<1>3. d \in Objs /\ L[d] \in Seq(Propdef) /\ From(L[d], propdefs, A)
  BY DEF AtOrBelow, IsLocals
<1>4. OfParent(D, parent[o]) \in Seq(Propdef)
  BY DEF OfParent, IsDefs, Forest, Parents
<1>5. UniqueNames(L[d])
  <2>1. UniqueNames(L[d] \o OfParent(D, parent[o]))
    BY <1>3 DEF Unique
  <2> QED  BY <1>3, <1>4, <2>1, NamesConcat
<1>6. UniqueNames(s)
  <2>1. CASE p = NOTHING
    BY <2>1 DEF OfParent, UniqueNames
  <2>2. CASE p # NOTHING
    BY <2>2 DEF OfParent, Unique
  <2> QED  BY <2>1, <2>2
<1> HIDE DEF s
<1>7. NamesApart(L[d], s)
  <2> SUFFICES ASSUME NEW i \in 1..Len(L[d]), NEW j \in 1..Len(s), L[d][i].name = s[j].name
               PROVE  FALSE
    BY DEF NamesApart
  <2>1. PICK e \in A : \E k \in 1..Len(propdefs[e]) : L[d][i] = propdefs[e][k]
    BY <1>3 DEF From
  <2>2. PICK k \in 1..Len(propdefs[e]) : L[d][i] = propdefs[e][k]
    BY <2>1
  <2>3. e \in Objs /\ propdefs[e] \in Seq(Propdef)
    BY DEF AtOrBelow
  <2>4. k \in DOMAIN propdefs[e] /\ propdefs[e][k].name = s[j].name
    BY <2>2, <2>3
  <2>5. PropertyDefinedAtOrBelow(s[j].name, o)
    BY <2>4 DEF PropertyDefinedAtOrBelow, DefinedHere
  <2> QED  BY <1>2, <2>5
<1>8. UniqueNames(L[d] \o s)
  BY <1>2, <1>3, <1>5, <1>6, <1>7, NamesConcat
<1> QED  BY <1>8 DEF s

LEMMA DbIs ==
  /\ Db = DbOf(parent, owner, propval)
  /\ \A par, own, v : /\ DbOf(par, own, v).parent = par
                      /\ DbOf(par, own, v).owner = own
                      /\ DbOf(par, own, v).propval = v
BY DEF Db, DbOf

LEMMA ChparentIInv ==
  ASSUME IInv, Chparent  PROVE IInv'
<1>1. PICK o \in objs, p \in objs \cup {NOTHING} :
        /\ ~Contains(Path(parent, p), o)
        /\ CheckPropertiesForChparent(o, p)
        /\ parent' = ChangeParent(Db, o, p).parent
        /\ propval' = ChangeParent(Db, o, p).propval
        /\ UNCHANGED <<objs, owner, propdefs, changes>>
  BY ZenonT(60) DEF Chparent
<1>2. o \in Objs /\ p \in Objs \cup {NOTHING}
  BY DEF IInv
<1>3. p \notin AtOrBelow(parent, o)
  BY <1>1 DEF AtOrBelow
<1>4. PICK D : Aligned(propdefs, parent, owner, propval, D) /\ Unique(D)
  BY DEF IInv, Sane
<1>5. PICK L : Moving(parent, owner, propval, D, o, p, AtOrBelow(parent, o), L)
  BY <1>2, <1>3, <1>4, MovingExists
<1>6. Valued(propdefs, propval)
  BY Types
<1>7. \A d \in AtOrBelow(parent, o) : UniqueNames(L[d] \o OfParent(D, p))
  <2> TAKE d \in AtOrBelow(parent, o)
  <2>1. /\ IsDefs(D, propdefs, parent) /\ Forest(parent) /\ Unique(D)
        /\ propdefs \in [Objs -> Seq(Propdef)]
    BY <1>4 DEF Aligned
  <2>2. /\ IsLocals(L, AtOrBelow(parent, o), o, propdefs, parent)
        /\ D[d] = L[d] \o OfParent(D, parent[o])
    BY <1>5 DEF Moving
  <2> QED  BY <1>1, <1>2, <2>1, <2>2, ChparentNames
<1>8. PICK v2 : /\ ChangeParent(DbOf(parent, owner, propval), o, p)
                     = DbOf(Reparented(parent, o, p), owner, v2)
                /\ Sane(propdefs, Reparented(parent, o, p), owner, v2)
  BY <1>4, <1>5, <1>6, <1>7, MoveSane
<1>9. ChangeParent(Db, o, p) = DbOf(Reparented(parent, o, p), owner, v2)
  BY <1>8, DbIs
<1>10. parent' = Reparented(parent, o, p) /\ propval' = v2
  BY ONLY <1>1, <1>9, DbIs
<1>11. Sane(propdefs', parent', owner', propval')
  BY <1>1, <1>8, <1>10
<1>12. \A x \in Objs : parent'[x] = IF x = o THEN p ELSE parent[x]
  BY <1>10, Types DEF Reparented, Parents
<1> QED  BY <1>1, <1>11, <1>12 DEF IInv

LEMMA QuotaSane ==
  ASSUME objs \subseteq Objs, NEW par, NEW own, NEW v, Sane(propdefs, par, own, v),
         NEW w, NEW pv \in QuotaStored(DbOf(par, own, v), w)
  PROVE  Sane(propdefs, par, own, pv)
<1> DEFINE n == IF w \in objs THEN FindProperty(par, w, QUOTA) ELSE 0
<1>1. pv \in IF n = 0 THEN {v} ELSE {v} \cup {[v EXCEPT ![w][n].var = x] : x \in Values}
  BY DEF QuotaStored, DbOf
<1>2. CASE pv = v
  BY <1>2
<1>3. CASE pv # v
  <2>1. /\ w \in objs /\ n # 0 /\ n = FindProperty(par, w, QUOTA) /\ w \in Objs
        /\ \E x \in Values : pv = [v EXCEPT ![w][n].var = x]
    BY <1>1, <1>3
  <2> HIDE DEF n
  <2>2. PICK x \in Values : pv = [v EXCEPT ![w][n].var = x]
    BY <2>1
  <2>3. PICK D : Aligned(propdefs, par, own, v, D)
    BY DEF Sane
  <2>4. /\ Forest(par) /\ propdefs \in [Objs -> Seq(Propdef)] /\ IsDefs(D, propdefs, par)
        /\ v \in [Objs -> Seq(Pval)] /\ Matches(v, D)
    BY <2>3 DEF Aligned
  <2>5. Found(FindProperty(par, w, QUOTA), D[w], QUOTA)
    BY <2>1, <2>4, FindIs
  <2>6. n \in 1..Len(v[w])
    BY <2>1, <2>4, <2>5 DEF Found, Matches
  <2> DEFINE r == [v[w][n] EXCEPT !.var = x]
  <2>7. pv = [v EXCEPT ![w] = [@ EXCEPT ![n] = r]]
    BY <2>2
  <2>8. v[w][n] \in Pval
    BY <2>1, <2>4, <2>6
  <2>9. r \in Pval /\ r.def = v[w][n].def /\ r.var = x /\ x # CLEAR
    BY <2>8, ClearAssumption DEF Pval
  <2> HIDE DEF r
  <2> QED  BY ONLY <2>1, <2>6, <2>7, <2>9, Sane(propdefs, par, own, v), SlotSane
<1> QED  BY <1>2, <1>3

LEMMA CreateIInv ==
  ASSUME IInv, Create  PROVE IInv'
<1>1. PICK o \in Objs \ objs, p \in objs \cup {NOTHING}, w \in Owners \cup {NOTHING} :
        \E pv \in QuotaStored(Db, w) :
          LET made == [Db EXCEPT !.owner[o] = IF w = NOTHING THEN o ELSE w, !.propval = pv]
              db   == ChangeParent(made, o, p)
          IN  /\ objs' = objs \cup {o}
              /\ parent' = db.parent
              /\ owner' = db.owner
              /\ propval' = db.propval
              /\ UNCHANGED <<propdefs, changes>>
  BY ZenonT(60) DEF Create
<1>2. PICK pv \in QuotaStored(Db, w) :
        LET made == [Db EXCEPT !.owner[o] = IF w = NOTHING THEN o ELSE w, !.propval = pv]
            db   == ChangeParent(made, o, p)
        IN  /\ objs' = objs \cup {o}
            /\ parent' = db.parent
            /\ owner' = db.owner
            /\ propval' = db.propval
            /\ UNCHANGED <<propdefs, changes>>
  BY <1>1, Zenon
<1> DEFINE own2 == [owner EXCEPT ![o] = IF w = NOTHING THEN o ELSE w]
           made == [Db EXCEPT !.owner[o] = IF w = NOTHING THEN o ELSE w, !.propval = pv]
           db == ChangeParent(made, o, p)
<1>3. made = DbOf(parent, own2, pv)
  <2> DEFINE m1 == [Db EXCEPT !.owner[o] = IF w = NOTHING THEN o ELSE w]
  <2>1. m1 = DbOf(parent, own2, propval)
    BY DEF Db, DbOf
  <2>2. made = [m1 EXCEPT !.propval = pv]
    OBVIOUS
  <2> HIDE DEF m1, made, own2
  <2>3. [m1 EXCEPT !.propval = pv] = DbOf(parent, own2, pv)
    BY <2>1 DEF DbOf
  <2> QED  BY <2>2, <2>3
<1>4. /\ objs' = objs \cup {o} /\ parent' = db.parent /\ owner' = db.owner
      /\ propval' = db.propval /\ UNCHANGED <<propdefs, changes>>
  BY <1>2, Zenon
<1> HIDE DEF made, db
<1>5. o \in Objs /\ p \in Objs \cup {NOTHING} /\ objs \subseteq Objs
  BY DEF IInv
<1>6. own2 \in [Objs -> Objs \cup {NOTHING}]
  <2>1. (IF w = NOTHING THEN o ELSE w) \in Objs \cup {NOTHING}
    BY NothingAssumption
  <2> QED  BY <2>1, Types
<1> HIDE DEF own2
<1>7. Sane(propdefs, parent, own2, pv)
  <2>1. Sane(propdefs, parent, owner, pv)
    <3>1. pv \in QuotaStored(DbOf(parent, owner, propval), w)
      BY DbIs
    <3>2. Sane(propdefs, parent, owner, propval)
      BY DEF IInv
    <3> QED  BY ONLY <1>5, <3>1, <3>2, QuotaSane
  <2>2. pv \in [Objs -> Seq(Pval)] /\ KeepsPlaces(propdefs, pv, pv)
    BY <2>1 DEF Sane, Aligned, KeepsPlaces
  <2> QED  BY ONLY <1>6, <2>1, <2>2, Edited
<1>8. PICK D : Aligned(propdefs, parent, own2, pv, D) /\ Unique(D)
  BY <1>7 DEF Sane
<1>9. /\ Forest(parent) /\ parent \in Parents
      /\ propdefs \in [Objs -> Seq(Propdef)] /\ IsDefs(D, propdefs, parent)
  BY <1>8, Types DEF Aligned
<1> DEFINE A == AtOrBelow(parent, o)
<1>10. A = {o}
  <2>1. IsBelow(A, parent, o)
    BY <1>9, AtOrBelowIs
  <2> HIDE DEF A
  <2>2. \A d \in Objs : parent[d] # o
    BY NothingAssumption DEF IInv
  <2>3. IsBelow({o}, parent, o)
    BY <1>5, <2>2 DEF IsBelow
  <2> QED  BY <1>9, <2>1, <2>3, BelowUnique
<1>11. p \notin A
  BY <1>5, <1>10, NothingAssumption
<1>12. PICK L : Moving(parent, own2, pv, D, o, p, A, L)
  BY <1>5, <1>8, <1>11, MovingExists
<1>13. \A d \in A : UniqueNames(L[d] \o OfParent(D, p))
  <2> TAKE d \in A
  <2>1. d = o /\ L[o] = propdefs[o] /\ propdefs[o] = <<>>
    BY <1>10, <1>12 DEF Moving, IsLocals, IInv
  <2>2. OfParent(D, p) \in Seq(Propdef)
    BY <1>5, <1>9 DEF OfParent, IsDefs
  <2>3. <<>> \o OfParent(D, p) = OfParent(D, p)
    BY <2>2, ConcatEmptySeq
  <2>4. UniqueNames(OfParent(D, p))
    <3>1. CASE p = NOTHING
      BY <3>1 DEF OfParent, UniqueNames
    <3>2. CASE p # NOTHING
      BY <1>5, <1>8, <3>2 DEF OfParent, Unique
    <3> QED  BY <3>1, <3>2
  <2> QED  BY <2>1, <2>3, <2>4
<1>14. Valued(propdefs, pv)
  BY <1>7 DEF Sane
<1>15. PICK v2 : /\ ChangeParent(DbOf(parent, own2, pv), o, p)
                      = DbOf(Reparented(parent, o, p), own2, v2)
                 /\ Sane(propdefs, Reparented(parent, o, p), own2, v2)
  BY <1>8, <1>12, <1>13, <1>14, MoveSane
<1>16. db = DbOf(Reparented(parent, o, p), own2, v2)
  BY <1>3, <1>15 DEF db
<1>17. parent' = Reparented(parent, o, p) /\ owner' = own2 /\ propval' = v2
  BY ONLY <1>4, <1>16, DbIs
<1>18. Sane(propdefs', parent', owner', propval')
  BY <1>4, <1>15, <1>17
<1>19. \A x \in Objs : /\ parent'[x] = IF x = o THEN p ELSE parent[x]
                       /\ x # o => owner'[x] = owner[x]
  BY <1>9, <1>17, Types DEF Reparented, Parents, own2
<1>20. objs' \subseteq Objs /\ changes' \in 0..MaxChanges
  BY <1>4, <1>5 DEF IInv
<1>21. ASSUME NEW x \in Objs
       PROVE  /\ parent'[x] \in objs' \cup {NOTHING}
              /\ x \notin objs' => parent'[x] = NOTHING /\ owner'[x] = NOTHING /\ propdefs'[x] = <<>>
  BY <1>4, <1>19 DEF IInv
<1> QED  BY <1>18, <1>20, <1>21 DEF IInv

\* An object without parent and children loses what it has.
LEMMA Erased ==
  \A defs, par, own, v, o, own2 :
    /\ Sane(defs, par, own, v) /\ o \in Objs /\ par[o] = NOTHING
    /\ \A x \in Objs : par[x] # o
    /\ own2 \in [Objs -> Objs \cup {NOTHING}]
    => Sane([defs EXCEPT ![o] = <<>>], par, own2, [v EXCEPT ![o] = <<>>])
<1> SUFFICES ASSUME NEW defs, NEW par, NEW own, NEW v, NEW o, NEW own2,
                    Sane(defs, par, own, v), o \in Objs, par[o] = NOTHING,
                    \A x \in Objs : par[x] # o,
                    own2 \in [Objs -> Objs \cup {NOTHING}]
             PROVE  Sane([defs EXCEPT ![o] = <<>>], par, own2, [v EXCEPT ![o] = <<>>])
  OBVIOUS
<1> DEFINE defs2 == [defs EXCEPT ![o] = <<>>]
           v2 == [v EXCEPT ![o] = <<>>]
<1>1. PICK D : Aligned(defs, par, own, v, D) /\ Unique(D)
  BY DEF Sane
<1> DEFINE D2 == [D EXCEPT ![o] = <<>>]
<1>2. /\ Forest(par) /\ par \in Parents /\ defs \in [Objs -> Seq(Propdef)]
      /\ IsDefs(D, defs, par) /\ D \in [Objs -> Seq(Propdef)]
      /\ v \in [Objs -> Seq(Pval)] /\ Matches(v, D) /\ Valued(defs, v)
  BY <1>1 DEF Aligned, Sane, Forest, IsDefs
<1>3. /\ defs2 \in [Objs -> Seq(Propdef)] /\ v2 \in [Objs -> Seq(Pval)]
      /\ D2 \in [Objs -> Seq(Propdef)]
      /\ defs2[o] = <<>> /\ v2[o] = <<>> /\ D2[o] = <<>>
      /\ \A x \in Objs \ {o} : defs2[x] = defs[x] /\ v2[x] = v[x] /\ D2[x] = D[x]
  BY <1>2
<1> HIDE DEF defs2, v2, D2
<1>4. IsDefs(D2, defs2, par)
  <2>1. ASSUME NEW x \in Objs
        PROVE  D2[x] = IF par[x] = NOTHING THEN defs2[x] ELSE defs2[x] \o D2[par[x]]
    <3>1. par[x] # NOTHING => par[x] \in Objs \ {o}
      BY <1>2 DEF Parents
    <3>2. D[x] = IF par[x] = NOTHING THEN defs[x] ELSE defs[x] \o D[par[x]]
      BY <1>2 DEF IsDefs
    <3> QED  BY <1>3, <3>1, <3>2
  <2> QED  BY <1>3, <2>1 DEF IsDefs
<1>5. Matches(v2, D2)
  BY ZenonT(60), <1>2, <1>3 DEF Matches
<1>6. Unique(D2)
  <2>1. UniqueNames(<<>>)
    BY DEF UniqueNames
  <2> QED  BY <1>1, <1>3, <2>1 DEF Unique
<1>7. Valued(defs2, v2)
  <2> SUFFICES ASSUME NEW x \in Objs, NEW i \in 1..Len(defs2[x])  PROVE v2[x][i].var # CLEAR
    BY DEF Valued
  <2>1. x # o
    BY <1>3
  <2>2. defs2[x] = defs[x] /\ v2[x] = v[x]
    BY <1>3, <2>1
  <2> QED  BY <1>2, <2>2 DEF Valued
<1>8. Aligned(defs2, par, own2, v2, D2)
  BY <1>2, <1>3, <1>4, <1>5 DEF Aligned
<1>9. Sane(defs2, par, own2, v2)
  BY <1>6, <1>7, <1>8 DEF Sane
<1> QED  BY <1>9 DEF defs2, v2

LEMMA RecycleIInv ==
  ASSUME IInv, Recycle  PROVE IInv'
<1>1. PICK o \in objs :
        LET kids == {c \in objs : parent[c] = o}
            db   == ChangeParent(ChangeParents(Db, kids, parent[o]), o, NOTHING)
        IN  /\ \A c \in kids : CheckPropertiesForChparent(c, parent[o])
            /\ \E pv \in QuotaStored(db, owner[o]) : propval' = [pv EXCEPT ![o] = <<>>]
            /\ parent' = db.parent
            /\ objs' = objs \ {o}
            /\ owner' = [owner EXCEPT ![o] = NOTHING]
            /\ propdefs' = [propdefs EXCEPT ![o] = <<>>]
            /\ UNCHANGED changes
  BY ZenonT(60) DEF Recycle
<1> DEFINE kids == {c \in objs : parent[c] = o}
           g == parent[o]
           db == ChangeParent(ChangeParents(Db, kids, g), o, NOTHING)
<1>2. PICK pv \in QuotaStored(db, owner[o]) : propval' = [pv EXCEPT ![o] = <<>>]
  BY <1>1, Zenon
<1>3. /\ parent' = db.parent
      /\ objs' = objs \ {o} /\ owner' = [owner EXCEPT ![o] = NOTHING]
      /\ propdefs' = [propdefs EXCEPT ![o] = <<>>] /\ UNCHANGED changes
  BY <1>1, Zenon
<1>4. /\ o \in Objs /\ kids \in SUBSET Objs /\ \A c \in kids : parent[c] = o
      /\ objs \subseteq Objs /\ Sane(propdefs, parent, owner, propval)
      /\ parent \in Parents /\ owner \in [Objs -> Objs \cup {NOTHING}]
  BY Types DEF IInv
<1>5. \A x \in Objs : parent[x] = o => x \in kids
  BY NothingAssumption, <1>4 DEF IInv
<1> HIDE DEF kids, db
<1> DEFINE par1 == Adopted(parent, kids, g)
<1>6. PICK v1 : /\ ChangeParents(DbOf(parent, owner, propval), kids, g) = DbOf(par1, owner, v1)
                /\ Sane(propdefs, par1, owner, v1)
  BY <1>4, ChildrenAscend
<1> DEFINE par2 == Reparented(par1, o, NOTHING)
<1> HIDE DEF par1
<1>7. PICK v2 : /\ ChangeParent(DbOf(par1, owner, v1), o, NOTHING) = DbOf(par2, owner, v2)
                /\ Sane(propdefs, par2, owner, v2)
  BY <1>4, <1>6, Ascends
<1>8. db = DbOf(par2, owner, v2)
  BY <1>6, <1>7, DbIs DEF db
<1>9. g # o /\ g \in objs \cup {NOTHING}
  <2>1. Forest(parent) /\ {o} \in SUBSET Objs /\ {o} # {}
    BY <1>4, Types
  <2>2. \E x \in {o} : parent[x] \notin {o}
    BY <2>1 DEF Forest
  <2> QED  BY <1>4, <2>2 DEF IInv
<1>10. \A x \in Objs : par2[x] = IF x = o THEN NOTHING ELSE IF x \in kids THEN g ELSE parent[x]
  BY <1>4 DEF par1, Adopted, Reparented
<1> HIDE DEF par2
<1>11. parent' = par2
  BY ONLY <1>3, <1>8, DbIs
<1>12. Sane(propdefs, par2, owner, pv)
  <2>1. pv \in QuotaStored(DbOf(par2, owner, v2), owner[o])
    BY <1>8
  <2> QED  BY ONLY <1>4, <1>7, <2>1, QuotaSane
<1>13. /\ par2[o] = NOTHING /\ \A x \in Objs : par2[x] # o
  BY <1>4, <1>5, <1>9, <1>10, NothingAssumption
<1>14. owner' \in [Objs -> Objs \cup {NOTHING}]
  BY <1>3, <1>4
<1>15. Sane(propdefs', parent', owner', propval')
  <2>1. Sane([propdefs EXCEPT ![o] = <<>>], par2, owner', [pv EXCEPT ![o] = <<>>])
    BY <1>4, <1>12, <1>13, <1>14, Erased
  <2> QED  BY <1>2, <1>3, <1>11, <2>1
<1>16. ASSUME NEW x \in Objs
       PROVE  /\ parent'[x] \in objs' \cup {NOTHING}
              /\ x \notin objs' => parent'[x] = NOTHING /\ owner'[x] = NOTHING /\ propdefs'[x] = <<>>
  <2>1. parent'[x] = IF x = o THEN NOTHING ELSE IF x \in kids THEN g ELSE parent[x]
    BY <1>10, <1>11
  <2>2. /\ parent[x] \in objs \cup {NOTHING}
        /\ x \notin objs => parent[x] = NOTHING /\ owner[x] = NOTHING /\ propdefs[x] = <<>>
    BY DEF IInv
  <2>3. x \in kids => x \in objs
    BY DEF kids
  <2>4. parent'[x] \in objs' \cup {NOTHING} /\ (x \notin objs' => parent'[x] = NOTHING)
    BY <1>3, <1>5, <1>9, <2>1, <2>2, <2>3
  <2>5. x \notin objs' => owner'[x] = NOTHING /\ propdefs'[x] = <<>>
    BY <1>3, <1>4, <2>2, Types
  <2> QED  BY <2>4, <2>5
<1>17. objs' \subseteq Objs /\ changes' \in 0..MaxChanges
  BY <1>3, <1>4 DEF IInv
<1> QED  BY <1>15, <1>16, <1>17 DEF IInv

\* The objects take each other's numbers: w says which number an object had.
Renumbers(w, par, par2) ==
  /\ w \in [Objs -> Objs] /\ \A x \in Objs : w[w[x]] = x
  /\ par2 \in Parents
  /\ \A x \in Objs : IF par[w[x]] = NOTHING THEN par2[x] = NOTHING
                     ELSE par2[x] = w[par[w[x]]]

RenumberedDefs(defs, w) == [x \in Objs |-> defs[w[x]]]

TakenOver(v2, v, w) ==
  /\ v2 \in [Objs -> Seq(Pval)]
  /\ \A x \in Objs : /\ Len(v2[x]) = Len(v[w[x]])
                     /\ \A i \in 1..Len(v[w[x]]) : /\ v2[x][i].def = v[w[x]][i].def
                                                   /\ v2[x][i].var = v[w[x]][i].var

LEMMA Renumbered ==
  \A defs, par, own, v, w, par2, own2, v2 :
    /\ Sane(defs, par, own, v) /\ Renumbers(w, par, par2)
    /\ own2 \in [Objs -> Objs \cup {NOTHING}] /\ TakenOver(v2, v, w)
    => Sane(RenumberedDefs(defs, w), par2, own2, v2)
<1> SUFFICES ASSUME NEW defs, NEW par, NEW own, NEW v, NEW w, NEW par2, NEW own2, NEW v2,
                    Sane(defs, par, own, v), Renumbers(w, par, par2),
                    own2 \in [Objs -> Objs \cup {NOTHING}], TakenOver(v2, v, w)
             PROVE  Sane(RenumberedDefs(defs, w), par2, own2, v2)
  OBVIOUS
<1> USE DEF Renumbers, TakenOver
<1> DEFINE defs2 == RenumberedDefs(defs, w)
<1>1. PICK D : Aligned(defs, par, own, v, D) /\ Unique(D)
  BY DEF Sane
<1>2. /\ Forest(par) /\ par \in Parents /\ defs \in [Objs -> Seq(Propdef)]
      /\ IsDefs(D, defs, par) /\ D \in [Objs -> Seq(Propdef)]
      /\ v \in [Objs -> Seq(Pval)] /\ Matches(v, D) /\ Valued(defs, v)
  BY <1>1 DEF Aligned, Sane, Forest, IsDefs
<1>3. Forest(par2)
  <2> SUFFICES ASSUME NEW T \in SUBSET Objs, T # {}  PROVE \E x \in T : par2[x] \notin T
    BY DEF Forest
  <2> DEFINE U == {x \in Objs : w[x] \in T}
  <2>1. U \in SUBSET Objs /\ U # {}
    <3>1. PICK x \in T : TRUE
      OBVIOUS
    <3>2. w[x] \in U
      BY <3>1
    <3> QED  BY <3>2
  <2>2. PICK y \in U : par[y] \notin U
    <3> HIDE DEF U
    <3> QED  BY <1>2, <2>1 DEF Forest
  <2>3. w[y] \in T /\ w[y] \in Objs /\ w[w[y]] = y
    BY <2>2
  <2>4. par2[w[y]] \notin T
    <3>1. CASE par[y] = NOTHING
      BY <2>3, <3>1, NothingAssumption
    <3>2. CASE par[y] # NOTHING
      <4>1. par[y] \in Objs /\ par2[w[y]] = w[par[y]]
        BY <1>2, <2>2, <2>3, <3>2 DEF Parents
      <4> QED  BY <2>2, <4>1
    <3> QED  BY <3>1, <3>2
  <2> QED  BY <2>3, <2>4
<1> DEFINE D2 == [x \in Objs |-> D[w[x]]]
<1>4. /\ defs2 \in [Objs -> Seq(Propdef)] /\ D2 \in [Objs -> Seq(Propdef)]
      /\ \A x \in Objs : defs2[x] = defs[w[x]] /\ D2[x] = D[w[x]] /\ w[x] \in Objs
  BY <1>2 DEF RenumberedDefs
<1> HIDE DEF D2, defs2
<1>5. IsDefs(D2, defs2, par2)
  <2>1. ASSUME NEW x \in Objs
        PROVE  D2[x] = IF par2[x] = NOTHING THEN defs2[x] ELSE defs2[x] \o D2[par2[x]]
    <3>1. D[w[x]] = IF par[w[x]] = NOTHING THEN defs[w[x]] ELSE defs[w[x]] \o D[par[w[x]]]
      BY <1>2, <1>4 DEF IsDefs
    <3>2. CASE par[w[x]] = NOTHING
      BY <1>4, <3>1, <3>2
    <3>3. CASE par[w[x]] # NOTHING
      <4>1. par[w[x]] \in Objs /\ par2[x] = w[par[w[x]]]
        BY <1>2, <1>4, <3>3 DEF Parents
      <4>2. par2[x] \in Objs /\ par2[x] # NOTHING /\ w[par2[x]] = par[w[x]]
        BY <1>4, <4>1, NothingAssumption
      <4>3. D2[par2[x]] = D[par[w[x]]]
        BY <1>4, <4>2
      <4> QED  BY <1>4, <3>1, <3>3, <4>2, <4>3
    <3> QED  BY <3>2, <3>3
  <2> QED  BY <1>4, <2>1 DEF IsDefs
<1>6. Matches(v2, D2)
  <2> SUFFICES ASSUME NEW x \in Objs
               PROVE  /\ Len(v2[x]) = Len(D2[x])
                      /\ \A i \in 1..Len(D2[x]) : v2[x][i].def = D2[x][i].def
    BY DEF Matches
  <2> DEFINE y == w[x]
  <2>1. y \in Objs /\ D2[x] = D[y]
    BY <1>4
  <2>2. Len(v[y]) = Len(D[y]) /\ \A i \in 1..Len(D[y]) : v[y][i].def = D[y][i].def
    BY <1>2, <2>1 DEF Matches
  <2>3. Len(v2[x]) = Len(v[y]) /\ \A i \in 1..Len(v[y]) : v2[x][i].def = v[y][i].def
    OBVIOUS
  <2> HIDE DEF y
  <2> QED  BY <2>1, <2>2, <2>3
<1>7. Unique(D2)
  BY <1>1, <1>4 DEF Unique
<1>8. Valued(defs2, v2)
  <2> SUFFICES ASSUME NEW x \in Objs, NEW i \in 1..Len(defs2[x])  PROVE v2[x][i].var # CLEAR
    BY DEF Valued
  <2> DEFINE y == w[x]
  <2>1. y \in Objs /\ defs2[x] = defs[y] /\ i \in 1..Len(defs[y])
    BY <1>4
  <2>2. v[y][i].var # CLEAR
    BY <1>2, <2>1 DEF Valued
  <2>3. \A j \in 1..Len(v[y]) : v2[x][j].var = v[y][j].var
    OBVIOUS
  <2> HIDE DEF y
  <2>4. i \in 1..Len(v[y])
    <3>1. D[y] = IF par[y] = NOTHING THEN defs[y] ELSE defs[y] \o D[par[y]]
      BY <1>2, <2>1 DEF IsDefs
    <3>2. defs[y] \in Seq(Propdef) /\ (par[y] # NOTHING => D[par[y]] \in Seq(Propdef))
      BY <1>2, <2>1 DEF Parents
    <3>3. \A a, b \in Nat : \A j \in 1..a : j \in 1..(a + b)
      OBVIOUS
    <3>4. i \in 1..Len(D[y])
      <4>1. CASE par[y] = NOTHING
        BY <2>1, <3>1, <4>1
      <4>2. CASE par[y] # NOTHING
        <5>1. /\ Len(D[y]) = Len(defs[y]) + Len(D[par[y]])
              /\ Len(defs[y]) \in Nat /\ Len(D[par[y]]) \in Nat
          BY <3>1, <3>2, <4>2, DefsConcat
        <5>2. i \in 1..(Len(defs[y]) + Len(D[par[y]]))
          BY ONLY <2>1, <3>3, <5>1
        <5> QED  BY <5>1, <5>2
      <4> QED  BY <4>1, <4>2
    <3>5. Len(v[y]) = Len(D[y])
      BY <1>2, <2>1 DEF Matches
    <3> QED  BY <3>4, <3>5
  <2> QED  BY <2>2, <2>3, <2>4
<1>9. Aligned(defs2, par2, own2, v2, D2)
  BY <1>3, <1>4, <1>5, <1>6 DEF Aligned
<1>10. Sane(defs2, par2, own2, v2)
  BY <1>7, <1>8, <1>9 DEF Sane
<1> QED  BY <1>10 DEF defs2

LEMMA RenumberIInv ==
  ASSUME IInv, Renumber  PROVE IInv'
<1>1. PICK old \in objs, new \in Objs \ objs :
        LET was(x)  == IF x = new THEN old ELSE IF x = old THEN new ELSE x
            ref(x)  == IF x = old THEN new ELSE x
            owns(x) == IF x = new THEN NOTHING ELSE ref(x)
        IN  /\ Change
            /\ objs' = (objs \ {old}) \cup {new}
            /\ parent' = [x \in Objs |-> ref(parent[was(x)])]
            /\ owner' = [x \in Objs |-> IF x = old THEN NOTHING ELSE owns(owner[was(x)])]
            /\ propdefs' = [x \in Objs |-> propdefs[was(x)]]
            /\ propval' = [x \in Objs |->
                 [i \in DOMAIN propval[was(x)] |->
                    [propval[was(x)][i] EXCEPT !.owner = owns(@)]]]
  BY ZenonT(60) DEF Renumber
<1> DEFINE was(x)  == IF x = new THEN old ELSE IF x = old THEN new ELSE x
           ref(x)  == IF x = old THEN new ELSE x
           owns(x) == IF x = new THEN NOTHING ELSE ref(x)
           w == [x \in Objs |-> was(x)]
<1>2. /\ Change
      /\ objs' = (objs \ {old}) \cup {new}
      /\ parent' = [x \in Objs |-> ref(parent[was(x)])]
      /\ owner' = [x \in Objs |-> IF x = old THEN NOTHING ELSE owns(owner[was(x)])]
      /\ propdefs' = [x \in Objs |-> propdefs[was(x)]]
      /\ propval' = [x \in Objs |-> [i \in DOMAIN propval[was(x)] |->
                                       [propval[was(x)][i] EXCEPT !.owner = owns(@)]]]
  BY <1>1, Zenon
<1>3. /\ old \in Objs /\ new \in Objs /\ old # new /\ old # NOTHING /\ new # NOTHING
      /\ objs \subseteq Objs /\ NOTHING \notin Objs
      /\ Sane(propdefs, parent, owner, propval)
      /\ propdefs \in [Objs -> Seq(Propdef)] /\ propval \in [Objs -> Seq(Pval)]
      /\ parent \in [Objs -> Objs \cup {NOTHING}] /\ owner \in [Objs -> Objs \cup {NOTHING}]
  BY NothingAssumption, Types DEF IInv, Parents
<1>4. \A x \in Objs : /\ parent[x] \in objs \cup {NOTHING}
                      /\ x \notin objs => parent[x] = NOTHING /\ owner[x] = NOTHING
                                          /\ propdefs[x] = <<>>
  BY DEF IInv
<1>5. /\ w \in [Objs -> Objs] /\ \A x \in Objs : w[w[x]] = x /\ w[x] = was(x)
  BY <1>3
<1>6. \A y \in objs \cup {NOTHING} :
        /\ ref(y) \in Objs \cup {NOTHING}
        /\ IF y = NOTHING THEN ref(y) = NOTHING ELSE y \in Objs /\ ref(y) = was(y)
  BY <1>3
<1>7. \A y \in Objs \cup {NOTHING} : owns(y) \in Objs \cup {NOTHING}
  BY <1>3
<1>8. \A x \in Objs : was(x) \in Objs
  BY <1>3
<1>9. \A x \in objs' : was(x) \in objs
  BY <1>2, <1>3
<1>10. \A x \in Objs : x \notin objs' => was(x) \notin objs
  BY <1>2, <1>3
<1>11. \A y \in objs \cup {NOTHING} : ref(y) \in objs' \cup {NOTHING}
  BY <1>2, <1>3
<1> HIDE DEF ref, owns
<1>12. /\ parent' \in Parents
       /\ \A x \in Objs : IF parent[w[x]] = NOTHING THEN parent'[x] = NOTHING
                          ELSE parent'[x] = w[parent[w[x]]]
  <2>1. \A x \in Objs : parent'[x] = ref(parent[was(x)]) /\ parent[was(x)] \in objs \cup {NOTHING}
    BY <1>2, <1>4, <1>8
  <2>2. \A x \in Objs : parent'[x] \in Objs \cup {NOTHING}
    BY <1>6, <2>1
  <2>3. parent' \in Parents
    <3>1. parent' = [x \in Objs |-> parent'[x]]
      BY <1>2
    <3> QED  BY <2>2, <3>1 DEF Parents
  <2> HIDE DEF was
  <2>4. \A x \in Objs : parent'[x] = ref(parent[w[x]]) /\ parent[w[x]] \in objs \cup {NOTHING}
    BY <1>5, <2>1
  <2> HIDE DEF w
  <2> QED  BY <1>5, <1>6, <2>3, <2>4
<1>13. owner' \in [Objs -> Objs \cup {NOTHING}]
  <2>1. \A x \in Objs : owns(owner[was(x)]) \in Objs \cup {NOTHING}
    BY <1>3, <1>7, <1>8
  <2> HIDE DEF was
  <2> QED  BY <1>2, <2>1
<1>14. propdefs' = [x \in Objs |-> propdefs[w[x]]]
  <2> HIDE DEF was
  <2> QED  BY <1>2, <1>5
<1>15. /\ propval' \in [Objs -> Seq(Pval)]
       /\ \A x \in Objs :
            /\ Len(propval'[x]) = Len(propval[w[x]])
            /\ \A i \in 1..Len(propval[w[x]]) :
                 /\ propval'[x][i].def = propval[w[x]][i].def
                 /\ propval'[x][i].var = propval[w[x]][i].var
  <2> DEFINE new_pv(p) == [p EXCEPT !.owner = owns(@)]
  <2>1. ASSUME NEW p \in Pval
        PROVE  new_pv(p) \in Pval /\ new_pv(p).def = p.def /\ new_pv(p).var = p.var
    <3>1. p.owner \in Objs \cup {NOTHING}
      BY DEF Pval
    <3>2. owns(p.owner) \in Objs \cup {NOTHING}
      BY <1>7, <3>1
    <3> QED  BY <3>2 DEF Pval
  <2>2. ASSUME NEW x \in Objs
        PROVE  /\ propval'[x] \in Seq(Pval)
               /\ Len(propval'[x]) = Len(propval[w[x]])
               /\ \A i \in 1..Len(propval[w[x]]) :
                    /\ propval'[x][i].def = propval[w[x]][i].def
                    /\ propval'[x][i].var = propval[w[x]][i].var
    <3> DEFINE s == propval[w[x]]
    <3>1. s \in Seq(Pval) /\ s = propval[was(x)]
      BY <1>3, <1>5, <1>8
    <3> HIDE DEF was, w, new_pv
    <3>2. propval'[x] = [i \in DOMAIN s |-> new_pv(s[i])]
      BY <1>2, <3>1 DEF new_pv
    <3>3. DOMAIN s = 1..Len(s) /\ Len(s) \in Nat /\ \A i \in 1..Len(s) : s[i] \in Pval
      BY <3>1
    <3> HIDE DEF s
    <3>4. propval'[x] = [i \in 1..Len(s) |-> new_pv(s[i])]
      BY <3>2, <3>3
    <3>5. \A i \in 1..Len(s) : new_pv(s[i]) \in Pval
      BY <2>1, <3>3
    <3>6. propval'[x] \in Seq(Pval) /\ Len(propval'[x]) = Len(s)
      BY <3>3, <3>4, <3>5
    <3>7. \A i \in 1..Len(s) : propval'[x][i] = new_pv(s[i])
      BY <3>4
    <3>8. \A i \in 1..Len(s) : propval'[x][i].def = s[i].def /\ propval'[x][i].var = s[i].var
      BY <2>1, <3>3, <3>7
    <3> QED  BY <3>6, <3>8 DEF s
  <2>3. propval' = [x \in Objs |-> propval'[x]]
    BY <1>2
  <2>4. propval' \in [Objs -> Seq(Pval)]
    BY <2>2, <2>3
  <2> QED  BY <2>2, <2>4
<1>16. Sane(propdefs', parent', owner', propval')
  <2> HIDE DEF w
  <2>1. Renumbers(w, parent, parent')
    BY ONLY <1>5, <1>12 DEF Renumbers
  <2>2. TakenOver(propval', propval, w)
    BY ONLY <1>15 DEF TakenOver
  <2>3. Sane(RenumberedDefs(propdefs, w), parent', owner', propval')
    BY ONLY <1>3, <1>13, <2>1, <2>2, Renumbered
  <2> QED  BY <1>14, <2>3 DEF RenumberedDefs
<1>17. objs' \subseteq Objs /\ changes' \in 0..MaxChanges
  BY <1>2, <1>3, BoundsAssumption DEF Change, IInv
<1>18. ASSUME NEW x \in Objs
       PROVE  /\ parent'[x] \in objs' \cup {NOTHING}
              /\ x \notin objs' => parent'[x] = NOTHING /\ owner'[x] = NOTHING /\ propdefs'[x] = <<>>
  <2>1. parent'[x] = ref(parent[was(x)]) /\ was(x) \in Objs
    BY <1>2, <1>8
  <2>2. parent'[x] \in objs' \cup {NOTHING}
    BY <1>4, <1>11, <2>1
  <2>3. ASSUME x \notin objs'  PROVE parent'[x] = NOTHING /\ owner'[x] = NOTHING /\ propdefs'[x] = <<>>
    <3>1. was(x) \notin objs
      BY <1>10, <2>3
    <3>2. parent[was(x)] = NOTHING /\ owner[was(x)] = NOTHING /\ propdefs[was(x)] = <<>>
      BY <1>4, <2>1, <3>1
    <3>3. ref(NOTHING) = NOTHING /\ owns(NOTHING) = NOTHING
      BY <1>3 DEF ref, owns
    <3> HIDE DEF was
    <3> QED  BY <1>2, <2>1, <3>2, <3>3
  <2> QED  BY <2>2, <2>3
<1> QED  BY <1>16, <1>17, <1>18 DEF IInv

-----------------------------------------------------------------------------
(* Other definitions on one object *)

\* M has of each object in A what is defined below o.
Around(M, A, o, defs, par, D) ==
  /\ M \in [A -> Seq(Propdef)] /\ M[o] = <<>>
  /\ \A d \in A \ {o} : M[d] = defs[d] \o M[par[d]]
  /\ \A d \in A : /\ D[d] = M[d] \o (defs[o] \o OfParent(D, par[o]))
                  /\ From(M[d], defs, A)

LEMMA AroundExists ==
  \A par, defs, D, o, A :
    /\ Forest(par) /\ defs \in [Objs -> Seq(Propdef)] /\ IsDefs(D, defs, par)
    /\ o \in Objs /\ IsBelow(A, par, o)
    => \E M : Around(M, A, o, defs, par, D)
<1> SUFFICES ASSUME NEW par, NEW defs, NEW D, NEW o, NEW A,
                    Forest(par), defs \in [Objs -> Seq(Propdef)], IsDefs(D, defs, par),
                    o \in Objs, IsBelow(A, par, o)
             PROVE  \E M : Around(M, A, o, defs, par, D)
  OBVIOUS
<1> DEFINE defs0 == [defs EXCEPT ![o] = <<>>]
           r == defs[o] \o OfParent(D, par[o])
<1>1. /\ defs0 \in [Objs -> Seq(Propdef)] /\ defs0[o] = <<>>
      /\ \A d \in Objs \ {o} : defs0[d] = defs[d]
  OBVIOUS
<1> HIDE DEF defs0
<1>2. PICK D0 : IsDefs(D0, defs0, par)
  BY <1>1, DefsExist
<1>3. PICK M : HasLocals(M, A, o, defs0, par, D0)
  BY <1>1, <1>2, Locals
<1>4. /\ M \in [A -> Seq(Propdef)] /\ M[o] = defs0[o]
      /\ \A d \in A \ {o} : M[d] = defs0[d] \o M[par[d]]
      /\ \A d \in A : From(M[d], defs0, A)
      /\ o \in A /\ A \subseteq Objs /\ \A d \in A \ {o} : par[d] \in A
  BY <1>3 DEF HasLocals, IsLocals, IsBelow
<1>5. M[o] = <<>> /\ \A d \in A \ {o} : M[d] = defs[d] \o M[par[d]]
  BY <1>1, <1>4
<1>6. \A d \in A : From(M[d], defs, A)
  <2> SUFFICES ASSUME NEW d \in A, NEW i \in 1..Len(M[d])
               PROVE  \E e \in A : \E k \in 1..Len(defs[e]) : M[d][i] = defs[e][k]
    BY DEF From
  <2>1. PICK e \in A : \E k \in 1..Len(defs0[e]) : M[d][i] = defs0[e][k]
    BY <1>4 DEF From
  <2>2. e # o
    BY <1>1, <2>1
  <2>3. defs0[e] = defs[e]
    BY <1>1, <1>4, <2>2
  <2> QED  BY <2>1, <2>3
<1>7. r \in Seq(Propdef)
  <2>1. defs[o] \in Seq(Propdef) /\ OfParent(D, par[o]) \in Seq(Propdef)
    BY DEF OfParent, IsDefs, Forest, Parents
  <2> QED  BY <2>1, DefsConcat
<1>8. D[o] = r
  <2>1. D[o] = IF par[o] = NOTHING THEN defs[o] ELSE defs[o] \o D[par[o]]
    BY DEF IsDefs
  <2>2. CASE par[o] = NOTHING
    <3>1. defs[o] \o <<>> = defs[o]
      BY ConcatEmptySeq
    <3> QED  BY <2>1, <2>2, <3>1 DEF OfParent
  <2>3. CASE par[o] # NOTHING
    BY <2>1, <2>3 DEF OfParent
  <2> QED  BY <2>2, <2>3
<1> HIDE DEF r
<1> DEFINE T == {d \in Objs : d \in A => D[d] = M[d] \o r}
<1>9. ASSUME NEW d \in Objs, par[d] # NOTHING => par[d] \in T  PROVE d \in T
  <2> SUFFICES ASSUME d \in A  PROVE D[d] = M[d] \o r
    OBVIOUS
  <2>1. CASE d = o
    <3>1. <<>> \o r = r
      BY <1>7, ConcatEmptySeq
    <3> QED  BY <1>5, <1>8, <2>1, <3>1
  <2>2. CASE d # o
    <3>1. par[d] \in A /\ par[d] \in Objs /\ par[d] # NOTHING
      BY <1>4, <2>2, NothingAssumption
    <3>2. D[par[d]] = M[par[d]] \o r
      BY <1>9, <3>1
    <3>3. D[d] = defs[d] \o D[par[d]] /\ M[d] = defs[d] \o M[par[d]]
      BY <1>5, <2>2, <3>1 DEF IsDefs
    <3>4. defs[d] \in Seq(Propdef) /\ M[par[d]] \in Seq(Propdef)
      BY <1>4, <3>1
    <3>5. (defs[d] \o M[par[d]]) \o r = defs[d] \o (M[par[d]] \o r)
      BY ONLY <1>7, <3>4, Assoc
    <3> QED  BY <3>2, <3>3, <3>5
  <2> QED  BY <2>1, <2>2
<1>10. T = Objs
  <2>1. T \in SUBSET Objs
    OBVIOUS
  <2> HIDE DEF T
  <2> QED  BY <1>9, <2>1, Downwards
<1>11. \A d \in A : D[d] = M[d] \o r
  BY <1>4, <1>10
<1>12. Around(M, A, o, defs, par, D)
  BY <1>4, <1>5, <1>6, <1>11 DEF Around, r
<1> QED  BY <1>12

WithDefs(defs, o, e) == [defs EXCEPT ![o] = e]

\* The definitions of all objects when o defines e.
WithOwn(D, M, A, e, r) == [x \in Objs |-> IF x \in A THEN M[x] \o (e \o r) ELSE D[x]]

LEMMA OtherDefs ==
  \A par, defs, D, o, A, M, e :
    /\ Forest(par) /\ defs \in [Objs -> Seq(Propdef)] /\ IsDefs(D, defs, par)
    /\ o \in Objs /\ IsBelow(A, par, o) /\ Around(M, A, o, defs, par, D)
    /\ e \in Seq(Propdef)
    => IsDefs(WithOwn(D, M, A, e, OfParent(D, par[o])), WithDefs(defs, o, e), par)
<1> SUFFICES ASSUME NEW par, NEW defs, NEW D, NEW o, NEW A, NEW M, NEW e,
                    Forest(par), defs \in [Objs -> Seq(Propdef)], IsDefs(D, defs, par),
                    o \in Objs, IsBelow(A, par, o), Around(M, A, o, defs, par, D),
                    e \in Seq(Propdef)
             PROVE  IsDefs(WithOwn(D, M, A, e, OfParent(D, par[o])),
                           WithDefs(defs, o, e), par)
  OBVIOUS
<1> DEFINE r == OfParent(D, par[o])
           D2 == WithOwn(D, M, A, e, r)
           defs2 == WithDefs(defs, o, e)
<1>1. /\ \A d \in A : D2[d] = M[d] \o (e \o r)
      /\ \A d \in Objs \ A : D2[d] = D[d]
      /\ o \in A /\ A \subseteq Objs /\ \A d \in A \ {o} : par[d] \in A
      /\ \A d \in Objs \ A : par[d] \notin A
      /\ defs2[o] = e /\ \A d \in Objs \ {o} : defs2[d] = defs[d]
  BY DEF WithOwn, WithDefs, IsBelow
<1>2. /\ M \in [A -> Seq(Propdef)] /\ M[o] = <<>>
      /\ \A d \in A \ {o} : M[d] = defs[d] \o M[par[d]]
      /\ \A d \in Objs : D[d] \in Seq(Propdef)
  BY DEF Around, IsDefs
<1>3. r \in Seq(Propdef) /\ e \o r \in Seq(Propdef) /\ par \in Parents
  <2>1. r \in Seq(Propdef) /\ par \in Parents
    BY DEF OfParent, IsDefs, Forest, Parents
  <2> QED  BY <2>1, DefsConcat
<1>4. D2 = [x \in Objs |-> D2[x]] /\ \A x \in Objs : D2[x] \in Seq(Propdef)
  <2>1. \A x \in A : D2[x] \in Seq(Propdef)
    <3> TAKE x \in A
    <3> HIDE DEF D2, r
    <3>1. M[x] \in Seq(Propdef) /\ D2[x] = M[x] \o (e \o r)
      BY <1>1, <1>2
    <3>2. M[x] \o (e \o r) \in Seq(Propdef)
      BY ONLY <1>3, <3>1, DefsConcat
    <3> QED  BY <3>1, <3>2
  <2>2. D2 = [x \in Objs |-> D2[x]]
    BY DEF WithOwn
  <2> QED  BY <1>1, <1>2, <2>1, <2>2
<1>5. par[o] \notin A
  BY ParentNotBelow
<1>6. ASSUME par[o] # NOTHING  PROVE r = D2[par[o]]
  <2>1. par[o] \in Objs
    BY <1>3, <1>6 DEF Parents
  <2> QED  BY <1>1, <1>5, <1>6, <2>1 DEF OfParent
<1>7. par[o] = NOTHING => r = <<>>
  BY DEF OfParent
<1> HIDE DEF D2, defs2, r
<1>8. ASSUME NEW x \in Objs
      PROVE  D2[x] = IF par[x] = NOTHING THEN defs2[x] ELSE defs2[x] \o D2[par[x]]
  <2>1. CASE x \notin A
    <3>1. x # o /\ par[x] \notin A /\ (par[x] # NOTHING => par[x] \in Objs)
      BY <1>1, <1>3, <2>1 DEF Parents
    <3>2. D[x] = IF par[x] = NOTHING THEN defs[x] ELSE defs[x] \o D[par[x]]
      BY DEF IsDefs
    <3> QED  BY <1>1, <2>1, <3>1, <3>2
  <2>2. CASE x = o
    <3>1. <<>> \o (e \o r) = e \o r /\ e \o <<>> = e
      BY <1>3, ConcatEmptySeq
    <3> QED  BY ZenonT(60), <1>1, <1>2, <1>6, <1>7, <2>2, <3>1
  <2>3. CASE x \in A /\ x # o
    <3>1. par[x] \in A /\ par[x] # NOTHING
      BY <1>1, <2>3, NothingAssumption
    <3>2. D2[x] = (defs[x] \o M[par[x]]) \o (e \o r)
      BY ZenonT(60), <1>1, <1>2, <2>3
    <3>3. defs[x] \in Seq(Propdef) /\ M[par[x]] \in Seq(Propdef)
      BY <1>2, <3>1
    <3>4. (defs[x] \o M[par[x]]) \o (e \o r) = defs[x] \o (M[par[x]] \o (e \o r))
      BY ONLY <1>3, <3>3, Assoc
    <3> QED  BY <1>1, <2>3, <3>1, <3>2, <3>4
  <2> QED  BY <2>1, <2>2, <2>3
<1>9. IsDefs(D2, defs2, par)
  BY <1>4, <1>8 DEF IsDefs
<1> QED  BY <1>9 DEF D2, defs2, r

-----------------------------------------------------------------------------
(* One more definition and one more value *)

\* t is s with e inserted at p.
IsInsert(t, s, p, e) ==
  /\ Len(s) \in Nat /\ Len(t) = Len(s) + 1 /\ p \in 1..Len(t) /\ t[p] = e
  /\ \A i \in 1..(p - 1) : t[i] = s[i]
  /\ \A i \in p..Len(s) : t[i + 1] = s[i]

\* Values stay in step with definitions when both get one more at the same place.
LEMMA InsertMatches ==
  \A s, t, a, b, p, e, w :
    /\ IsInsert(t, s, p, e) /\ IsInsert(b, a, p, w) /\ w.def = e.def
    /\ Len(a) = Len(s) /\ SameDefs(a, s)
    => Len(b) = Len(t) /\ SameDefs(b, t)
<1> SUFFICES ASSUME NEW s, NEW t, NEW a, NEW b, NEW p, NEW e, NEW w,
                    IsInsert(t, s, p, e), IsInsert(b, a, p, w), w.def = e.def,
                    Len(a) = Len(s), SameDefs(a, s)
             PROVE  Len(b) = Len(t) /\ SameDefs(b, t)
  OBVIOUS
<1>1. Len(b) = Len(t) /\ Len(s) \in Nat /\ Len(t) = Len(s) + 1 /\ p \in 1..Len(t)
  BY DEF IsInsert
<1>2. ASSUME NEW i \in 1..Len(t)  PROVE b[i].def = t[i].def
  <2>1. CASE i = p
    BY <2>1 DEF IsInsert
  <2>2. CASE i < p
    <3>1. i \in 1..(p - 1) /\ i \in 1..Len(s)
      BY <1>1, <2>2
    <3>2. b[i] = a[i] /\ t[i] = s[i] /\ a[i].def = s[i].def
      BY <3>1 DEF IsInsert, SameDefs
    <3> QED  BY ONLY <3>2
  <2>3. CASE i > p
    <3> DEFINE j == i - 1
    <3>1. j \in p..Len(s) /\ j \in 1..Len(s) /\ j \in p..Len(a) /\ i = j + 1
      BY <1>1, <2>3
    <3> HIDE DEF j
    <3>2. b[j + 1] = a[j] /\ t[j + 1] = s[j] /\ a[j].def = s[j].def
      BY <3>1 DEF IsInsert, SameDefs
    <3> QED  BY ONLY <3>1, <3>2
  <2>4. i = p \/ i < p \/ i > p
    BY <1>1
  <2> QED  BY <2>1, <2>2, <2>3, <2>4
<1> QED  BY <1>1, <1>2 DEF SameDefs

\* And when both lose one.
LEMMA RemoveMatches ==
  \A s, t, a, b, p, e, w :
    /\ IsInsert(s, t, p, e) /\ IsInsert(a, b, p, w) /\ Len(a) = Len(s) /\ SameDefs(a, s)
    => Len(b) = Len(t) /\ SameDefs(b, t)
<1> SUFFICES ASSUME NEW s, NEW t, NEW a, NEW b, NEW p, NEW e, NEW w,
                    IsInsert(s, t, p, e), IsInsert(a, b, p, w),
                    Len(a) = Len(s), SameDefs(a, s)
             PROVE  Len(b) = Len(t) /\ SameDefs(b, t)
  OBVIOUS
<1>1. /\ Len(b) \in Nat /\ Len(t) \in Nat /\ Len(a) = Len(b) + 1 /\ Len(s) = Len(t) + 1
      /\ p \in 1..Len(s)
  BY DEF IsInsert
<1>2. Len(b) = Len(t)
  <2>1. \A k, l \in Nat : k + 1 = l + 1 => k = l
    OBVIOUS
  <2>2. Len(b) + 1 = Len(t) + 1
    BY <1>1
  <2> QED  BY ONLY <1>1, <2>1, <2>2
<1>3. ASSUME NEW i \in 1..Len(t)  PROVE b[i].def = t[i].def
  <2>1. CASE i < p
    <3>1. i \in 1..(p - 1) /\ i \in 1..Len(s)
      BY <1>1, <2>1
    <3>2. a[i] = b[i] /\ s[i] = t[i] /\ a[i].def = s[i].def
      BY <3>1 DEF IsInsert, SameDefs
    <3> QED  BY ONLY <3>2
  <2>2. CASE i >= p
    <3>1. i \in p..Len(t) /\ i \in p..Len(b) /\ i + 1 \in 1..Len(s)
      BY <1>1, <1>2, <2>2
    <3>2. a[i + 1] = b[i] /\ s[i + 1] = t[i]
      BY <3>1 DEF IsInsert
    <3>3. a[i + 1].def = s[i + 1].def
      BY <3>1 DEF SameDefs
    <3> QED  BY ONLY <3>2, <3>3
  <2>3. i < p \/ i >= p
    BY <1>1
  <2> QED  BY <2>1, <2>2, <2>3
<1> QED  BY <1>2, <1>3 DEF SameDefs

\* The same insertion in the middle of more definitions.
LEMMA InsertInside ==
  \A m, s, t, r \in Seq(Propdef) : \A p, e :
    IsInsert(t, s, p, e) => IsInsert(m \o (t \o r), m \o (s \o r), Len(m) + p, e)
<1> SUFFICES ASSUME NEW m \in Seq(Propdef), NEW s \in Seq(Propdef), NEW t \in Seq(Propdef),
                    NEW r \in Seq(Propdef), NEW p, NEW e, IsInsert(t, s, p, e)
             PROVE  IsInsert(m \o (t \o r), m \o (s \o r), Len(m) + p, e)
  OBVIOUS
<1> DEFINE x == m \o (s \o r)
           y == m \o (t \o r)
           k == Len(m)
           l == Len(s)
           n == Len(r)
<1>1. k \in Nat /\ l \in Nat /\ n \in Nat /\ Len(t) = l + 1 /\ p \in 1..(l + 1) /\ t[p] = e
  BY LenProperties DEF IsInsert
<1>2. /\ Len(x) = k + l + n
      /\ \A i \in 1..k : x[i] = m[i]
      /\ \A i \in 1..l : x[k + i] = s[i]
      /\ \A i \in 1..n : x[k + l + i] = r[i]
  <2>1. Joined(x, m, s, r)
    BY ONLY m \in Seq(Propdef), s \in Seq(Propdef), r \in Seq(Propdef), JoinedIs
  <2> HIDE DEF x
  <2> QED  BY ONLY <2>1 DEF Joined
<1>3. /\ Len(y) = k + (l + 1) + n
      /\ \A i \in 1..k : y[i] = m[i]
      /\ \A i \in 1..(l + 1) : y[k + i] = t[i]
      /\ \A i \in 1..n : y[k + (l + 1) + i] = r[i]
  <2>1. /\ Len(y) = k + Len(t) + n
        /\ \A i \in 1..k : y[i] = m[i]
        /\ \A i \in 1..Len(t) : y[k + i] = t[i]
        /\ \A i \in 1..n : y[k + Len(t) + i] = r[i]
    <3>1. Joined(y, m, t, r)
      BY ONLY m \in Seq(Propdef), t \in Seq(Propdef), r \in Seq(Propdef), JoinedIs
    <3> HIDE DEF y
    <3> QED  BY ONLY <3>1 DEF Joined
  <2> HIDE DEF y
  <2> QED  BY ONLY <1>1, <2>1
<1>4. /\ \A i \in 1..(p - 1) : t[i] = s[i]
      /\ \A i \in p..l : t[i + 1] = s[i]
  BY DEF IsInsert
<1> HIDE DEF x, y, k, l, n
<1>5. Len(x) \in Nat /\ Len(y) = Len(x) + 1 /\ k + p \in 1..Len(y) /\ y[k + p] = e
  BY <1>1, <1>2, <1>3
<1>6. ASSUME NEW i \in 1..((k + p) - 1)  PROVE y[i] = x[i]
  <2>1. CASE i <= k
    BY <1>1, <1>2, <1>3, <2>1
  <2>2. CASE i > k
    <3> DEFINE j == i - k
    <3>1. j \in 1..(p - 1) /\ j \in 1..l /\ j \in 1..(l + 1) /\ i = k + j
      BY <1>1, <2>2
    <3> HIDE DEF j
    <3> QED  BY <1>2, <1>3, <1>4, <3>1
  <2> QED  BY <1>1, <2>1, <2>2
<1>7. ASSUME NEW i \in (k + p)..Len(x)  PROVE y[i + 1] = x[i]
  <2>1. CASE i <= k + l
    <3> DEFINE j == i - k
    <3>1. j \in p..l /\ j \in 1..l /\ j + 1 \in 1..(l + 1) /\ i = k + j /\ i + 1 = k + (j + 1)
      BY <1>1, <2>1
    <3> HIDE DEF j
    <3>2. x[k + j] = s[j] /\ y[k + (j + 1)] = t[j + 1] /\ t[j + 1] = s[j]
      BY <1>2, <1>3, <1>4, <3>1
    <3> QED  BY <3>1, <3>2
  <2>2. CASE i > k + l
    <3> DEFINE j == i - (k + l)
    <3>1. j \in 1..n /\ i = k + l + j /\ i + 1 = k + (l + 1) + j
      BY <1>1, <1>2, <2>2
    <3> HIDE DEF j
    <3>2. x[k + l + j] = r[j] /\ y[k + (l + 1) + j] = r[j]
      BY <1>2, <1>3, <3>1
    <3> QED  BY <3>1, <3>2
  <2> QED  BY <1>1, <1>2, <2>1, <2>2
<1>8. IsInsert(y, x, k + p, e)
  BY <1>5, <1>6, <1>7 DEF IsInsert
<1> QED  BY <1>8 DEF x, y, k

\* What InsertAt() and RemoveAt() do.
LEMMA InsertAtIs ==
  \A X : \A s \in Seq(X), e \in X : \A p \in 1..(Len(s) + 1) :
    InsertAt(s, p, e) \in Seq(X) /\ IsInsert(InsertAt(s, p, e), s, p, e)
<1> SUFFICES ASSUME NEW X, NEW s \in Seq(X), NEW e \in X, NEW p \in 1..(Len(s) + 1)
             PROVE  InsertAt(s, p, e) \in Seq(X) /\ IsInsert(InsertAt(s, p, e), s, p, e)
  OBVIOUS
<1> DEFINE a == SubSeq(s, 1, p - 1)
           b == SubSeq(s, p, Len(s))
           c == a \o <<e>>
           t == c \o b
           n == Len(s)
<1>1. n \in Nat /\ p \in 1..(n + 1)
  BY LenProperties
<1>2. /\ a \in Seq(X) /\ Len(a) = p - 1 /\ \A i \in 1..(p - 1) : a[i] = s[i]
      /\ b \in Seq(X) /\ Len(b) = (n + 1) - p /\ \A i \in 1..((n + 1) - p) : b[i] = s[(p - 1) + i]
  <2>1. a \in Seq(X) /\ b \in Seq(X)
    <3>1. \A i \in 1..(p - 1) : i \in 1..n
      BY <1>1
    <3>2. \A i \in p..n : i \in 1..n
      BY <1>1
    <3> QED  BY <1>1, <3>1, <3>2
  <2>2. Len(a) = p - 1 /\ \A i \in 1..(p - 1) : a[i] = s[i]
    BY <1>1
  <2>3. Len(b) = (n + 1) - p /\ \A i \in 1..((n + 1) - p) : b[i] = s[(p - 1) + i]
    BY <1>1
  <2> QED  BY <2>1, <2>2, <2>3
<1> HIDE DEF a, b
<1>3. /\ c \in Seq(X) /\ Len(c) = p /\ \A i \in 1..(p - 1) : c[i] = a[i]
      /\ c[p] = e
  BY <1>1, <1>2
<1> HIDE DEF c
<1>4. /\ t \in Seq(X) /\ Len(t) = p + ((n + 1) - p)
      /\ \A i \in 1..(p + ((n + 1) - p)) : t[i] = IF i <= p THEN c[i] ELSE b[i - p]
  <2>1. /\ t \in Seq(X) /\ Len(t) = Len(c) + Len(b)
        /\ \A i \in 1..(Len(c) + Len(b)) : t[i] = IF i <= Len(c) THEN c[i] ELSE b[i - Len(c)]
    BY ZenonT(60), <1>2, <1>3, ConcatProperties
  <2> HIDE DEF t
  <2> QED  BY ONLY <1>2, <1>3, <2>1
<1>5. InsertAt(s, p, e) = t
  BY DEF InsertAt, a, b, c
<1> HIDE DEF t, n
<1>6. Len(t) = n + 1 /\ p \in 1..Len(t) /\ t[p] = e
  BY <1>1, <1>3, <1>4
<1>7. ASSUME NEW i \in 1..(p - 1)  PROVE t[i] = s[i]
  BY <1>1, <1>2, <1>3, <1>4
<1>8. ASSUME NEW i \in p..n  PROVE t[i + 1] = s[i]
  <2> DEFINE j == i + 1
             k == j - p
  <2>1. j \in 1..(p + ((n + 1) - p)) /\ ~ j <= p /\ k \in 1..((n + 1) - p) /\ (p - 1) + k = i
    BY <1>1
  <2>2. t[j] = b[k] /\ b[k] = s[(p - 1) + k]
    BY <1>2, <1>4, <2>1
  <2> QED  BY <2>1, <2>2
<1> QED  BY <1>1, <1>4, <1>5, <1>6, <1>7, <1>8 DEF IsInsert, n

LEMMA RemoveAtIs ==
  \A X : \A s \in Seq(X) : \A p \in 1..Len(s) :
    RemoveAt(s, p) \in Seq(X) /\ IsInsert(s, RemoveAt(s, p), p, s[p])
<1> SUFFICES ASSUME NEW X, NEW s \in Seq(X), NEW p \in 1..Len(s)
             PROVE  RemoveAt(s, p) \in Seq(X) /\ IsInsert(s, RemoveAt(s, p), p, s[p])
  OBVIOUS
<1> DEFINE a == SubSeq(s, 1, p - 1)
           b == SubSeq(s, p + 1, Len(s))
           t == a \o b
           n == Len(s)
<1>1. n \in Nat /\ p \in 1..n
  BY LenProperties
<1>2. /\ a \in Seq(X) /\ Len(a) = p - 1 /\ \A i \in 1..(p - 1) : a[i] = s[i]
      /\ b \in Seq(X) /\ Len(b) = n - p /\ \A i \in 1..(n - p) : b[i] = s[p + i]
  <2>1. a \in Seq(X) /\ b \in Seq(X)
    <3>1. \A i \in 1..(p - 1) : i \in 1..n
      BY <1>1
    <3>2. \A i \in (p + 1)..n : i \in 1..n
      BY <1>1
    <3> QED  BY <1>1, <3>1, <3>2
  <2>2. Len(a) = p - 1 /\ \A i \in 1..(p - 1) : a[i] = s[i]
    BY <1>1
  <2>3. Len(b) = n - p /\ \A i \in 1..(n - p) : b[i] = s[p + i]
    BY <1>1
  <2> QED  BY <2>1, <2>2, <2>3
<1> HIDE DEF a, b
<1>3. /\ t \in Seq(X) /\ Len(t) = (p - 1) + (n - p)
      /\ \A i \in 1..((p - 1) + (n - p)) :
           t[i] = IF i <= p - 1 THEN a[i] ELSE b[i - (p - 1)]
  <2>1. /\ t \in Seq(X) /\ Len(t) = Len(a) + Len(b)
        /\ \A i \in 1..(Len(a) + Len(b)) : t[i] = IF i <= Len(a) THEN a[i] ELSE b[i - Len(a)]
    BY <1>2, ConcatProperties
  <2> HIDE DEF t
  <2> QED  BY ONLY <1>2, <2>1
<1>4. RemoveAt(s, p) = t
  BY DEF RemoveAt, a, b
<1> HIDE DEF t, n
<1>5. Len(t) \in Nat /\ n = Len(t) + 1
  BY <1>1, <1>3
<1>6. ASSUME NEW i \in 1..(p - 1)  PROVE s[i] = t[i]
  BY <1>1, <1>2, <1>3
<1>7. ASSUME NEW i \in p..Len(t)  PROVE s[i + 1] = t[i]
  <2> DEFINE k == i - (p - 1)
  <2>1. /\ i \in 1..((p - 1) + (n - p)) /\ ~ i <= p - 1 /\ k \in 1..(n - p) /\ p + k = i + 1
    BY <1>1, <1>3
  <2>2. t[i] = b[k] /\ b[k] = s[p + k]
    BY <1>2, <1>3, <2>1
  <2> QED  BY <2>1, <2>2
<1> QED  BY <1>1, <1>3, <1>4, <1>5, <1>6, <1>7 DEF IsInsert, n

\* A definition with a new name keeps the names apart, and so does one less.
LEMMA UniqueInsert ==
  \A s, t, p, e :
    /\ IsInsert(t, s, p, e) /\ UniqueNames(s) /\ \A i \in 1..Len(s) : s[i].name # e.name
    => UniqueNames(t)
<1> SUFFICES ASSUME NEW s, NEW t, NEW p, NEW e, IsInsert(t, s, p, e), UniqueNames(s),
                    \A i \in 1..Len(s) : s[i].name # e.name
             PROVE  UniqueNames(t)
  OBVIOUS
<1> DEFINE was(i) == IF i < p THEN i ELSE i - 1
<1>1. Len(s) \in Nat /\ Len(t) = Len(s) + 1 /\ p \in 1..Len(t) /\ t[p] = e
  BY DEF IsInsert
<1>2. \A i \in 1..Len(t) : i # p => was(i) \in 1..Len(s) /\ t[i] = s[was(i)]
  <2> SUFFICES ASSUME NEW i \in 1..Len(t), i # p
               PROVE  was(i) \in 1..Len(s) /\ t[i] = s[was(i)]
    OBVIOUS
  <2>1. CASE i < p
    <3>1. i \in 1..(p - 1) /\ was(i) = i /\ i \in 1..Len(s)
      BY <1>1, <2>1
    <3> HIDE DEF was
    <3> QED  BY <3>1 DEF IsInsert
  <2>2. CASE ~ i < p
    <3>1. /\ was(i) \in p..Len(s) /\ was(i) \in 1..Len(s) /\ i = was(i) + 1
      BY <1>1, <2>2
    <3> HIDE DEF was
    <3>2. t[was(i) + 1] = s[was(i)]
      BY <3>1 DEF IsInsert
    <3> QED  BY <3>1, <3>2
  <2> QED  BY <2>1, <2>2
<1>3. \A i, j \in 1..Len(t) : i # p /\ j # p /\ was(i) = was(j) => i = j
  BY <1>1
<1> HIDE DEF was
<1>4. SUFFICES ASSUME NEW i \in 1..Len(t), NEW j \in 1..Len(t), t[i].name = t[j].name
               PROVE  i = j
  BY DEF UniqueNames
<1>5. CASE i = p \/ j = p
  <2>1. i # p => t[i].name # e.name
    BY <1>2
  <2>2. j # p => t[j].name # e.name
    BY <1>2
  <2> QED  BY <1>1, <1>4, <1>5, <2>1, <2>2
<1>6. CASE i # p /\ j # p
  <2>1. s[was(i)].name = s[was(j)].name
    BY <1>2, <1>4, <1>6
  <2>2. was(i) = was(j)
    BY <1>2, <1>6, <2>1 DEF UniqueNames
  <2> QED  BY <1>3, <1>6, <2>2
<1> QED  BY <1>5, <1>6

LEMMA UniqueRemove ==
  \A s, t, p, e : IsInsert(t, s, p, e) /\ UniqueNames(t) => UniqueNames(s)
<1> SUFFICES ASSUME NEW s, NEW t, NEW p, NEW e, IsInsert(t, s, p, e), UniqueNames(t),
                    NEW i \in 1..Len(s), NEW j \in 1..Len(s), s[i].name = s[j].name
             PROVE  i = j
  BY DEF UniqueNames
<1> DEFINE now(k) == IF k < p THEN k ELSE k + 1
<1>1. Len(s) \in Nat /\ Len(t) = Len(s) + 1 /\ p \in 1..Len(t)
  BY DEF IsInsert
<1>2. \A k \in 1..Len(s) : now(k) \in 1..Len(t) /\ t[now(k)] = s[k]
  <2> SUFFICES ASSUME NEW k \in 1..Len(s)  PROVE now(k) \in 1..Len(t) /\ t[now(k)] = s[k]
    OBVIOUS
  <2>1. now(k) \in 1..Len(t)
    BY <1>1
  <2>2. CASE k < p
    <3>1. k \in 1..(p - 1)
      BY <1>1, <2>2
    <3> QED  BY <2>1, <2>2, <3>1 DEF IsInsert
  <2>3. CASE ~ k < p
    <3>1. k \in p..Len(s)
      BY <1>1, <2>3
    <3> QED  BY <2>1, <2>3, <3>1 DEF IsInsert
  <2> QED  BY <2>2, <2>3
<1>3. \A k, l \in 1..Len(s) : now(k) = now(l) => k = l
  BY <1>1
<1> HIDE DEF now
<1>4. t[now(i)].name = t[now(j)].name
  BY <1>2
<1>5. now(i) = now(j)
  BY <1>2, <1>4 DEF UniqueNames
<1> QED  BY <1>3, <1>5

-----------------------------------------------------------------------------
(* What is defined on one object changes *)

Lacks(s, name) == \A i \in 1..Len(s) : s[i].name # name

LEMMA LacksConcat ==
  \A s, t \in Seq(Propdef) : \A name :
    Lacks(s \o t, name) <=> Lacks(s, name) /\ Lacks(t, name)
<1> SUFFICES ASSUME NEW s \in Seq(Propdef), NEW t \in Seq(Propdef), NEW name
             PROVE  Lacks(s \o t, name) <=> Lacks(s, name) /\ Lacks(t, name)
  OBVIOUS
<1>1. /\ Len(s \o t) = Len(s) + Len(t) /\ Len(s) \in Nat /\ Len(t) \in Nat
      /\ \A i \in 1..Len(s) : (s \o t)[i] = s[i]
      /\ \A i \in 1..Len(t) : (s \o t)[Len(s) + i] = t[i]
  BY DefsConcat
<1> DEFINE r == s \o t
<1> HIDE DEF r
<1>2. /\ Len(r) = Len(s) + Len(t)
      /\ \A i \in 1..Len(s) : r[i] = s[i]
      /\ \A i \in 1..Len(t) : r[Len(s) + i] = t[i]
  BY <1>1 DEF r
<1>3. ASSUME Lacks(r, name)  PROVE Lacks(s, name) /\ Lacks(t, name)
  <2>1. ASSUME NEW i \in 1..Len(s)  PROVE s[i].name # name
    <3>1. i \in 1..Len(r)
      BY <1>1, <1>2
    <3> QED  BY <1>2, <1>3, <3>1 DEF Lacks
  <2>2. ASSUME NEW i \in 1..Len(t)  PROVE t[i].name # name
    <3>1. Len(s) + i \in 1..Len(r)
      BY <1>1, <1>2
    <3> QED  BY <1>2, <1>3, <3>1 DEF Lacks
  <2> QED  BY <2>1, <2>2 DEF Lacks
<1>4. ASSUME Lacks(s, name), Lacks(t, name), NEW i \in 1..Len(r)  PROVE r[i].name # name
  <2>1. CASE i \in 1..Len(s)
    BY <1>2, <1>4, <2>1 DEF Lacks
  <2>2. CASE i \notin 1..Len(s)
    <3> DEFINE j == i - Len(s)
    <3>1. j \in 1..Len(t) /\ i = Len(s) + j
      BY <1>1, <1>2, <2>2
    <3> HIDE DEF j
    <3> QED  BY <1>2, <1>4, <3>1 DEF Lacks
  <2> QED  BY <2>1, <2>2
<1> QED  BY <1>3, <1>4 DEF Lacks, r

LEMMA LacksRemoved ==
  \A s, t, p, e, name : IsInsert(t, s, p, e) /\ Lacks(t, name) => Lacks(s, name)
<1> SUFFICES ASSUME NEW s, NEW t, NEW p, NEW e, NEW name, IsInsert(t, s, p, e),
                    Lacks(t, name), NEW k \in 1..Len(s)
             PROVE  s[k].name # name
  BY DEF Lacks
<1>1. Len(s) \in Nat /\ Len(t) = Len(s) + 1 /\ p \in 1..Len(t)
  BY DEF IsInsert
<1>2. CASE k < p
  <2>1. k \in 1..(p - 1) /\ k \in 1..Len(t)
    BY <1>1, <1>2
  <2> QED  BY <2>1 DEF IsInsert, Lacks
<1>3. CASE ~ k < p
  <2>1. k \in p..Len(s) /\ k + 1 \in 1..Len(t)
    BY <1>1, <1>3
  <2>2. t[k + 1] = s[k]
    BY <2>1 DEF IsInsert
  <2>3. t[k + 1].name # name
    BY <2>1 DEF Lacks
  <2> QED  BY <2>2, <2>3
<1> QED  BY <1>2, <1>3

\* The objects at or below o, and what is defined below it.
Editing(par, own, v, D, o, A, M) ==
  /\ Aligned(propdefs, par, own, v, D)
  /\ o \in Objs /\ IsBelow(A, par, o) /\ Around(M, A, o, propdefs, par, D)

\* v2 is v with a value of the definition x at the place q of o, in all of A.
Grows(v2, v, M, A, q, x) ==
  /\ v2 \in [Objs -> Seq(Pval)]
  /\ \A d \in Objs \ A : v2[d] = v[d]
  /\ \A d \in A : /\ IsInsert(v2[d], v[d], Len(M[d]) + q, v2[d][Len(M[d]) + q])
                  /\ v2[d][Len(M[d]) + q].def = x.def

\* v2 is v without the values at the place q of o.
Shrinks(v2, v, M, A, q) ==
  /\ v2 \in [Objs -> Seq(Pval)]
  /\ \A d \in Objs \ A : v2[d] = v[d]
  /\ \A d \in A : IsInsert(v[d], v2[d], Len(M[d]) + q, v[d][Len(M[d]) + q])

\* The definitions with e instead of what o defines.
WithOther(par, D, o, A, M, e) ==
  /\ o \in A /\ A \subseteq Objs /\ M[o] = <<>> /\ propdefs[o] \in Seq(Propdef)
  /\ OfParent(D, par[o]) \in Seq(Propdef)
  /\ \A d \in A : /\ M[d] \in Seq(Propdef) /\ Len(M[d]) \in Nat
                  /\ D[d] = M[d] \o (propdefs[o] \o OfParent(D, par[o]))
                  /\ WithOwn(D, M, A, e, OfParent(D, par[o]))[d]
                       = M[d] \o (e \o OfParent(D, par[o]))
                  /\ d # o => Len(propdefs[d]) \in Nat /\ Len(propdefs[d]) <= Len(M[d])
  /\ \A d \in Objs \ A : WithOwn(D, M, A, e, OfParent(D, par[o]))[d] = D[d]

LEMMA EditingFacts ==
  \A par, own, v, D, o, A, M : \A e \in Seq(Propdef) :
    Editing(par, own, v, D, o, A, M) => WithOther(par, D, o, A, M, e)
<1> SUFFICES ASSUME NEW par, NEW own, NEW v, NEW D, NEW o, NEW A, NEW M,
                    NEW e \in Seq(Propdef), Editing(par, own, v, D, o, A, M)
             PROVE  WithOther(par, D, o, A, M, e)
  OBVIOUS
<1>1. /\ Forest(par) /\ propdefs \in [Objs -> Seq(Propdef)] /\ IsDefs(D, propdefs, par)
      /\ o \in Objs /\ IsBelow(A, par, o) /\ Around(M, A, o, propdefs, par, D)
  BY DEF Editing, Aligned
<1>2. o \in A /\ A \subseteq Objs /\ \A d \in A \ {o} : par[d] \in A
  BY <1>1 DEF IsBelow
<1>3. /\ M \in [A -> Seq(Propdef)] /\ M[o] = <<>>
      /\ \A d \in A \ {o} : M[d] = propdefs[d] \o M[par[d]]
      /\ \A d \in A : D[d] = M[d] \o (propdefs[o] \o OfParent(D, par[o]))
  BY <1>1 DEF Around
<1>4. OfParent(D, par[o]) \in Seq(Propdef)
  BY <1>1 DEF OfParent, IsDefs, Forest, Parents
<1>5. ASSUME NEW d \in A, d # o
      PROVE  Len(propdefs[d]) \in Nat /\ Len(propdefs[d]) <= Len(M[d])
  <2>1. propdefs[d] \in Seq(Propdef) /\ M[par[d]] \in Seq(Propdef)
    BY <1>1, <1>2, <1>3, <1>5
  <2>2. M[d] = propdefs[d] \o M[par[d]]
    BY <1>3, <1>5
  <2>3. /\ Len(propdefs[d]) \in Nat /\ Len(M[par[d]]) \in Nat
        /\ Len(propdefs[d] \o M[par[d]]) = Len(propdefs[d]) + Len(M[par[d]])
    BY ONLY <2>1, DefsConcat
  <2>4. \A a, b \in Nat : a <= a + b
    OBVIOUS
  <2>5. Len(M[d]) = Len(propdefs[d]) + Len(M[par[d]])
    BY ONLY <2>2, <2>3
  <2> QED  BY ONLY <2>3, <2>4, <2>5
<1>6. \A d \in A : M[d] \in Seq(Propdef) /\ Len(M[d]) \in Nat
  BY <1>3
<1>7. /\ \A d \in A : WithOwn(D, M, A, e, OfParent(D, par[o]))[d]
                        = M[d] \o (e \o OfParent(D, par[o]))
      /\ \A d \in Objs \ A : WithOwn(D, M, A, e, OfParent(D, par[o]))[d] = D[d]
  BY <1>2 DEF WithOwn
<1> QED  BY <1>1, <1>2, <1>3, <1>4, <1>5, <1>6, <1>7 DEF WithOther

\* The changed definitions and values are as they should be if they match.
LEMMA OwnSane ==
  \A par, own, v, D, o, A, M, v2 : \A e \in Seq(Propdef) :
    /\ Editing(par, own, v, D, o, A, M) /\ v2 \in [Objs -> Seq(Pval)]
    /\ Matches(v2, WithOwn(D, M, A, e, OfParent(D, par[o])))
    /\ Unique(WithOwn(D, M, A, e, OfParent(D, par[o])))
    /\ Valued(WithDefs(propdefs, o, e), v2)
    => Sane(WithDefs(propdefs, o, e), par, own, v2)
<1> SUFFICES ASSUME NEW par, NEW own, NEW v, NEW D, NEW o, NEW A, NEW M, NEW v2,
                    NEW e \in Seq(Propdef),
                    Editing(par, own, v, D, o, A, M), v2 \in [Objs -> Seq(Pval)],
                    Matches(v2, WithOwn(D, M, A, e, OfParent(D, par[o]))),
                    Unique(WithOwn(D, M, A, e, OfParent(D, par[o]))),
                    Valued(WithDefs(propdefs, o, e), v2)
             PROVE  Sane(WithDefs(propdefs, o, e), par, own, v2)
  OBVIOUS
<1> DEFINE D2 == WithOwn(D, M, A, e, OfParent(D, par[o]))
           defs2 == WithDefs(propdefs, o, e)
<1>1. /\ Forest(par) /\ propdefs \in [Objs -> Seq(Propdef)] /\ IsDefs(D, propdefs, par)
      /\ own \in [Objs -> Objs \cup {NOTHING}]
      /\ o \in Objs /\ IsBelow(A, par, o) /\ Around(M, A, o, propdefs, par, D)
  BY DEF Editing, Aligned
<1>2. IsDefs(D2, defs2, par)
  BY ONLY <1>1, e \in Seq(Propdef), OtherDefs
<1>3. defs2 \in [Objs -> Seq(Propdef)]
  BY <1>1 DEF WithDefs
<1>4. Matches(v2, D2) /\ Unique(D2) /\ Valued(defs2, v2)
  OBVIOUS
<1> HIDE DEF D2, defs2
<1>5. Aligned(defs2, par, own, v2, D2)
  BY <1>1, <1>2, <1>3, <1>4 DEF Aligned
<1>6. Sane(defs2, par, own, v2)
  BY <1>4, <1>5 DEF Sane
<1> QED  BY <1>6 DEF defs2

LEMMA GrownSane ==
  \A par, own, v, D, o, A, M, v2, x : \A e \in Seq(Propdef) :
    /\ Editing(par, own, v, D, o, A, M) /\ Unique(D) /\ Valued(propdefs, v)
    /\ IsInsert(e, propdefs[o], Len(propdefs[o]) + 1, x)
    /\ \A d \in A : Lacks(D[d], x.name)
    /\ Grows(v2, v, M, A, Len(propdefs[o]) + 1, x)
    /\ v2[o][Len(propdefs[o]) + 1].var # CLEAR
    => Sane(WithDefs(propdefs, o, e), par, own, v2)
<1> SUFFICES ASSUME NEW par, NEW own, NEW v, NEW D, NEW o, NEW A, NEW M, NEW v2, NEW x,
                    NEW e \in Seq(Propdef),
                    Editing(par, own, v, D, o, A, M), Unique(D), Valued(propdefs, v),
                    IsInsert(e, propdefs[o], Len(propdefs[o]) + 1, x),
                    \A d \in A : Lacks(D[d], x.name),
                    Grows(v2, v, M, A, Len(propdefs[o]) + 1, x),
                    v2[o][Len(propdefs[o]) + 1].var # CLEAR
             PROVE  Sane(WithDefs(propdefs, o, e), par, own, v2)
  OBVIOUS
<1> DEFINE r == OfParent(D, par[o])
           D2 == WithOwn(D, M, A, e, r)
           q == Len(propdefs[o]) + 1
           pd == propdefs[o]
<1>1. /\ o \in A /\ A \subseteq Objs /\ M[o] = <<>> /\ pd \in Seq(Propdef)
      /\ r \in Seq(Propdef)
      /\ \A d \in A : /\ M[d] \in Seq(Propdef) /\ Len(M[d]) \in Nat
                      /\ D[d] = M[d] \o (pd \o r) /\ D2[d] = M[d] \o (e \o r)
                      /\ d # o => Len(propdefs[d]) \in Nat /\ Len(propdefs[d]) <= Len(M[d])
      /\ \A d \in Objs \ A : D2[d] = D[d]
  <2>1. WithOther(par, D, o, A, M, e)
    BY ONLY Editing(par, own, v, D, o, A, M), e \in Seq(Propdef), EditingFacts
  <2> QED  BY ONLY <2>1 DEF WithOther
<1>2. IsInsert(e, pd, q, x) /\ Grows(v2, v, M, A, q, x) /\ v2[o][q].var # CLEAR
  OBVIOUS
<1>3. Matches(v, D) /\ v2 \in [Objs -> Seq(Pval)]
  BY <1>2 DEF Editing, Aligned, Grows
<1>4. q \in Nat /\ q > 0 /\ q = Len(pd) + 1
  BY <1>1
<1> HIDE DEF r, D2, q, pd
<1>5. \A d \in A : IsInsert(D2[d], D[d], Len(M[d]) + q, x)
  <2> TAKE d \in A
  <2>1. M[d] \in Seq(Propdef) /\ D[d] = M[d] \o (pd \o r) /\ D2[d] = M[d] \o (e \o r)
    BY <1>1
  <2>2. IsInsert(M[d] \o (e \o r), M[d] \o (pd \o r), Len(M[d]) + q, x)
    BY ONLY <1>1, <1>2, <2>1, e \in Seq(Propdef), InsertInside
  <2> QED  BY <2>1, <2>2
<1>6. Matches(v2, D2)
  <2> SUFFICES ASSUME NEW d \in Objs
               PROVE  Len(v2[d]) = Len(D2[d]) /\ SameDefs(v2[d], D2[d])
    BY DEF Matches, SameDefs
  <2>1. Len(v[d]) = Len(D[d]) /\ SameDefs(v[d], D[d])
    BY <1>3 DEF Matches, SameDefs
  <2>2. CASE d \notin A
    <3>1. v2[d] = v[d] /\ D2[d] = D[d]
      BY <1>1, <1>2, <2>2 DEF Grows
    <3> QED  BY <2>1, <3>1
  <2>3. CASE d \in A
    <3>1. /\ IsInsert(v2[d], v[d], Len(M[d]) + q, v2[d][Len(M[d]) + q])
          /\ v2[d][Len(M[d]) + q].def = x.def
      BY <1>2, <2>3 DEF Grows
    <3>2. IsInsert(D2[d], D[d], Len(M[d]) + q, x)
      BY <1>5, <2>3
    <3> QED  BY ONLY <2>1, <3>1, <3>2, InsertMatches
  <2> QED  BY <2>2, <2>3
<1>7. Unique(D2)
  <2> SUFFICES ASSUME NEW d \in Objs  PROVE UniqueNames(D2[d])
    BY DEF Unique
  <2>1. UniqueNames(D[d])
    BY DEF Unique
  <2>2. CASE d \notin A
    BY <1>1, <2>1, <2>2
  <2>3. CASE d \in A
    <3>1. IsInsert(D2[d], D[d], Len(M[d]) + q, x) /\ \A i \in 1..Len(D[d]) : D[d][i].name # x.name
      BY <1>5, <2>3 DEF Lacks
    <3> QED  BY ONLY <2>1, <3>1, UniqueInsert
  <2> QED  BY <2>2, <2>3
<1>8. Valued(WithDefs(propdefs, o, e), v2)
  <2> DEFINE defs2 == WithDefs(propdefs, o, e)
  <2>1. defs2[o] = e /\ \A d \in Objs \ {o} : defs2[d] = propdefs[d]
    <3>1. propdefs \in [Objs -> Seq(Propdef)]
      BY DEF Editing, Aligned
    <3> QED  BY <1>1, <3>1 DEF WithDefs
  <2> HIDE DEF defs2
  <2>2. ASSUME NEW d \in Objs, NEW i \in 1..Len(defs2[d])  PROVE v2[d][i].var # CLEAR
    <3>1. CASE d = o
      <4>1. i \in 1..q
        BY <1>2, <1>4, <2>1, <3>1 DEF IsInsert
      <4>2. CASE i = q
        BY <1>2, <3>1, <4>2
      <4>3. CASE i # q
        <5>1. i \in 1..Len(pd) /\ i \in 1..(q - 1)
          BY <1>1, <1>4, <4>1, <4>3
        <5>2. v[o][i].var # CLEAR
          BY <1>1, <5>1 DEF Valued, pd
        <5>3. Len(M[o]) + q = q
          BY <1>1, <1>4
        <5>4. IsInsert(v2[o], v[o], q, v2[o][q])
          BY <1>1, <1>2, <5>3 DEF Grows
        <5>5. v2[o][i] = v[o][i]
          BY <5>1, <5>4 DEF IsInsert
        <5> QED  BY <3>1, <5>2, <5>5
      <4> QED  BY <4>2, <4>3
    <3>2. CASE d \in A /\ d # o
      <4>1. i \in 1..Len(propdefs[d]) /\ Len(propdefs[d]) \in Nat /\ Len(propdefs[d]) <= Len(M[d])
            /\ Len(M[d]) \in Nat
        BY <1>1, <2>1, <3>2
      <4>2. i \in 1..((Len(M[d]) + q) - 1)
        <5>1. \A a, b, c \in Nat : \A j \in 1..a : a <= b /\ c > 0 => j \in 1..((b + c) - 1)
          OBVIOUS
        <5> QED  BY ONLY <1>4, <4>1, <5>1
      <4>3. IsInsert(v2[d], v[d], Len(M[d]) + q, v2[d][Len(M[d]) + q])
        BY <1>2, <3>2 DEF Grows
      <4>4. v2[d][i] = v[d][i]
        BY <4>2, <4>3 DEF IsInsert
      <4> QED  BY <4>1, <4>4 DEF Valued
    <3>3. CASE d \notin A
      <4>1. v2[d] = v[d] /\ d # o
        BY <1>1, <1>2, <3>3 DEF Grows
      <4> QED  BY <2>1, <4>1 DEF Valued
    <3> QED  BY <3>1, <3>2, <3>3
  <2> QED  BY <2>2 DEF Valued, defs2
<1> QED
  <2>1. Editing(par, own, v, D, o, A, M)
    OBVIOUS
  <2> QED  BY ONLY <1>3, <1>6, <1>7, <1>8, <2>1, e \in Seq(Propdef), OwnSane DEF D2, r

LEMMA ShrunkSane ==
  \A par, own, v, D, o, A, M, v2, q, x, e :
    /\ e \in Seq(Propdef)
    /\ Editing(par, own, v, D, o, A, M) /\ Unique(D) /\ Valued(propdefs, v)
    /\ IsInsert(propdefs[o], e, q, x) /\ Shrinks(v2, v, M, A, q)
    => Sane(WithDefs(propdefs, o, e), par, own, v2)
<1> TAKE par, own, v, D, o, A, M, v2, q, x, e
<1> HAVE /\ e \in Seq(Propdef)
         /\ Editing(par, own, v, D, o, A, M) /\ Unique(D) /\ Valued(propdefs, v)
         /\ IsInsert(propdefs[o], e, q, x) /\ Shrinks(v2, v, M, A, q)
<1> DEFINE r == OfParent(D, par[o])
           D2 == WithOwn(D, M, A, e, r)
           pd == propdefs[o]
<1>1. /\ o \in A /\ A \subseteq Objs /\ M[o] = <<>> /\ pd \in Seq(Propdef)
      /\ r \in Seq(Propdef)
      /\ \A d \in A : /\ M[d] \in Seq(Propdef) /\ Len(M[d]) \in Nat
                      /\ D[d] = M[d] \o (pd \o r) /\ D2[d] = M[d] \o (e \o r)
                      /\ d # o => Len(propdefs[d]) \in Nat /\ Len(propdefs[d]) <= Len(M[d])
      /\ \A d \in Objs \ A : D2[d] = D[d]
  <2>1. WithOther(par, D, o, A, M, e)
    BY ONLY Editing(par, own, v, D, o, A, M), e \in Seq(Propdef), EditingFacts
  <2> QED  BY ONLY <2>1 DEF WithOther
<1>2. IsInsert(pd, e, q, x)
  OBVIOUS
<1>3. Matches(v, D) /\ v2 \in [Objs -> Seq(Pval)]
  BY DEF Editing, Aligned, Shrinks
<1>4. q \in Nat /\ q > 0 /\ Len(e) \in Nat /\ Len(pd) = Len(e) + 1
  BY <1>1, <1>2 DEF IsInsert
<1> HIDE DEF r, D2, pd
<1>5. \A d \in A : IsInsert(D[d], D2[d], Len(M[d]) + q, x)
  <2> TAKE d \in A
  <2>1. M[d] \in Seq(Propdef) /\ D[d] = M[d] \o (pd \o r) /\ D2[d] = M[d] \o (e \o r)
    BY <1>1
  <2>2. IsInsert(M[d] \o (pd \o r), M[d] \o (e \o r), Len(M[d]) + q, x)
    BY ONLY <1>1, <1>2, <2>1, e \in Seq(Propdef), InsertInside
  <2> QED  BY <2>1, <2>2
<1>6. Matches(v2, D2)
  <2> SUFFICES ASSUME NEW d \in Objs
               PROVE  Len(v2[d]) = Len(D2[d]) /\ SameDefs(v2[d], D2[d])
    BY DEF Matches, SameDefs
  <2>1. Len(v[d]) = Len(D[d]) /\ SameDefs(v[d], D[d])
    BY <1>3 DEF Matches, SameDefs
  <2>2. CASE d \notin A
    <3>1. v2[d] = v[d] /\ D2[d] = D[d]
      BY <1>1, <2>2 DEF Shrinks
    <3> QED  BY <2>1, <3>1
  <2>3. CASE d \in A
    <3>1. IsInsert(v[d], v2[d], Len(M[d]) + q, v[d][Len(M[d]) + q])
      BY <2>3 DEF Shrinks
    <3>2. IsInsert(D[d], D2[d], Len(M[d]) + q, x)
      BY <1>5, <2>3
    <3> QED  BY ONLY <2>1, <3>1, <3>2, RemoveMatches
  <2> QED  BY <2>2, <2>3
<1>7. Unique(D2)
  <2> SUFFICES ASSUME NEW d \in Objs  PROVE UniqueNames(D2[d])
    BY DEF Unique
  <2>1. UniqueNames(D[d])
    BY DEF Unique
  <2>2. CASE d \notin A
    BY <1>1, <2>1, <2>2
  <2>3. CASE d \in A
    <3>1. IsInsert(D[d], D2[d], Len(M[d]) + q, x)
      BY <1>5, <2>3
    <3> QED  BY ONLY <2>1, <3>1, UniqueRemove
  <2> QED  BY <2>2, <2>3
<1>8. Valued(WithDefs(propdefs, o, e), v2)
  <2> DEFINE defs2 == WithDefs(propdefs, o, e)
  <2>1. defs2[o] = e /\ \A d \in Objs \ {o} : defs2[d] = propdefs[d]
    <3>1. propdefs \in [Objs -> Seq(Propdef)]
      BY DEF Editing, Aligned
    <3> QED  BY <1>1, <3>1 DEF WithDefs
  <2> HIDE DEF defs2
  <2>2. ASSUME NEW d \in Objs, NEW i \in 1..Len(defs2[d])  PROVE v2[d][i].var # CLEAR
    <3>1. CASE d = o
      <4>1. i \in 1..Len(e)
        BY <2>1, <3>1
      <4>2. IsInsert(v[o], v2[o], q, v[o][q])
        <5>1. Len(M[o]) + q = q
          BY <1>1, <1>4
        <5> QED  BY <1>1, <5>1 DEF Shrinks
      <4>3. \A k \in 1..Len(pd) : v[o][k].var # CLEAR
        BY <1>1 DEF Valued, pd
      <4>4. Len(v2[o]) \in Nat /\ Len(e) <= Len(v2[o])
        <5>1. Len(v[o]) = Len(D[o])
          BY <1>1, <1>3 DEF Matches
        <5>2. D[o] = M[o] \o (pd \o r)
          BY <1>1
        <5>3. Len(M[o] \o (pd \o r)) = Len(M[o]) + Len(pd) + Len(r)
          BY ONLY <1>1, Concat3
        <5>4. Len(r) \in Nat /\ Len(M[o]) = 0
          BY <1>1
        <5>5. Len(v[o]) = Len(v2[o]) + 1 /\ Len(v2[o]) \in Nat
          BY <4>2 DEF IsInsert
        <5>6. Len(v2[o]) + 1 = 0 + (Len(e) + 1) + Len(r)
          BY ONLY <1>4, <5>1, <5>2, <5>3, <5>4, <5>5
        <5>7. \A a, b, c \in Nat : a + 1 = 0 + (b + 1) + c => b <= a
          OBVIOUS
        <5> QED  BY ONLY <1>4, <5>4, <5>5, <5>6, <5>7
      <4>5. CASE i < q
        <5>1. i \in 1..(q - 1) /\ i \in 1..Len(pd)
          BY <1>4, <4>1, <4>5
        <5>2. v[o][i] = v2[o][i]
          BY <4>2, <5>1 DEF IsInsert
        <5> QED  BY <3>1, <4>3, <5>1, <5>2
      <4>6. CASE ~ i < q
        <5>1. i \in q..Len(v2[o]) /\ i + 1 \in 1..Len(pd)
          <6>1. \A a, b, c \in Nat : \A j \in 1..a :
                  a <= b /\ ~ j < c => j \in c..b /\ j + 1 \in 1..(a + 1)
            OBVIOUS
          <6> QED  BY ONLY <1>4, <4>1, <4>4, <4>6, <6>1
        <5>2. v[o][i + 1] = v2[o][i]
          BY <4>2, <5>1 DEF IsInsert
        <5>3. v[o][i + 1].var # CLEAR
          BY <4>3, <5>1
        <5> QED  BY <3>1, <5>2, <5>3
      <4> QED  BY <4>5, <4>6
    <3>2. CASE d \in A /\ d # o
      <4>1. i \in 1..Len(propdefs[d]) /\ Len(propdefs[d]) \in Nat /\ Len(propdefs[d]) <= Len(M[d])
            /\ Len(M[d]) \in Nat
        BY <1>1, <2>1, <3>2
      <4>2. i \in 1..((Len(M[d]) + q) - 1)
        <5>1. \A a, b, c \in Nat : \A j \in 1..a : a <= b /\ c > 0 => j \in 1..((b + c) - 1)
          OBVIOUS
        <5> QED  BY ONLY <1>4, <4>1, <5>1
      <4>3. IsInsert(v[d], v2[d], Len(M[d]) + q, v[d][Len(M[d]) + q])
        BY <3>2 DEF Shrinks
      <4>4. v[d][i] = v2[d][i]
        BY <4>2, <4>3 DEF IsInsert
      <4> QED  BY <4>1, <4>4 DEF Valued
    <3>3. CASE d \notin A
      <4>1. v2[d] = v[d] /\ d # o
        BY <1>1, <3>3 DEF Shrinks
      <4> QED  BY <2>1, <4>1 DEF Valued
    <3> QED  BY <3>1, <3>2, <3>3
  <2> QED  BY <2>2 DEF Valued, defs2
<1> QED
  <2>1. Editing(par, own, v, D, o, A, M)
    OBVIOUS
  <2> QED  BY ONLY <1>3, <1>6, <1>7, <1>8, <2>1, e \in Seq(Propdef), OwnSane DEF D2, r

\* Two insertions at the same place.
LEMMA InsertAgain ==
  \A s, t, u, a, p, e, f :
    /\ IsInsert(s, u, p, e) /\ IsInsert(t, u, p, f) /\ e.def = f.def
    /\ Len(a) = Len(s) /\ SameDefs(a, s)
    => Len(a) = Len(t) /\ SameDefs(a, t)
<1> SUFFICES ASSUME NEW s, NEW t, NEW u, NEW a, NEW p, NEW e, NEW f,
                    IsInsert(s, u, p, e), IsInsert(t, u, p, f), e.def = f.def,
                    Len(a) = Len(s), SameDefs(a, s)
             PROVE  Len(a) = Len(t) /\ SameDefs(a, t)
  OBVIOUS
<1>1. /\ Len(u) \in Nat /\ Len(s) = Len(u) + 1 /\ Len(t) = Len(u) + 1 /\ p \in 1..Len(s)
      /\ s[p] = e /\ t[p] = f
      /\ \A i \in 1..(p - 1) : s[i] = u[i] /\ t[i] = u[i]
      /\ \A i \in p..Len(u) : s[i + 1] = u[i] /\ t[i + 1] = u[i]
  BY DEF IsInsert
<1>2. Len(a) = Len(t)
  BY <1>1
<1>3. ASSUME NEW i \in 1..Len(t)  PROVE a[i].def = t[i].def
  <2>1. a[i].def = s[i].def /\ i \in Nat /\ i >= 1 /\ i <= Len(u) + 1
    BY <1>1 DEF SameDefs
  <2>2. CASE i = p
    BY <1>1, <2>1, <2>2
  <2>3. CASE i < p
    <3>1. i \in 1..(p - 1)
      BY <1>1, <2>1, <2>3
    <3>2. s[i] = t[i]
      BY <1>1, <3>1
    <3> QED  BY <2>1, <3>2
  <2>4. CASE i > p
    <3>1. i - 1 \in p..Len(u) /\ (i - 1) + 1 = i
      BY <1>1, <2>1, <2>4
    <3>2. s[(i - 1) + 1] = t[(i - 1) + 1]
      BY ONLY <1>1, <3>1
    <3> QED  BY <2>1, <3>1, <3>2
  <2> QED  BY <1>1, <2>1, <2>2, <2>3, <2>4
<1> QED  BY <1>2, <1>3 DEF SameDefs

\* The definition at q of o gets a name that nothing else at or below o has.
LEMMA RenamedSane ==
  \A par, own, v, D, o, A, M, q, x, y, u, e :
    /\ e \in Seq(Propdef) /\ u \in Seq(Propdef)
    /\ Editing(par, own, v, D, o, A, M) /\ Unique(D) /\ Valued(propdefs, v)
    /\ IsInsert(propdefs[o], u, q, x) /\ IsInsert(e, u, q, y) /\ x.def = y.def
    /\ \A d \in A : Lacks(D[d], y.name)
    => Sane(WithDefs(propdefs, o, e), par, own, v)
<1> TAKE par, own, v, D, o, A, M, q, x, y, u, e
<1> HAVE /\ e \in Seq(Propdef) /\ u \in Seq(Propdef)
         /\ Editing(par, own, v, D, o, A, M) /\ Unique(D) /\ Valued(propdefs, v)
         /\ IsInsert(propdefs[o], u, q, x) /\ IsInsert(e, u, q, y) /\ x.def = y.def
         /\ \A d \in A : Lacks(D[d], y.name)
<1> DEFINE r == OfParent(D, par[o])
           D2 == WithOwn(D, M, A, e, r)
           pd == propdefs[o]
<1>1. /\ o \in A /\ A \subseteq Objs /\ M[o] = <<>> /\ pd \in Seq(Propdef)
      /\ r \in Seq(Propdef)
      /\ \A d \in A : /\ M[d] \in Seq(Propdef)
                      /\ D[d] = M[d] \o (pd \o r) /\ D2[d] = M[d] \o (e \o r)
      /\ \A d \in Objs \ A : D2[d] = D[d]
  <2>1. WithOther(par, D, o, A, M, e)
    BY ONLY Editing(par, own, v, D, o, A, M), e \in Seq(Propdef), EditingFacts
  <2> QED  BY ONLY <2>1 DEF WithOther
<1>2. IsInsert(pd, u, q, x) /\ IsInsert(e, u, q, y) /\ x.def = y.def
  OBVIOUS
<1>3. Matches(v, D) /\ v \in [Objs -> Seq(Pval)]
  BY DEF Editing, Aligned
<1>4. Len(pd) = Len(e)
  BY <1>2 DEF IsInsert
<1> HIDE DEF r, D2, pd
<1>5. \A d \in A : \E U : IsInsert(D[d], U, Len(M[d]) + q, x) /\ IsInsert(D2[d], U, Len(M[d]) + q, y)
  <2> TAKE d \in A
  <2>1. M[d] \in Seq(Propdef) /\ D[d] = M[d] \o (pd \o r) /\ D2[d] = M[d] \o (e \o r)
    BY <1>1
  <2>2. /\ IsInsert(M[d] \o (pd \o r), M[d] \o (u \o r), Len(M[d]) + q, x)
        /\ IsInsert(M[d] \o (e \o r), M[d] \o (u \o r), Len(M[d]) + q, y)
    BY ONLY <1>1, <1>2, <2>1, e \in Seq(Propdef), u \in Seq(Propdef), InsertInside
  <2> QED  BY <2>1, <2>2
<1>6. Matches(v, D2)
  <2> SUFFICES ASSUME NEW d \in Objs
               PROVE  Len(v[d]) = Len(D2[d]) /\ SameDefs(v[d], D2[d])
    BY DEF Matches, SameDefs
  <2>1. Len(v[d]) = Len(D[d]) /\ SameDefs(v[d], D[d])
    BY <1>3 DEF Matches, SameDefs
  <2>2. CASE d \notin A
    BY <1>1, <2>1, <2>2
  <2>3. CASE d \in A
    <3>1. PICK U : /\ IsInsert(D[d], U, Len(M[d]) + q, x)
                   /\ IsInsert(D2[d], U, Len(M[d]) + q, y)
      BY <1>5, <2>3
    <3> QED  BY ONLY <1>2, <2>1, <3>1, InsertAgain
  <2> QED  BY <2>2, <2>3
<1>7. Unique(D2)
  <2> SUFFICES ASSUME NEW d \in Objs  PROVE UniqueNames(D2[d])
    BY DEF Unique
  <2>1. UniqueNames(D[d])
    BY DEF Unique
  <2>2. CASE d \notin A
    BY <1>1, <2>1, <2>2
  <2>3. CASE d \in A
    <3>1. PICK U : /\ IsInsert(D[d], U, Len(M[d]) + q, x)
                   /\ IsInsert(D2[d], U, Len(M[d]) + q, y)
      BY <1>5, <2>3
    <3>2. UniqueNames(U)
      BY ONLY <2>1, <3>1, UniqueRemove
    <3>3. Lacks(D[d], y.name)
      BY <2>3
    <3>4. Lacks(U, y.name)
      BY ONLY <3>1, <3>3, LacksRemoved
    <3>5. \A i \in 1..Len(U) : U[i].name # y.name
      BY ONLY <3>4 DEF Lacks
    <3> QED  BY ONLY <3>1, <3>2, <3>5, UniqueInsert
  <2> QED  BY <2>2, <2>3
<1>8. Valued(WithDefs(propdefs, o, e), v)
  <2>1. propdefs \in [Objs -> Seq(Propdef)]
    BY DEF Editing, Aligned
  <2> QED  BY <1>1, <1>4, <2>1 DEF WithDefs, Valued, pd
<1> QED
  <2>1. Editing(par, own, v, D, o, A, M)
    OBVIOUS
  <2> QED  BY ONLY <1>3, <1>6, <1>7, <1>8, <2>1, e \in Seq(Propdef), OwnSane DEF D2, r

\* The places of a property at or below o.
LEMMA PositionsIs ==
  \A own, v, D, o, A, M : \A pos \in Nat :
    Editing(parent, own, v, D, o, A, M) =>
      DOMAIN Positions(o, pos) = A /\ \A d \in A : Positions(o, pos)[d] = Len(M[d]) + pos
<1> SUFFICES ASSUME NEW own, NEW v, NEW D, NEW o, NEW A, NEW M, NEW pos \in Nat,
                    Editing(parent, own, v, D, o, A, M)
             PROVE  /\ DOMAIN Positions(o, pos) = A
                    /\ \A d \in A : Positions(o, pos)[d] = Len(M[d]) + pos
  OBVIOUS
<1>1. /\ Forest(parent) /\ propdefs \in [Objs -> Seq(Propdef)]
      /\ o \in Objs /\ IsBelow(A, parent, o) /\ Around(M, A, o, propdefs, parent, D)
  BY DEF Editing, Aligned
<1>2. AtOrBelow(parent, o) = A
  BY <1>1, AtOrBelowIs, BelowUnique
<1> DEFINE Eq(f) == f = [d \in AtOrBelow(parent, o) |->
                           IF d = o THEN pos ELSE Len(propdefs[d]) + f[parent[d]]]
           at == CHOOSE f : Eq(f)
           l == [d \in A |-> Len(M[d]) + pos]
<1>3. Positions(o, pos) = at
  BY DEF Positions
<1>4. /\ o \in A /\ A \subseteq Objs /\ \A d \in A \ {o} : parent[d] \in A
      /\ M \in [A -> Seq(Propdef)] /\ M[o] = <<>>
      /\ \A d \in A \ {o} : M[d] = propdefs[d] \o M[parent[d]]
  BY <1>1 DEF IsBelow, Around
<1>5. ASSUME NEW d \in A
      PROVE  l[d] = IF d = o THEN pos ELSE Len(propdefs[d]) + l[parent[d]]
  <2>1. CASE d = o
    BY <1>4, <2>1
  <2>2. CASE d # o
    <3>1. propdefs[d] \in Seq(Propdef) /\ M[parent[d]] \in Seq(Propdef) /\ parent[d] \in A
      BY <1>1, <1>4, <2>2
    <3>2. M[d] = propdefs[d] \o M[parent[d]]
      BY <1>4, <2>2
    <3>3. /\ Len(propdefs[d]) \in Nat /\ Len(M[parent[d]]) \in Nat
          /\ Len(propdefs[d] \o M[parent[d]]) = Len(propdefs[d]) + Len(M[parent[d]])
      BY ONLY <3>1, DefsConcat
    <3>4. l[d] = Len(M[d]) + pos /\ l[parent[d]] = Len(M[parent[d]]) + pos
      BY <3>1
    <3>5. l[d] = Len(propdefs[d]) + l[parent[d]]
      <4>1. \A a, b, c \in Nat : (a + b) + c = a + (b + c)
        OBVIOUS
      <4>2. Len(M[d]) = Len(propdefs[d]) + Len(M[parent[d]])
        BY ONLY <3>2, <3>3
      <4>3. l[d] = (Len(propdefs[d]) + Len(M[parent[d]])) + pos
        BY ONLY <3>4, <4>2
      <4>4. l[d] = Len(propdefs[d]) + (Len(M[parent[d]]) + pos)
        BY ONLY <3>3, <4>1, <4>3, pos \in Nat
      <4> QED  BY ONLY <3>4, <4>4
    <3> QED  BY <2>2, <3>5
  <2> QED  BY <2>1, <2>2
<1>6. l = [d \in A |-> IF d = o THEN pos ELSE Len(propdefs[d]) + l[parent[d]]]
  BY <1>5
<1>7. Eq(l)
  BY ONLY <1>2, <1>6
<1>8. Eq(at)
  BY <1>7
<1> HIDE DEF at, l
<1>9. DOMAIN at = A
  BY <1>2, <1>8
<1> DEFINE T == {d \in Objs : d \in A => at[d] = l[d]}
<1>10. ASSUME NEW d \in Objs, parent[d] # NOTHING => parent[d] \in T  PROVE d \in T
  <2> SUFFICES ASSUME d \in A  PROVE at[d] = l[d]
    OBVIOUS
  <2>1. /\ at[d] = IF d = o THEN pos ELSE Len(propdefs[d]) + at[parent[d]]
        /\ l[d] = IF d = o THEN pos ELSE Len(propdefs[d]) + l[parent[d]]
    BY <1>2, <1>7, <1>8
  <2>2. d # o => parent[d] \in A /\ parent[d] \in Objs /\ parent[d] # NOTHING
    BY <1>4, NothingAssumption
  <2> QED  BY <1>10, <2>1, <2>2
<1>11. T = Objs
  <2>1. T \in SUBSET Objs
    OBVIOUS
  <2> HIDE DEF T
  <2> QED  BY <1>1, <1>10, <2>1, Downwards
<1>12. \A d \in A : at[d] = l[d] /\ l[d] = Len(M[d]) + pos
  BY <1>4, <1>11 DEF l
<1> QED  BY <1>3, <1>9, <1>12

\* The invariant gives what the lemmas above assume.
LEMMA EditingExists ==
  ASSUME IInv, NEW o \in Objs
  PROVE  \E D, M : Editing(parent, owner, propval, D, o, AtOrBelow(parent, o), M) /\ Unique(D)
<1> DEFINE A == AtOrBelow(parent, o)
<1>1. PICK D : Aligned(propdefs, parent, owner, propval, D) /\ Unique(D)
  BY DEF IInv, Sane
<1>2. /\ Forest(parent) /\ propdefs \in [Objs -> Seq(Propdef)] /\ IsDefs(D, propdefs, parent)
  BY <1>1 DEF Aligned
<1>3. IsBelow(A, parent, o)
  BY <1>2, AtOrBelowIs
<1> HIDE DEF A
<1>4. PICK M : Around(M, A, o, propdefs, parent, D)
  BY <1>2, <1>3, AroundExists
<1>5. Editing(parent, owner, propval, D, o, A, M)
  BY <1>1, <1>3, <1>4 DEF Editing
<1> QED  BY <1>1, <1>5 DEF A

\* A name that add_property() and a rename accept is that of no property of an object
\* at or below o.
LEMMA NewName ==
  \A D, o, M, name :
    /\ Editing(parent, owner, propval, D, o, AtOrBelow(parent, o), M)
    /\ FindProperty(parent, o, name) = 0 /\ ~PropertyDefinedAtOrBelow(name, o)
    => \A d \in AtOrBelow(parent, o) : Lacks(D[d], name)
<1> SUFFICES ASSUME NEW D, NEW o, NEW M, NEW name,
                    Editing(parent, owner, propval, D, o, AtOrBelow(parent, o), M),
                    FindProperty(parent, o, name) = 0, ~PropertyDefinedAtOrBelow(name, o),
                    NEW d \in AtOrBelow(parent, o)
             PROVE  Lacks(D[d], name)
  OBVIOUS
<1> DEFINE A == AtOrBelow(parent, o)
           r == OfParent(D, parent[o])
           pd == propdefs[o]
<1>1. /\ Forest(parent) /\ propdefs \in [Objs -> Seq(Propdef)] /\ IsDefs(D, propdefs, parent)
      /\ o \in Objs /\ Around(M, A, o, propdefs, parent, D)
  BY DEF Editing, Aligned
<1>2. Lacks(D[o], name)
  <2>1. Found(FindProperty(parent, o, name), D[o], name)
    BY <1>1, FindIs
  <2> QED  BY <2>1 DEF Found, Lacks
<1>3. /\ o \in A /\ A \subseteq Objs /\ M[o] = <<>> /\ pd \in Seq(Propdef) /\ r \in Seq(Propdef)
      /\ \A x \in A : M[x] \in Seq(Propdef) /\ D[x] = M[x] \o (pd \o r)
  <2>1. Editing(parent, owner, propval, D, o, A, M) /\ <<>> \in Seq(Propdef)
    OBVIOUS
  <2>2. WithOther(parent, D, o, A, M, <<>>)
    BY ONLY <2>1, EditingFacts
  <2> QED  BY ONLY <2>2 DEF WithOther
<1>4. From(M[d], propdefs, A)
  BY <1>1 DEF Around
<1>5. \A x \in A : \A i \in 1..Len(propdefs[x]) : propdefs[x][i].name # name
  <2>1. \A x \in A : propdefs[x] \in Seq(Propdef)
    BY <1>1, <1>3
  <2> QED  BY <2>1 DEF PropertyDefinedAtOrBelow, DefinedHere
<1> HIDE DEF A, r, pd
<1>6. Lacks(M[d], name)
  BY <1>4, <1>5 DEF From, Lacks
<1>7. pd \o r \in Seq(Propdef) /\ D[o] = pd \o r
  <2>1. pd \o r \in Seq(Propdef)
    BY <1>3, DefsConcat
  <2>2. <<>> \o (pd \o r) = pd \o r
    BY <2>1, ConcatEmptySeq
  <2> QED  BY <1>3, <2>1, <2>2
<1>8. d \in A
  BY DEF A
<1>9. D[d] = M[d] \o (pd \o r) /\ M[d] \in Seq(Propdef)
  BY <1>3, <1>8
<1>10. Lacks(pd \o r, name)
  BY ONLY <1>2, <1>7
<1>11. Lacks(M[d] \o (pd \o r), name)
  BY ONLY <1>6, <1>7, <1>9, <1>10, LacksConcat
<1> QED  BY ONLY <1>9, <1>11

\* The place of a property of o in the values of an object at or below it.
LEMMA PlaceInside ==
  \A D, o, A, M, d : \A q \in Nat :
    /\ Editing(parent, owner, propval, D, o, A, M) /\ d \in A
    => /\ Len(M[d]) \in Nat /\ Len(propdefs[o]) \in Nat
       /\ Len(propval[d]) \in Nat /\ propval[d] \in Seq(Pval)
       /\ q \in 1..(Len(propdefs[o]) + 1) => Len(M[d]) + q \in 1..(Len(propval[d]) + 1)
       /\ q \in 1..Len(propdefs[o]) => Len(M[d]) + q \in 1..Len(propval[d])
<1> TAKE D, o, A, M, d
<1> TAKE q \in Nat
<1> HAVE Editing(parent, owner, propval, D, o, A, M) /\ d \in A
<1> DEFINE r == OfParent(D, parent[o])
           pd == propdefs[o]
<1>1. /\ A \subseteq Objs /\ pd \in Seq(Propdef) /\ r \in Seq(Propdef)
      /\ M[d] \in Seq(Propdef) /\ D[d] = M[d] \o (pd \o r)
  <2>1. Editing(parent, owner, propval, D, o, A, M) /\ <<>> \in Seq(Propdef)
    OBVIOUS
  <2>2. WithOther(parent, D, o, A, M, <<>>)
    BY ONLY <2>1, EditingFacts
  <2> QED  BY ONLY <2>2, d \in A DEF WithOther
<1>2. propval[d] \in Seq(Pval) /\ Len(propval[d]) = Len(D[d])
  BY <1>1 DEF Editing, Aligned, Matches
<1> HIDE DEF r, pd
<1>3. Len(M[d] \o (pd \o r)) = Len(M[d]) + Len(pd) + Len(r)
  BY ONLY ZenonT(60), <1>1, Concat3
<1>4. Len(M[d]) \in Nat /\ Len(pd) \in Nat /\ Len(r) \in Nat
  BY <1>1
<1>5. Len(propval[d]) = Len(M[d]) + Len(pd) + Len(r)
  BY ONLY <1>1, <1>2, <1>3
<1>6. \A a, b, c \in Nat :
        /\ a + b + c \in Nat
        /\ q \in 1..(b + 1) => a + q \in 1..((a + b + c) + 1)
        /\ q \in 1..b => a + q \in 1..(a + b + c)
  OBVIOUS
<1>7. /\ Len(M[d]) + Len(pd) + Len(r) \in Nat
      /\ q \in 1..(Len(pd) + 1) => Len(M[d]) + q \in 1..((Len(M[d]) + Len(pd) + Len(r)) + 1)
      /\ q \in 1..Len(pd) => Len(M[d]) + q \in 1..(Len(M[d]) + Len(pd) + Len(r))
  BY ONLY <1>4, <1>6
<1>8. /\ Len(M[d]) \in Nat /\ Len(pd) \in Nat /\ Len(propval[d]) \in Nat
      /\ propval[d] \in Seq(Pval)
      /\ q \in 1..(Len(pd) + 1) => Len(M[d]) + q \in 1..(Len(propval[d]) + 1)
      /\ q \in 1..Len(pd) => Len(M[d]) + q \in 1..Len(propval[d])
  BY ONLY <1>2, <1>4, <1>5, <1>7
<1> QED  BY <1>8 DEF pd

LEMMA AddPropdefIInv ==
  ASSUME IInv, AddPropdef  PROVE IInv'
<1>1. PICK o \in objs, name \in Names, v \in Values, w \in Owners, c \in BOOLEAN :
        LET used == UNION {{propdefs[x][i].def : i \in DOMAIN propdefs[x]} : x \in objs}
            def  == CHOOSE d \in Defs : d \notin used
            at   == Positions(o, Len(propdefs[o]) + 1)
            pv(d) == [def |-> def, var |-> IF d = o THEN v ELSE CLEAR,
                      owner |-> IF c THEN owner[d] ELSE w, chown |-> c]
        IN  /\ w \in objs
            /\ used # Defs
            /\ FindProperty(parent, o, name) = 0
            /\ ~PropertyDefinedAtOrBelow(name, o)
            /\ propdefs' = [propdefs EXCEPT ![o] = Append(@, [name |-> name, def |-> def])]
            /\ propval' = [d \in Objs |-> IF d \in DOMAIN at
                                          THEN InsertAt(propval[d], at[d], pv(d))
                                          ELSE propval[d]]
            /\ UNCHANGED <<objs, parent, owner, changes>>
  BY ZenonT(60) DEF AddPropdef
<1> DEFINE used == UNION {{propdefs[x][i].def : i \in DOMAIN propdefs[x]} : x \in objs}
           def  == CHOOSE d \in Defs : d \notin used
           q    == Len(propdefs[o]) + 1
           at   == Positions(o, q)
           pv(d) == [def |-> def, var |-> IF d = o THEN v ELSE CLEAR,
                     owner |-> IF c THEN owner[d] ELSE w, chown |-> c]
           x    == [name |-> name, def |-> def]
           e    == Append(propdefs[o], x)
           A    == AtOrBelow(parent, o)
<1>2. /\ w \in objs /\ used # Defs
      /\ FindProperty(parent, o, name) = 0 /\ ~PropertyDefinedAtOrBelow(name, o)
      /\ propdefs' = WithDefs(propdefs, o, e)
      /\ propval' = [d \in Objs |-> IF d \in DOMAIN at
                                    THEN InsertAt(propval[d], at[d], pv(d)) ELSE propval[d]]
      /\ UNCHANGED <<objs, parent, owner, changes>>
  BY <1>1 DEF WithDefs
<1>3. o \in Objs /\ w \in Objs /\ objs \subseteq Objs
  BY <1>2 DEF IInv
<1>4. def \in Defs
  <2>1. used \subseteq Defs
    <3> SUFFICES ASSUME NEW y \in objs, NEW i \in DOMAIN propdefs[y]
                 PROVE  propdefs[y][i].def \in Defs
      OBVIOUS
    <3>1. propdefs[y] \in Seq(Propdef)
      BY <1>3, Types
    <3>2. propdefs[y][i] \in Propdef
      BY <3>1
    <3> QED  BY <3>2 DEF Propdef
  <2>2. \E d \in Defs : d \notin used
    BY <1>2, <2>1
  <2> HIDE DEF used
  <2> QED  BY <2>2
<1> HIDE DEF def, used
<1>5. x \in Propdef /\ x.name = name /\ x.def = def
  BY <1>4 DEF Propdef
<1>6. \A d \in Objs : pv(d) \in Pval /\ pv(d).def = x.def /\ pv(o).var # CLEAR
  <2> TAKE d \in Objs
  <2>1. owner[d] \in Objs \cup {NOTHING}
    BY Types
  <2> QED  BY <1>3, <1>4, <2>1, ClearAssumption DEF Pval
<1>7. propdefs[o] \in Seq(Propdef) /\ propval \in [Objs -> Seq(Pval)]
  BY <1>3, Types
<1> HIDE DEF pv, x
<1>8. e \in Seq(Propdef) /\ IsInsert(e, propdefs[o], q, x)
  <2>1. /\ e \in Seq(Propdef) /\ Len(e) = Len(propdefs[o]) + 1 /\ Len(propdefs[o]) \in Nat
        /\ \A i \in 1..Len(propdefs[o]) : e[i] = propdefs[o][i]
        /\ e[Len(propdefs[o]) + 1] = x
    BY <1>5, <1>7, AppendProperties, LenProperties
  <2> HIDE DEF e
  <2>2. \A i \in 1..(q - 1) : i \in 1..Len(propdefs[o])
    BY <2>1
  <2>3. \A i \in q..Len(propdefs[o]) : FALSE
    BY <2>1
  <2>4. q \in 1..Len(e)
    BY <2>1
  <2> QED  BY <2>1, <2>2, <2>3, <2>4 DEF IsInsert
<1>9. PICK D, M : Editing(parent, owner, propval, D, o, A, M) /\ Unique(D)
  BY <1>3, EditingExists
<1>10. \A d \in A : Lacks(D[d], x.name)
  <2>1. \A d \in A : Lacks(D[d], name)
    BY ONLY <1>2, <1>9, NewName
  <2> QED  BY <1>5, <2>1
<1>11. q \in Nat /\ q \in 1..(Len(propdefs[o]) + 1)
  BY <1>7
<1>12. DOMAIN at = A /\ \A d \in A : at[d] = Len(M[d]) + q
  <2> HIDE DEF q
  <2> QED  BY ONLY <1>9, <1>11, PositionsIs
<1>13. o \in A /\ A \subseteq Objs /\ M[o] = <<>>
  <2>1. WithOther(parent, D, o, A, M, e)
    BY ONLY <1>8, <1>9, EditingFacts
  <2> QED  BY ONLY <2>1 DEF WithOther
<1> HIDE DEF e, at, A, q
<1>14. ASSUME NEW d \in A
       PROVE  /\ propval'[d] \in Seq(Pval)
              /\ IsInsert(propval'[d], propval[d], Len(M[d]) + q, pv(d))
              /\ propval'[d][Len(M[d]) + q] = pv(d)
  <2>1. propval[d] \in Seq(Pval) /\ Len(M[d]) + q \in 1..(Len(propval[d]) + 1)
    BY ONLY <1>9, <1>11, d \in A, PlaceInside
  <2>2. propval'[d] = InsertAt(propval[d], Len(M[d]) + q, pv(d)) /\ pv(d) \in Pval
    BY <1>2, <1>6, <1>12, <1>13
  <2>3. /\ propval'[d] \in Seq(Pval)
        /\ IsInsert(propval'[d], propval[d], Len(M[d]) + q, pv(d))
    BY ONLY <2>1, <2>2, InsertAtIs
  <2> QED  BY <2>3 DEF IsInsert
<1>15. \A d \in Objs \ A : propval'[d] = propval[d]
  BY <1>2, <1>12
<1>16. propval' \in [Objs -> Seq(Pval)]
  <2>1. propval' = [d \in Objs |-> propval'[d]]
    BY <1>2
  <2>2. \A d \in Objs : propval'[d] \in Seq(Pval)
    BY <1>7, <1>14, <1>15
  <2> QED  BY <2>1, <2>2
<1>17. Grows(propval', propval, M, A, q, x)
  <2>1. \A d \in A : /\ IsInsert(propval'[d], propval[d], Len(M[d]) + q, propval'[d][Len(M[d]) + q])
                     /\ propval'[d][Len(M[d]) + q].def = x.def
    <3> TAKE d \in A
    <3>1. d \in Objs
      BY <1>13
    <3>2. pv(d).def = x.def
      BY <1>6, <3>1
    <3> QED  BY <1>14, <3>2
  <2> QED  BY <1>15, <1>16, <2>1 DEF Grows
<1>18. propval'[o][q].var # CLEAR
  <2>1. Len(M[o]) + q = q
    BY <1>11, <1>13
  <2>2. propval'[o][q] = pv(o)
    BY <1>13, <1>14, <2>1
  <2> QED  BY <1>3, <1>6, <2>2
<1>19. Valued(propdefs, propval)
  BY Types
<1>20. Sane(WithDefs(propdefs, o, e), parent, owner, propval')
  BY ONLY <1>8, <1>9, <1>10, <1>17, <1>18, <1>19, GrownSane DEF q
<1>21. \A y \in Objs : y \notin objs => propdefs'[y] = <<>>
  BY <1>2, <1>3, Types DEF WithDefs, IInv
<1> QED  BY <1>2, <1>20, <1>21 DEF IInv

LEMMA DeletePropdefIInv ==
  ASSUME IInv, DeletePropdef  PROVE IInv'
<1>1. PICK o \in objs, name \in Names :
        LET i  == SelectInSeq(propdefs[o], LAMBDA d : d.name = name)
            at == Positions(o, i)
        IN  /\ i # 0
            /\ propdefs' = [propdefs EXCEPT ![o] = RemoveAt(@, i)]
            /\ propval' = [d \in Objs |-> IF d \in DOMAIN at
                                          THEN RemoveAt(propval[d], at[d])
                                          ELSE propval[d]]
            /\ UNCHANGED <<objs, parent, owner, changes>>
  BY ZenonT(60) DEF DeletePropdef
<1> DEFINE q  == SelectInSeq(propdefs[o], LAMBDA d : d.name = name)
           at == Positions(o, q)
           e  == RemoveAt(propdefs[o], q)
           A  == AtOrBelow(parent, o)
<1>2. /\ q # 0
      /\ propdefs' = WithDefs(propdefs, o, e)
      /\ propval' = [d \in Objs |-> IF d \in DOMAIN at
                                    THEN RemoveAt(propval[d], at[d]) ELSE propval[d]]
      /\ UNCHANGED <<objs, parent, owner, changes>>
  BY <1>1 DEF WithDefs
<1>3. /\ o \in Objs /\ objs \subseteq Objs /\ propdefs[o] \in Seq(Propdef)
      /\ propval \in [Objs -> Seq(Pval)]
  BY Types DEF IInv
<1>4. q \in 1..Len(propdefs[o])
  <2> DEFINE I == {i \in 1..Len(propdefs[o]) : propdefs[o][i].name = name}
  <2>1. q = IF I # {} THEN Min(I) ELSE 0
    BY DEF SelectInSeq
  <2>2. I \in SUBSET Nat
    OBVIOUS
  <2>3. I # {} => Min(I) \in I
    <3> HIDE DEF I
    <3> QED  BY <2>2, MinFacts
  <2>4. I # {}
    BY <1>2, <2>1
  <2> QED  BY <2>1, <2>3, <2>4
<1> HIDE DEF q
<1>5. q \in Nat
  BY <1>4
<1>6. e \in Seq(Propdef) /\ IsInsert(propdefs[o], e, q, propdefs[o][q])
  BY <1>3, <1>4, RemoveAtIs
<1>7. PICK D, M : Editing(parent, owner, propval, D, o, A, M) /\ Unique(D)
  BY <1>3, EditingExists
<1>8. DOMAIN at = A /\ \A d \in A : at[d] = Len(M[d]) + q
  BY ONLY <1>5, <1>7, PositionsIs
<1>9. o \in A /\ A \subseteq Objs
  <2>1. WithOther(parent, D, o, A, M, e)
    BY ONLY <1>6, <1>7, EditingFacts
  <2> QED  BY ONLY <2>1 DEF WithOther
<1> HIDE DEF e, at, A
<1>10. ASSUME NEW d \in A
       PROVE  /\ propval'[d] \in Seq(Pval)
              /\ IsInsert(propval[d], propval'[d], Len(M[d]) + q, propval[d][Len(M[d]) + q])
  <2>1. propval[d] \in Seq(Pval) /\ Len(M[d]) + q \in 1..Len(propval[d])
    BY ONLY <1>4, <1>5, <1>7, d \in A, PlaceInside
  <2>2. propval'[d] = RemoveAt(propval[d], Len(M[d]) + q)
    BY <1>2, <1>8, <1>9
  <2> QED  BY ONLY <2>1, <2>2, RemoveAtIs
<1>11. \A d \in Objs \ A : propval'[d] = propval[d]
  BY <1>2, <1>8
<1>12. propval' \in [Objs -> Seq(Pval)]
  <2>1. propval' = [d \in Objs |-> propval'[d]]
    BY <1>2
  <2>2. \A d \in Objs : propval'[d] \in Seq(Pval)
    BY <1>3, <1>10, <1>11
  <2> QED  BY <2>1, <2>2
<1>13. Shrinks(propval', propval, M, A, q)
  BY <1>10, <1>11, <1>12 DEF Shrinks
<1>14. Valued(propdefs, propval)
  BY Types
<1>15. Sane(WithDefs(propdefs, o, e), parent, owner, propval')
  BY ONLY <1>6, <1>7, <1>13, <1>14, ShrunkSane
<1>16. \A y \in Objs : y \notin objs => propdefs'[y] = <<>>
  BY <1>2, <1>3, Types DEF WithDefs, IInv
<1> QED  BY <1>2, <1>15, <1>16 DEF IInv

LEMMA RenamePropIInv ==
  ASSUME IInv, RenameProp  PROVE IInv'
<1>1. PICK o \in objs, w \in Owners, c \in BOOLEAN, name \in Names :
        \E i \in DOMAIN propdefs[o] :
          /\ Change
          /\ w \in objs
          /\ MayRename(o, i, name)
          /\ propdefs' = [propdefs EXCEPT ![o][i].name = name]
          /\ propval' = [propval EXCEPT ![o][i].owner = w, ![o][i].chown = c]
          /\ UNCHANGED <<objs, parent, owner>>
  BY ZenonT(60) DEF RenameProp
<1>2. PICK i \in DOMAIN propdefs[o] :
        /\ Change
        /\ w \in objs
        /\ MayRename(o, i, name)
        /\ propdefs' = [propdefs EXCEPT ![o][i].name = name]
        /\ propval' = [propval EXCEPT ![o][i].owner = w, ![o][i].chown = c]
        /\ UNCHANGED <<objs, parent, owner>>
  BY <1>1
<1> DEFINE x == propdefs[o][i]
           y == [x EXCEPT !.name = name]
           e == [propdefs[o] EXCEPT ![i] = y]
           u == RemoveAt(propdefs[o], i)
           A == AtOrBelow(parent, o)
           r == [propval[o][i] EXCEPT !.owner = w, !.chown = c]
<1>3. /\ o \in Objs /\ w \in Objs /\ objs \subseteq Objs /\ propdefs[o] \in Seq(Propdef)
      /\ propdefs \in [Objs -> Seq(Propdef)] /\ propval \in [Objs -> Seq(Pval)]
      /\ propval[o] \in Seq(Pval) /\ owner \in [Objs -> Objs \cup {NOTHING}]
  BY <1>2, Types DEF IInv
<1>4. i \in 1..Len(propdefs[o])
  BY <1>3
<1>5. x \in Propdef /\ y \in Propdef /\ y.name = name /\ y.def = x.def
  <2>1. x \in Propdef
    BY <1>3, <1>4
  <2> HIDE DEF x
  <2> QED  BY <2>1 DEF Propdef
<1>6. propdefs' = WithDefs(propdefs, o, e)
  BY <1>2 DEF WithDefs
<1> HIDE DEF y
<1>7. /\ e \in Seq(Propdef) /\ Len(e) = Len(propdefs[o]) /\ e[i] = y
      /\ \A k \in 1..Len(propdefs[o]) : k # i => e[k] = propdefs[o][k]
  BY <1>3, <1>4, <1>5, ExceptSeq
<1>8. u \in Seq(Propdef) /\ IsInsert(propdefs[o], u, i, x)
  BY <1>3, <1>4, RemoveAtIs
<1> HIDE DEF e, u, x
<1>9. IsInsert(e, u, i, y)
  <2>1. /\ Len(u) \in Nat /\ Len(propdefs[o]) = Len(u) + 1
        /\ \A k \in 1..(i - 1) : propdefs[o][k] = u[k]
        /\ \A k \in i..Len(u) : propdefs[o][k + 1] = u[k]
    BY <1>8 DEF IsInsert
  <2>2. \A k \in 1..(i - 1) : e[k] = u[k]
    <3> TAKE k \in 1..(i - 1)
    <3>1. k \in 1..Len(propdefs[o]) /\ k # i
      BY <1>4, <2>1
    <3> QED  BY <1>7, <2>1, <3>1
  <2>3. \A k \in i..Len(u) : e[k + 1] = u[k]
    <3> TAKE k \in i..Len(u)
    <3>1. k + 1 \in 1..Len(propdefs[o]) /\ k + 1 # i
      BY <1>4, <2>1
    <3> QED  BY <1>7, <2>1, <3>1
  <2> QED  BY <1>4, <1>7, <2>1, <2>2, <2>3 DEF IsInsert
<1>10. PICK D, M : Editing(parent, owner, propval, D, o, A, M) /\ Unique(D)
  BY <1>3, EditingExists
<1>11. Sane(WithDefs(propdefs, o, e), parent, owner, propval)
  <2>1. CASE x.name = name
    <3>1. y = x
      BY <1>5, <2>1 DEF Propdef, y
    <3>2. e = propdefs[o]
      BY <1>3, <3>1 DEF e, x
    <3>3. WithDefs(propdefs, o, e) = propdefs
      BY <1>3, <3>2 DEF WithDefs
    <3> QED  BY <3>3 DEF IInv
  <2>2. CASE x.name # name
    <3>1. FindProperty(parent, o, name) = 0 /\ ~PropertyDefinedAtOrBelow(name, o)
      BY <1>2, <2>2 DEF MayRename, x
    <3>2. \A d \in A : Lacks(D[d], name)
      BY ONLY <1>10, <3>1, NewName
    <3>3. \A d \in A : Lacks(D[d], y.name)
      BY <1>5, <3>2
    <3>4. Valued(propdefs, propval)
      BY Types
    <3>5. x.def = y.def
      BY <1>5
    <3> QED  BY ONLY <1>7, <1>8, <1>9, <1>10, <3>3, <3>4, <3>5, RenamedSane
  <2> QED  BY <2>1, <2>2
<1>12. i \in 1..Len(propval[o])
  <2>1. i \in Nat /\ Len(M[o]) + i \in 1..Len(propval[o])
    <3>1. i \in Nat /\ o \in A
      <4>1. WithOther(parent, D, o, A, M, e)
        BY ONLY <1>7, <1>10, EditingFacts
      <4> QED  BY <1>4, <4>1 DEF WithOther
    <3> QED  BY ONLY <1>4, <1>10, <3>1, PlaceInside
  <2>2. Len(M[o]) = 0
    <3>1. WithOther(parent, D, o, A, M, e)
      BY ONLY <1>7, <1>10, EditingFacts
    <3> QED  BY <3>1 DEF WithOther
  <2> QED  BY <2>1, <2>2
<1>13. propval[o][i] \in Pval
  BY <1>3, <1>12
<1>14. propval' = [propval EXCEPT ![o] = [@ EXCEPT ![i] = r]]
  <2> DEFINE s == [propval[o] EXCEPT ![i] = [propval[o][i] EXCEPT !.owner = w]]
             v1 == [propval EXCEPT ![o] = s]
  <2>1. propval' = [v1 EXCEPT ![o] = [v1[o] EXCEPT ![i] = [v1[o][i] EXCEPT !.chown = c]]]
    BY <1>2
  <2>2. v1[o] = s /\ s[i] = [propval[o][i] EXCEPT !.owner = w]
    <3>1. v1[o] = s
      BY ONLY <1>3
    <3>2. DOMAIN propval[o] = 1..Len(propval[o])
      BY ONLY <1>3
    <3>3. s[i] = [propval[o][i] EXCEPT !.owner = w]
      BY ONLY <1>12, <3>2
    <3> QED  BY ONLY <3>1, <3>3
  <2>3. [s[i] EXCEPT !.chown = c] = r
    BY <1>13, <2>2 DEF Pval
  <2>4. [s EXCEPT ![i] = r] = [propval[o] EXCEPT ![i] = r]
    BY <1>3, <1>12
  <2>5. propval' = [v1 EXCEPT ![o] = [s EXCEPT ![i] = r]]
    BY <2>1, <2>2, <2>3
  <2> HIDE DEF s, r
  <2> QED  BY <1>3, <2>4, <2>5
<1>15. r \in Pval /\ r.def = propval[o][i].def /\ r.var = propval[o][i].var
  BY <1>3, <1>13 DEF Pval
<1> HIDE DEF r
<1>16. /\ propval' \in [Objs -> Seq(Pval)]
       /\ \A z \in Objs :
            /\ Len(propval'[z]) = Len(propval[z])
            /\ \A k \in 1..Len(propval[z]) :
                 /\ propval'[z][k].def = propval[z][k].def
                 /\ propval'[z][k].var # propval[z][k].var
                      => z = o /\ k = i /\ propval'[z][k].var = r.var
  BY ONLY <1>3, <1>12, <1>14, <1>15, SetSlot
<1>17. KeepsPlaces(WithDefs(propdefs, o, e), propval, propval')
  <2>1. \A z \in Objs : \A k \in 1..Len(propval[z]) : propval'[z][k].var = propval[z][k].var
    BY ONLY <1>15, <1>16
  <2> QED  BY ONLY <1>16, <2>1 DEF KeepsPlaces
<1>18. Sane(WithDefs(propdefs, o, e), parent, owner, propval')
  BY ONLY <1>3, <1>11, <1>16, <1>17, Edited
<1>19. \A z \in Objs : z \notin objs => propdefs'[z] = <<>>
  BY <1>3, <1>6 DEF WithDefs, IInv
<1>20. changes' \in 0..MaxChanges
  BY <1>2, BoundsAssumption DEF Change, IInv
<1> QED  BY <1>2, <1>6, <1>18, <1>19, <1>20 DEF IInv

-----------------------------------------------------------------------------
(* The theorems *)

LEMMA NextIInv ==
  IInv /\ [Next]_vars => IInv'
<1> SUFFICES ASSUME IInv, [Next]_vars  PROVE IInv'
  OBVIOUS
<1>1. CASE UNCHANGED vars
  BY <1>1 DEF vars, IInv
<1> QED
  BY <1>1, CreateIInv, ChparentIInv, RecycleIInv, RenumberIInv, SetOwnerIInv, AddPropdefIInv,
     DeletePropdefIInv, RenamePropIInv, SetPropInfoIInv, ClearPropIInv, PutPropIInv
     DEF Next

\* The inductive invariant holds in every reachable state, for any objects, names,
\* values and bounds: create(), chparent(), recycle(), renumber() and the functions of
\* property.c keep the values of all objects in step with the definitions.
THEOREM Invariance == Spec => []IInv
<1>1. Init => IInv
  BY InitIInv
<1>2. IInv /\ [Next]_vars => IInv'
  BY NextIInv
<1> QED  BY <1>1, <1>2, PTL DEF Spec

\* What DefsOf() is in a state that the invariant allows.
LEMMA InStep ==
  ASSUME IInv
  PROVE  \E D : /\ IsDefs(D, propdefs, parent) /\ Matches(propval, D) /\ Unique(D)
                /\ \A o \in Objs : DefsOf(parent, o) = D[o]
<1>1. PICK D : IsDefs(D, propdefs, parent) /\ Matches(propval, D) /\ Unique(D)
  BY Types
<1>2. ASSUME NEW o \in Objs  PROVE DefsOf(parent, o) = D[o]
  <2>1. DefsOf(parent, o) = OfParent(D, o)
    BY <1>1, Types, DefsOfIs
  <2> QED  BY <2>1, NothingAssumption DEF OfParent
<1> QED  BY <1>1, <1>2

\* The state has its types, and a number without an object has nothing: recycle() and
\* renumber() leave nothing behind.
THEOREM TypeCorrect == Spec => []TypeOK
<1>1. ASSUME IInv  PROVE TypeOK
  <2>1. PICK D : IsDefs(D, propdefs, parent) /\ Matches(propval, D)
    BY <1>1, InStep
  <2>2. ASSUME NEW o \in Objs, o \notin objs  PROVE propval[o] = <<>>
    <3>1. parent[o] = NOTHING /\ propdefs[o] = <<>>
      BY <1>1, <2>2 DEF IInv
    <3>2. D[o] = <<>>
      BY <2>1, <3>1 DEF IsDefs
    <3>3. Len(propval[o]) = 0 /\ propval[o] \in Seq(Pval)
      BY <1>1, <2>1, <3>2, Types DEF Matches
    <3> QED  BY <3>3, EmptySeq
  <2>3. ASSUME NEW o \in Objs
        PROVE  ToSet(propdefs[o]) \subseteq Propdef /\ ToSet(propval[o]) \subseteq Pval
    BY <1>1, Types DEF ToSet
  <2>4. \A o \in Objs : parent[o] \in objs \cup {NOTHING} /\ owner[o] \in Objs \cup {NOTHING}
    BY <1>1, Types DEF IInv
  <2> QED  BY <1>1, <2>2, <2>3, <2>4 DEF TypeOK, IInv
<1> QED  BY <1>1, Invariance, PTL

\* Every object has one value for every property it defines or inherits, at the place
\* where db_find_property() looks for it, whatever was defined, deleted, moved or
\* recycled before: insert_prop(), remove_prop() and fix_props() move the values of a
\* whole subtree in step with the definitions.
THEOREM ValuesInStep == Spec => []SlotsMatch
<1>1. ASSUME IInv  PROVE SlotsMatch
  <2>1. PICK D : /\ IsDefs(D, propdefs, parent) /\ Matches(propval, D)
                 /\ \A o \in Objs : DefsOf(parent, o) = D[o]
    BY <1>1, InStep
  <2>2. ASSUME NEW o \in objs
        PROVE  [i \in DOMAIN propval[o] |-> propval[o][i].def]
                 = [i \in DOMAIN DefsOf(parent, o) |-> DefsOf(parent, o)[i].def]
    <3>1. o \in Objs
      BY <1>1 DEF IInv
    <3>2. /\ propval[o] \in Seq(Pval) /\ D[o] \in Seq(Propdef) /\ DefsOf(parent, o) = D[o]
          /\ Len(propval[o]) = Len(D[o]) /\ \A i \in 1..Len(D[o]) : propval[o][i].def = D[o][i].def
      BY <1>1, <2>1, <3>1, Types DEF IsDefs, Matches
    <3>3. DOMAIN propval[o] = 1..Len(D[o]) /\ DOMAIN D[o] = 1..Len(D[o])
      BY <3>2, LenProperties
    <3> QED  BY <3>2, <3>3
  <2> QED  BY <2>2 DEF SlotsMatch
<1> QED  BY <1>1, Invariance, PTL

\* No object ever has two properties of one name, so that a name finds at most one
\* slot: the checks of add_property(), set_property_info(), chparent() and recycle()
\* are enough.
THEOREM NamesStayUnique == Spec => []NamesUnique
<1>1. ASSUME IInv  PROVE NamesUnique
  <2>1. PICK D : /\ IsDefs(D, propdefs, parent) /\ Unique(D)
                 /\ \A o \in Objs : DefsOf(parent, o) = D[o]
    BY <1>1, InStep
  <2>2. ASSUME NEW o \in objs
        PROVE  \A i, j \in DOMAIN DefsOf(parent, o) :
                 DefsOf(parent, o)[i].name = DefsOf(parent, o)[j].name => i = j
    <3>1. o \in Objs
      BY <1>1 DEF IInv
    <3>2. D[o] \in Seq(Propdef) /\ DefsOf(parent, o) = D[o] /\ UniqueNames(D[o])
      BY <2>1, <3>1 DEF IsDefs, Unique
    <3>3. DOMAIN D[o] = 1..Len(D[o])
      BY <3>2, LenProperties
    <3> QED  BY <3>2, <3>3 DEF UniqueNames
  <2> QED  BY <2>2 DEF NamesUnique
<1> QED  BY <1>1, Invariance, PTL

\* The search for a value that is not CLEAR ends at the object that defines the
\* property: clear_property() refuses there, and no value is cleared when values move.
THEOREM SearchesEnd == Spec => []ClearEnds
<1>1. ASSUME IInv  PROVE ClearEnds
  <2>1. ASSUME NEW o \in objs, NEW i \in DOMAIN propdefs[o]  PROVE propval[o][i].var # CLEAR
    <3>1. o \in Objs /\ propdefs[o] \in Seq(Propdef) /\ Valued(propdefs, propval)
      BY <1>1, Types DEF IInv
    <3>2. i \in 1..Len(propdefs[o])
      BY <3>1
    <3> QED  BY <3>1, <3>2 DEF Valued
  <2> QED  BY <2>1 DEF ClearEnds
<1> QED  BY <1>1, Invariance, PTL

\* The first definitions of an object are its own.
OwnAt(D, defs, x, i) == i \in 1..Len(D[x]) /\ D[x][i] = defs[x][i]

LEMMA OwnFirst ==
  \A par, defs, D, x, i :
    /\ Forest(par) /\ defs \in [Objs -> Seq(Propdef)] /\ IsDefs(D, defs, par)
    /\ x \in Objs /\ i \in 1..Len(defs[x])
    => OwnAt(D, defs, x, i)
<1> TAKE par, defs, D, x, i
<1> HAVE /\ Forest(par) /\ defs \in [Objs -> Seq(Propdef)] /\ IsDefs(D, defs, par)
         /\ x \in Objs /\ i \in 1..Len(defs[x])
<1> USE DEF OwnAt
<1>1. D[x] = IF par[x] = NOTHING THEN defs[x] ELSE defs[x] \o D[par[x]]
  BY DEF IsDefs
<1>2. CASE par[x] = NOTHING
  BY <1>1, <1>2
<1>3. CASE par[x] # NOTHING
  <2>1. defs[x] \in Seq(Propdef) /\ D[par[x]] \in Seq(Propdef)
    BY <1>3 DEF IsDefs, Forest, Parents
  <2>2. /\ Len(defs[x]) \in Nat /\ Len(D[par[x]]) \in Nat
        /\ Len(defs[x] \o D[par[x]]) = Len(defs[x]) + Len(D[par[x]])
        /\ \A k \in 1..Len(defs[x]) : (defs[x] \o D[par[x]])[k] = defs[x][k]
    BY ONLY <2>1, DefsConcat
  <2>3. D[x] = defs[x] \o D[par[x]]
    BY <1>1, <1>3
  <2>4. \A a, b \in Nat : \A k \in 1..a : k \in 1..(a + b)
    OBVIOUS
  <2>5. i \in 1..(Len(defs[x]) + Len(D[par[x]]))
    BY ONLY <2>2, <2>4, i \in 1..Len(defs[x])
  <2> QED  BY ONLY <2>2, <2>3, <2>5, i \in 1..Len(defs[x])
<1> QED  BY <1>2, <1>3

\* What is below c is below c's parent, and is not that parent.
LEMMA BelowParent ==
  ASSUME NEW par, Forest(par), NEW c \in Objs, NEW p \in Objs, par[c] = p,
         NEW B, IsBelow(B, par, c), NEW A, IsBelow(A, par, p)
  PROVE  B \subseteq A \ {p}
<1>1. p \notin B
  BY ParentNotBelow
<1> DEFINE T == {d \in Objs : d \in B => d \in A}
<1>2. ASSUME NEW d \in Objs, par[d] # NOTHING => par[d] \in T  PROVE d \in T
  <2> SUFFICES ASSUME d \in B  PROVE d \in A
    OBVIOUS
  <2>1. CASE d = c
    BY <2>1 DEF IsBelow
  <2>2. CASE d # c
    <3>1. par[d] \in B /\ par[d] \in Objs /\ par[d] # NOTHING
      BY <2>2, NothingAssumption DEF IsBelow
    <3> QED  BY <1>2, <3>1 DEF IsBelow
  <2> QED  BY <2>1, <2>2
<1>3. T = Objs
  <2>1. T \in SUBSET Objs
    OBVIOUS
  <2> HIDE DEF T
  <2> QED  BY <1>2, <2>1, Downwards
<1> QED  BY <1>1, <1>3 DEF IsBelow

\* A child is never refused by its grandparent: recycle() can give every child away,
\* and its loop over the children ends.
THEOREM GrandparentsAccept == Spec => []GrandparentAccepts
<1>1. ASSUME IInv  PROVE GrandparentAccepts
  <2> SUFFICES ASSUME NEW c \in objs, parent[c] # NOTHING,
                      NEW i \in DOMAIN DefsOf(parent, parent[parent[c]]),
                      NEW d \in AtOrBelow(parent, c), NEW k \in DOMAIN propdefs[d],
                      propdefs[d][k].name = DefsOf(parent, parent[parent[c]])[i].name
               PROVE  FALSE
    BY DEF GrandparentAccepts, CheckPropertiesForChparent, PropertyDefinedAtOrBelow, DefinedHere
  <2> DEFINE p == parent[c]
             A == AtOrBelow(parent, p)
             B == AtOrBelow(parent, c)
             r == DefsOf(parent, parent[p])
             pd == propdefs[p]
  <2>1. /\ c \in Objs /\ p \in Objs /\ parent[p] \in Objs \cup {NOTHING} /\ Forest(parent)
        /\ propdefs \in [Objs -> Seq(Propdef)]
    BY <1>1, Types DEF IInv, Parents
  <2>2. PICK D, M : Editing(parent, owner, propval, D, p, A, M) /\ Unique(D)
    BY <1>1, <2>1, EditingExists
  <2>3. IsDefs(D, propdefs, parent)
    BY <2>2 DEF Editing, Aligned
  <2>4. r = OfParent(D, parent[p])
    BY <2>1, <2>3, DefsOfIs
  <2>5. IsBelow(A, parent, p) /\ IsBelow(B, parent, c)
    BY <2>1, AtOrBelowIs
  <2>6. B \subseteq A \ {p}
    <3> HIDE DEF A, B
    <3> QED  BY SMTT(30), <2>1, <2>5, BelowParent
  <2>7. d \in A /\ d # p /\ d \in Objs
    BY <2>5, <2>6 DEF IsBelow
  <2>8. /\ M[d] \in Seq(Propdef) /\ D[d] = M[d] \o (pd \o r) /\ pd \in Seq(Propdef)
        /\ r \in Seq(Propdef) /\ Len(propdefs[d]) \in Nat /\ Len(propdefs[d]) <= Len(M[d])
    <3>1. <<>> \in Seq(Propdef)
      OBVIOUS
    <3>2. WithOther(parent, D, p, A, M, <<>>)
      BY ONLY <2>2, <3>1, EditingFacts
    <3> QED  BY ONLY <2>4, <2>7, <3>2 DEF WithOther
  <2>9. k \in 1..Len(propdefs[d]) /\ i \in 1..Len(r)
    <3>1. propdefs[d] \in Seq(Propdef)
      BY <2>1, <2>7
    <3> QED  BY <2>8, <3>1
  <2>10. propdefs[d][k].name = r[i].name
    OBVIOUS
  <2> HIDE DEF p, A, B, r, pd
  <2>11. k \in Nat
    BY <2>9
  <2>12. k \in 1..Len(D[d]) /\ D[d][k] = propdefs[d][k]
    <3>1. OwnAt(D, propdefs, d, k)
      BY ONLY <2>1, <2>3, <2>7, <2>9, OwnFirst
    <3> QED  BY ONLY <3>1 DEF OwnAt
  <2> DEFINE j == Len(M[d]) + Len(pd) + i
  <2>13. /\ Len(M[d] \o (pd \o r)) = Len(M[d]) + Len(pd) + Len(r)
         /\ (M[d] \o (pd \o r))[j] = r[i]
    <3>1. /\ Len(M[d] \o (pd \o r)) = Len(M[d]) + Len(pd) + Len(r)
          /\ \A l \in 1..Len(r) : (M[d] \o (pd \o r))[Len(M[d]) + Len(pd) + l] = r[l]
      <4> DEFINE m == M[d]
      <4>1. m \in Seq(Propdef) /\ pd \in Seq(Propdef) /\ r \in Seq(Propdef)
        BY <2>8
      <4> HIDE DEF m, j
      <4>2. /\ Len(m \o (pd \o r)) = Len(m) + Len(pd) + Len(r)
            /\ \A l \in 1..Len(r) : (m \o (pd \o r))[Len(m) + Len(pd) + l] = r[l]
        BY ONLY <4>1, Concat3
      <4> QED  BY ONLY <4>2 DEF m
    <3>2. i \in 1..Len(r)
      BY ONLY <2>9
    <3> QED  BY ONLY <3>1, <3>2
  <2>14. Len(M[d]) \in Nat /\ Len(pd) \in Nat /\ Len(r) \in Nat
    BY <2>8
  <2>15. j \in 1..(Len(M[d]) + Len(pd) + Len(r)) /\ k # j
    BY ONLY SMTT(30), <2>8, <2>9, <2>14
  <2> HIDE DEF j
  <2>16. j \in 1..Len(D[d]) /\ D[d][j] = r[i]
    BY ONLY <2>8, <2>13, <2>15
  <2>17. UniqueNames(D[d])
    BY <2>2, <2>7 DEF Unique
  <2>18. D[d][k].name = D[d][j].name
    BY ONLY <2>10, <2>12, <2>16
  <2> QED  BY ONLY <2>12, <2>15, <2>16, <2>17, <2>18 DEF UniqueNames
<1> QED  BY <1>1, Invariance, PTL

-----------------------------------------------------------------------------
(* Marks *)

\* No two definitions have one mark.
MarksApart(defs) ==
  \A x, y \in Objs : \A i \in 1..Len(defs[x]), j \in 1..Len(defs[y]) :
    defs[x][i].def = defs[y][j].def => x = y /\ i = j

UniqueMarks(s) == \A i, j \in 1..Len(s) : s[i].def = s[j].def => i = j

\* No mark of s is a mark of t.
MarksDiffer(s, t) == \A i \in 1..Len(s), j \in 1..Len(t) : s[i].def # t[j].def

LEMMA MarksConcat ==
  \A s, t \in Seq(Propdef) :
    UniqueMarks(s) /\ UniqueMarks(t) /\ MarksDiffer(s, t) => UniqueMarks(s \o t)
<1> TAKE s, t \in Seq(Propdef)
<1> HAVE UniqueMarks(s) /\ UniqueMarks(t) /\ MarksDiffer(s, t)
<1> DEFINE m == Len(s)
           n == Len(t)
           r == s \o t
<1>1. /\ m \in Nat /\ n \in Nat /\ Len(r) = m + n
      /\ \A i \in 1..m : r[i] = s[i]
      /\ \A i \in 1..n : r[m + i] = t[i]
  BY DefsConcat
<1> HIDE DEF r
<1> SUFFICES ASSUME NEW i \in 1..(m + n), NEW j \in 1..(m + n), r[i].def = r[j].def
             PROVE  i = j
  BY <1>1 DEF UniqueMarks, r
<1>2. ASSUME NEW k \in 1..(m + n)
      PROVE  \/ k \in 1..m /\ r[k] = s[k]
             \/ \E l \in 1..n : k = m + l /\ r[k] = t[l]
  <2>1. CASE k <= m
    BY <1>1, <2>1
  <2>2. CASE ~ k <= m
    <3>1. k - m \in 1..n /\ m + (k - m) = k
      BY <1>1, <2>2
    <3> QED  BY <1>1, <3>1
  <2> QED  BY <2>1, <2>2
<1>3. CASE i \in 1..m /\ r[i] = s[i] /\ j \in 1..m /\ r[j] = s[j]
  BY <1>3 DEF UniqueMarks
<1>4. CASE i \in 1..m /\ r[i] = s[i] /\ \E l \in 1..n : j = m + l /\ r[j] = t[l]
  BY <1>4 DEF MarksDiffer
<1>5. CASE (\E l \in 1..n : i = m + l /\ r[i] = t[l]) /\ j \in 1..m /\ r[j] = s[j]
  BY <1>5 DEF MarksDiffer
<1>6. CASE /\ \E l \in 1..n : i = m + l /\ r[i] = t[l]
           /\ \E l \in 1..n : j = m + l /\ r[j] = t[l]
  BY <1>6 DEF UniqueMarks
<1> QED  BY <1>2, <1>3, <1>4, <1>5, <1>6

\* Definitions of different objects have different marks.
LEMMA FromDiffer ==
  \A defs, s, t, S, T :
    /\ MarksApart(defs) /\ From(s, defs, S) /\ From(t, defs, T)
    /\ S \subseteq Objs /\ T \subseteq Objs /\ S \cap T = {}
    => MarksDiffer(s, t)
<1> SUFFICES ASSUME NEW defs, NEW s, NEW t, NEW S, NEW T, MarksApart(defs),
                    From(s, defs, S), From(t, defs, T),
                    S \subseteq Objs, T \subseteq Objs, S \cap T = {},
                    NEW i \in 1..Len(s), NEW j \in 1..Len(t), s[i].def = t[j].def
             PROVE  FALSE
  BY DEF MarksDiffer
<1>1. PICK x \in S : \E k \in 1..Len(defs[x]) : s[i] = defs[x][k]
  BY DEF From
<1>2. PICK y \in T : \E k \in 1..Len(defs[y]) : t[j] = defs[y][k]
  BY DEF From
<1>3. x = y
  BY <1>1, <1>2 DEF MarksApart
<1> QED  BY <1>3

\* No object has two definitions of one mark.
LEMMA MarksOfPath ==
  ASSUME NEW par, Forest(par), NEW defs \in [Objs -> Seq(Propdef)],
         NEW D, IsDefs(D, defs, par), MarksApart(defs), NEW o \in Objs
  PROVE  UniqueMarks(D[o])
<1> DEFINE U == {y \in Objs : UniqueMarks(D[y])}
<1>1. ASSUME NEW y \in Objs, par[y] # NOTHING => par[y] \in U  PROVE y \in U
  <2>1. UniqueMarks(defs[y])
    BY DEF MarksApart, UniqueMarks
  <2>2. CASE par[y] = NOTHING
    BY <2>1, <2>2 DEF IsDefs
  <2>3. CASE par[y] # NOTHING
    <3>1. par[y] \in Objs /\ UniqueMarks(D[par[y]])
      BY <1>1, <2>3
    <3>2. From(defs[y], defs, {y}) /\ From(D[par[y]], defs, Above(par, par[y]))
      BY <3>1, FromOwn, FromAbove
    <3>3. y \notin Above(par, par[y])
      <4>1. IsBelow(AtOrBelow(par, y), par, y)
        BY AtOrBelowIs
      <4>2. par[y] \notin AtOrBelow(par, y)
        BY <4>1, ParentNotBelow
      <4> QED  BY <3>1, <4>2 DEF AtOrBelow, Above
    <3>4. {y} \cap Above(par, par[y]) = {} /\ {y} \subseteq Objs /\ Above(par, par[y]) \subseteq Objs
      BY <3>3 DEF Above
    <3>5. MarksDiffer(defs[y], D[par[y]])
      BY ONLY MarksApart(defs), <3>2, <3>4, FromDiffer
    <3>6. defs[y] \in Seq(Propdef) /\ D[par[y]] \in Seq(Propdef)
      BY <3>1 DEF IsDefs
    <3>7. UniqueMarks(defs[y] \o D[par[y]])
      BY ONLY <2>1, <3>1, <3>5, <3>6, MarksConcat
    <3> QED  BY <2>3, <3>7 DEF IsDefs
  <2> QED  BY <2>2, <2>3
<1>2. U = Objs
  <2>1. U \in SUBSET Objs
    OBVIOUS
  <2> HIDE DEF U
  <2> QED  BY <1>1, <2>1, Downwards
<1> QED  BY <1>2

\* Each definition in e has the mark of one of o, or a new mark.
HasMarks(e, defs, o) ==
  \A i \in 1..Len(e) :
    \/ \E k \in 1..Len(defs[o]) : defs[o][k].def = e[i].def
    \/ \A x \in Objs : \A k \in 1..Len(defs[x]) : defs[x][k].def # e[i].def

\* One object has other definitions.
LEMMA MarksEdited ==
  \A defs, defs2, o, e :
    /\ MarksApart(defs) /\ o \in Objs /\ defs2[o] = e /\ UniqueMarks(e)
    /\ \A x \in Objs : x # o => defs2[x] = defs[x]
    /\ HasMarks(e, defs, o)
    => MarksApart(defs2)
<1> TAKE defs, defs2, o, e
<1> HAVE /\ MarksApart(defs) /\ o \in Objs /\ defs2[o] = e /\ UniqueMarks(e)
         /\ \A x \in Objs : x # o => defs2[x] = defs[x]
         /\ HasMarks(e, defs, o)
<1> USE DEF HasMarks
<1>1. ASSUME NEW x \in Objs, x # o, NEW i \in 1..Len(defs2[x]), NEW j \in 1..Len(e),
             defs2[x][i].def = e[j].def
      PROVE  FALSE
  <2>1. defs2[x] = defs[x]
    BY <1>1
  <2>2. \E k \in 1..Len(defs[o]) : defs[o][k].def = e[j].def
    BY <1>1, <2>1
  <2> QED  BY <1>1, <2>1, <2>2 DEF MarksApart
<1>2. ASSUME NEW x \in Objs, NEW y \in Objs, NEW i \in 1..Len(defs2[x]),
             NEW j \in 1..Len(defs2[y]), defs2[x][i].def = defs2[y][j].def
      PROVE  x = y /\ i = j
  <2>1. CASE x = o /\ y = o
    BY <1>2, <2>1 DEF UniqueMarks
  <2>2. CASE x = o /\ y # o
    BY <1>1, <1>2, <2>2
  <2>3. CASE x # o /\ y = o
    BY <1>1, <1>2, <2>3
  <2>4. CASE x # o /\ y # o
    BY <1>2, <2>4 DEF MarksApart
  <2> QED  BY <2>1, <2>2, <2>3, <2>4
<1> QED  BY <1>2 DEF MarksApart

\* The marks in a state.
Marked == IInv /\ MarksApart(propdefs)

LEMMA InitMarked ==
  Init => Marked
<1> SUFFICES ASSUME Init  PROVE Marked
  OBVIOUS
<1>1. \A x \in Objs : Len(propdefs[x]) = 0
  BY DEF Init
<1>2. MarksApart(propdefs)
  BY <1>1 DEF MarksApart
<1> QED  BY <1>2, InitIInv DEF Marked

LEMMA RecycleMarks ==
  ASSUME Marked, Recycle  PROVE MarksApart(propdefs')
<1>1. PICK o \in objs : propdefs' = [propdefs EXCEPT ![o] = <<>>]
  BY DEF Recycle
<1>2. /\ o \in Objs /\ propdefs \in [Objs -> Seq(Propdef)] /\ MarksApart(propdefs)
  BY Types DEF Marked, IInv
<1> DEFINE e == <<>>
<1>3. UniqueMarks(e) /\ HasMarks(e, propdefs, o)
  BY DEF UniqueMarks, HasMarks
<1>4. propdefs'[o] = e /\ \A x \in Objs : x # o => propdefs'[x] = propdefs[x]
  BY <1>1, <1>2
<1> HIDE DEF e
<1> QED  BY ONLY <1>2, <1>3, <1>4, MarksEdited

LEMMA RenumberMarks ==
  ASSUME Marked, Renumber  PROVE MarksApart(propdefs')
<1>1. PICK old \in objs, new \in Objs \ objs :
        LET was(x)  == IF x = new THEN old ELSE IF x = old THEN new ELSE x
        IN  propdefs' = [x \in Objs |-> propdefs[was(x)]]
  BY ZenonT(60) DEF Renumber
<1> DEFINE was(x)  == IF x = new THEN old ELSE IF x = old THEN new ELSE x
<1>2. propdefs' = [x \in Objs |-> propdefs[was(x)]]
  BY <1>1
<1>3. old \in Objs /\ new \in Objs /\ old # new /\ MarksApart(propdefs)
  BY DEF Marked, IInv
<1>4. \A x \in Objs : was(x) \in Objs /\ was(was(x)) = x
  BY <1>3
<1> HIDE DEF was
<1>5. ASSUME NEW x \in Objs, NEW y \in Objs, NEW i \in 1..Len(propdefs'[x]),
             NEW j \in 1..Len(propdefs'[y]), propdefs'[x][i].def = propdefs'[y][j].def
      PROVE  x = y /\ i = j
  <2>1. propdefs'[x] = propdefs[was(x)] /\ propdefs'[y] = propdefs[was(y)]
    BY <1>2
  <2>2. was(x) = was(y) /\ i = j
    BY <1>3, <1>4, <1>5, <2>1 DEF MarksApart
  <2> QED  BY <1>4, <2>2
<1> QED  BY <1>5 DEF MarksApart

LEMMA AddMarks ==
  ASSUME Marked, AddPropdef  PROVE MarksApart(propdefs')
<1>1. PICK o \in objs, name \in Names :
        LET used == UNION {{propdefs[x][i].def : i \in DOMAIN propdefs[x]} : x \in objs}
            def  == CHOOSE d \in Defs : d \notin used
        IN  /\ used # Defs
            /\ propdefs' = [propdefs EXCEPT ![o] = Append(@, [name |-> name, def |-> def])]
  BY ZenonT(60) DEF AddPropdef
<1> DEFINE used == UNION {{propdefs[x][i].def : i \in DOMAIN propdefs[x]} : x \in objs}
           def  == CHOOSE d \in Defs : d \notin used
           x    == [name |-> name, def |-> def]
           e    == Append(propdefs[o], x)
           n    == Len(propdefs[o])
<1>2. /\ o \in Objs /\ propdefs \in [Objs -> Seq(Propdef)] /\ MarksApart(propdefs)
      /\ objs \subseteq Objs /\ \A y \in Objs : y \notin objs => propdefs[y] = <<>>
  BY Types DEF Marked, IInv
<1>3. used # Defs /\ propdefs' = [propdefs EXCEPT ![o] = e]
  BY <1>1
<1>4. ASSUME NEW y \in Objs, NEW k \in 1..Len(propdefs[y])
      PROVE  propdefs[y][k].def \in used /\ propdefs[y][k].def \in Defs
  <2>1. y \in objs
    <3>1. CASE propdefs[y] = <<>>
      BY <3>1
    <3> QED  BY <1>2, <3>1
  <2>2. propdefs[y] \in Seq(Propdef)
    BY <1>2
  <2>3. k \in DOMAIN propdefs[y] /\ propdefs[y][k] \in Propdef
    BY <2>2
  <2> QED  BY <2>1, <2>3 DEF Propdef
<1>5. def \in Defs /\ def \notin used
  <2>1. used \subseteq Defs
    <3> SUFFICES ASSUME NEW y \in objs, NEW i \in DOMAIN propdefs[y]
                 PROVE  propdefs[y][i].def \in Defs
      OBVIOUS
    <3>1. y \in Objs /\ propdefs[y] \in Seq(Propdef)
      BY <1>2
    <3>2. i \in 1..Len(propdefs[y])
      BY <3>1
    <3> QED  BY <1>4, <3>1, <3>2
  <2>2. \E d \in Defs : d \notin used
    BY <1>3, <2>1
  <2> HIDE DEF used
  <2> QED  BY <2>2
<1> HIDE DEF def, used
<1>6. x.name = name /\ x.def = def /\ x \in [name : Names, def : Defs]
  BY <1>5
<1>7. x \in Propdef /\ propdefs[o] \in Seq(Propdef)
  BY <1>2, <1>6 DEF Propdef
<1> HIDE DEF x
<1>8. /\ n \in Nat /\ Len(e) = n + 1 /\ e[n + 1] = x
      /\ \A i \in 1..n : e[i] = propdefs[o][i]
  BY <1>7, AppendProperties, LenProperties
<1>9. propdefs'[o] = e /\ \A y \in Objs : y # o => propdefs'[y] = propdefs[y]
  BY <1>2, <1>3
<1> HIDE DEF e
<1>10. \A y \in Objs : \A k \in 1..Len(propdefs[y]) : propdefs[y][k].def # def
  BY <1>4, <1>5
<1>11. \A i \in 1..(n + 1) : i \in 1..n \/ i = n + 1
  BY <1>8
<1>12. HasMarks(e, propdefs, o)
  <2> SUFFICES ASSUME NEW i \in 1..Len(e)
               PROVE  \/ \E k \in 1..Len(propdefs[o]) : propdefs[o][k].def = e[i].def
                      \/ \A y \in Objs : \A k \in 1..Len(propdefs[y]) :
                           propdefs[y][k].def # e[i].def
    BY DEF HasMarks
  <2>1. CASE i \in 1..n
    BY <1>8, <2>1
  <2>2. CASE i = n + 1
    BY <1>6, <1>8, <1>10, <2>2
  <2> QED  BY <1>8, <1>11, <2>1, <2>2
<1>13. UniqueMarks(e)
  <2> SUFFICES ASSUME NEW i \in 1..(n + 1), NEW j \in 1..(n + 1), e[i].def = e[j].def
               PROVE  i = j
    BY <1>8 DEF UniqueMarks
  <2>1. CASE i \in 1..n /\ j \in 1..n
    <3>1. propdefs[o][i].def = propdefs[o][j].def
      BY <1>8, <2>1
    <3> QED  BY <1>2, <2>1, <3>1 DEF MarksApart
  <2>2. CASE i \in 1..n /\ j = n + 1
    BY <1>2, <1>6, <1>8, <1>10, <2>2
  <2>3. CASE i = n + 1 /\ j \in 1..n
    BY <1>2, <1>6, <1>8, <1>10, <2>3
  <2> QED  BY <1>11, <2>1, <2>2, <2>3
<1>14. o \in Objs /\ MarksApart(propdefs)
  BY <1>2
<1> QED  BY ONLY <1>9, <1>12, <1>13, <1>14, MarksEdited

LEMMA DeleteMarks ==
  ASSUME Marked, DeletePropdef  PROVE MarksApart(propdefs')
<1>1. PICK o \in objs, name \in Names :
        LET i == SelectInSeq(propdefs[o], LAMBDA d : d.name = name)
        IN  /\ i # 0
            /\ propdefs' = [propdefs EXCEPT ![o] = RemoveAt(@, i)]
  BY ZenonT(60) DEF DeletePropdef
<1> DEFINE q == SelectInSeq(propdefs[o], LAMBDA d : d.name = name)
           e == RemoveAt(propdefs[o], q)
           s == propdefs[o]
<1>2. q # 0 /\ propdefs' = [propdefs EXCEPT ![o] = e]
  BY <1>1
<1>3. /\ o \in Objs /\ propdefs \in [Objs -> Seq(Propdef)] /\ MarksApart(propdefs)
      /\ s \in Seq(Propdef)
  BY Types DEF Marked, IInv
<1>4. q \in 1..Len(s)
  <2> DEFINE I == {i \in 1..Len(propdefs[o]) : propdefs[o][i].name = name}
  <2>1. q = IF I # {} THEN Min(I) ELSE 0
    BY DEF SelectInSeq
  <2>2. I \in SUBSET Nat
    OBVIOUS
  <2>3. I # {} => Min(I) \in I
    <3> HIDE DEF I
    <3> QED  BY <2>2, MinFacts
  <2>4. I # {}
    BY <1>2, <2>1
  <2> QED  BY <2>1, <2>3, <2>4
<1> HIDE DEF q
<1>5. IsInsert(s, e, q, s[q])
  BY <1>3, <1>4, RemoveAtIs
<1>6. propdefs'[o] = e /\ \A x \in Objs : x # o => propdefs'[x] = propdefs[x]
  BY <1>2, <1>3
<1> HIDE DEF e
<1>7. Len(e) \in Nat /\ Len(s) = Len(e) + 1 /\ q \in Nat
  BY <1>4, <1>5 DEF IsInsert
<1>8. ASSUME NEW i \in 1..Len(e)
      PROVE  \/ i < q /\ i \in 1..Len(s) /\ e[i] = s[i]
             \/ i >= q /\ i + 1 \in 1..Len(s) /\ e[i] = s[i + 1]
  <2>1. CASE i < q
    BY <1>5, <1>7, <2>1 DEF IsInsert
  <2>2. CASE i >= q
    BY <1>5, <1>7, <2>2 DEF IsInsert
  <2> QED  BY <1>7, <2>1, <2>2
<1>9. \A i, j \in 1..Len(s) : s[i].def = s[j].def => i = j
  BY <1>3 DEF MarksApart
<1> HIDE DEF s
<1>10. UniqueMarks(e)
  <2> SUFFICES ASSUME NEW i \in 1..Len(e), NEW j \in 1..Len(e), e[i].def = e[j].def
               PROVE  i = j
    BY DEF UniqueMarks
  <2>1. CASE i < q /\ j < q
    BY <1>7, <1>8, <1>9, <2>1
  <2>2. CASE i < q /\ j >= q
    <3>1. e[i] = s[i] /\ i \in 1..Len(s) /\ e[j] = s[j + 1] /\ j + 1 \in 1..Len(s)
      BY <1>7, <1>8, <2>2
    <3>2. i = j + 1
      BY <1>9, <3>1
    <3> QED  BY <1>7, <2>2, <3>2
  <2>3. CASE i >= q /\ j < q
    <3>1. e[j] = s[j] /\ j \in 1..Len(s) /\ e[i] = s[i + 1] /\ i + 1 \in 1..Len(s)
      BY <1>7, <1>8, <2>3
    <3>2. j = i + 1
      BY <1>9, <3>1
    <3> QED  BY <1>7, <2>3, <3>2
  <2>4. CASE i >= q /\ j >= q
    <3>1. /\ e[j] = s[j + 1] /\ j + 1 \in 1..Len(s) /\ e[i] = s[i + 1] /\ i + 1 \in 1..Len(s)
      BY <1>7, <1>8, <2>4
    <3>2. i + 1 = j + 1
      BY <1>9, <3>1
    <3> QED  BY <1>7, <3>2
  <2> QED  BY <1>7, <2>1, <2>2, <2>3, <2>4
<1>11. HasMarks(e, propdefs, o)
  BY <1>8 DEF s, HasMarks
<1> QED  BY ONLY <1>3, <1>6, <1>10, <1>11, MarksEdited

LEMMA RenameMarks ==
  ASSUME Marked, RenameProp  PROVE MarksApart(propdefs')
<1>1. PICK o \in objs, name \in Names : \E i \in DOMAIN propdefs[o] :
        propdefs' = [propdefs EXCEPT ![o][i].name = name]
  BY ZenonT(60) DEF RenameProp
<1>2. PICK i \in DOMAIN propdefs[o] : propdefs' = [propdefs EXCEPT ![o][i].name = name]
  BY <1>1
<1> DEFINE s == propdefs[o]
           y == [s[i] EXCEPT !.name = name]
           e == [s EXCEPT ![i] = y]
<1>3. /\ o \in Objs /\ propdefs \in [Objs -> Seq(Propdef)] /\ MarksApart(propdefs)
      /\ s \in Seq(Propdef) /\ i \in 1..Len(s)
  BY Types DEF Marked, IInv
<1>4. s[i] \in Propdef
  BY <1>3
<1>5. y \in Propdef /\ y.def = s[i].def
  <2> HIDE DEF s
  <2> QED  BY <1>4 DEF Propdef
<1>6. propdefs'[o] = e /\ \A x \in Objs : x # o => propdefs'[x] = propdefs[x]
  BY <1>2, <1>3
<1> HIDE DEF y
<1>7. /\ Len(e) = Len(s) /\ e[i] = y /\ \A k \in 1..Len(s) : k # i => e[k] = s[k]
  BY <1>3, <1>5, ExceptSeq
<1> HIDE DEF e
<1>8. \A k \in 1..Len(s) : e[k].def = s[k].def
  BY <1>5, <1>7
<1>9. UniqueMarks(e) /\ HasMarks(e, propdefs, o)
  BY <1>3, <1>7, <1>8 DEF UniqueMarks, MarksApart, HasMarks
<1> QED  BY ONLY <1>3, <1>6, <1>9, MarksEdited

LEMMA NextMarked ==
  Marked /\ [Next]_vars => Marked'
<1> SUFFICES ASSUME Marked, [Next]_vars  PROVE Marked'
  OBVIOUS
<1>1. IInv'
  BY NextIInv DEF Marked
<1>2. MarksApart(propdefs')
  <2>1. CASE propdefs' = propdefs
    BY <2>1 DEF Marked
  <2>2. CASE Recycle
    BY <2>2, RecycleMarks
  <2>3. CASE Renumber
    BY <2>3, RenumberMarks
  <2>4. CASE AddPropdef
    BY <2>4, AddMarks
  <2>5. CASE DeletePropdef
    BY <2>5, DeleteMarks
  <2>6. CASE RenameProp
    BY <2>6, RenameMarks
  <2>7. ASSUME Create \/ Chparent \/ SetOwner \/ SetPropInfo \/ ClearProp \/ PutProp
               \/ UNCHANGED vars
        PROVE  propdefs' = propdefs
    BY <2>7 DEF Create, Chparent, SetOwner, SetPropInfo, ClearProp, PutProp, vars
  <2> QED  BY <2>1, <2>2, <2>3, <2>4, <2>5, <2>6, <2>7 DEF Next
<1> QED  BY <1>1, <1>2 DEF Marked

\* An index into three sequences one after another, and where it falls.
InAll(i, a, b, c) == i \in 1..(a + b + c)

InParts(i, a, b, c) ==
  \/ i \in 1..a
  \/ \E k \in 1..b : i = a + k
  \/ \E k \in 1..c : i = a + b + k

LEMMA ThreeParts ==
  \A a, b, c, i :
    a \in Nat /\ b \in Nat /\ c \in Nat /\ InAll(i, a, b, c) => InParts(i, a, b, c)
<1> TAKE a, b, c, i
<1> HAVE a \in Nat /\ b \in Nat /\ c \in Nat /\ InAll(i, a, b, c)
<1> USE DEF InAll, InParts
<1>1. CASE i <= a
  BY <1>1
<1>2. CASE a < i /\ i <= a + b
  <2>1. i - a \in 1..b /\ i = a + (i - a)
    BY <1>2
  <2> QED  BY <2>1
<1>3. CASE a + b < i
  <2>1. i - (a + b) \in 1..c /\ i = a + b + (i - (a + b))
    BY <1>3
  <2> QED  BY <2>1
<1> QED  BY <1>1, <1>2, <1>3

\* The slot for a mark, in values of definitions with different marks.
LEMMA SlotOfIs ==
  \A pv \in Seq(Pval) : \A s, i, d :
    UniqueMarks(s) /\ SameDefs(pv, s) /\ Len(pv) = Len(s) /\ i \in 1..Len(pv) /\ pv[i].def = d
    => SlotOf(pv, d) = i /\ HasDef(pv, d)
<1> SUFFICES ASSUME NEW pv \in Seq(Pval), NEW s, NEW i, NEW d,
                    UniqueMarks(s), SameDefs(pv, s), Len(pv) = Len(s),
                    i \in 1..Len(pv), pv[i].def = d
             PROVE  SlotOf(pv, d) = i /\ HasDef(pv, d)
  OBVIOUS
<1>1. DOMAIN pv = 1..Len(s)
  OBVIOUS
<1>2. \A j \in DOMAIN pv : pv[j].def = d => j = i
  BY <1>1 DEF UniqueMarks, SameDefs
<1> QED  BY <1>1, <1>2 DEF SlotOf, HasDef

\* The value for d in r is the one in s, or if there is none what an object of w
\* inherits from the one that is in source.
Keeps(r, s, source, w, d) ==
  IF HasDef(s, d) THEN r[SlotOf(r, d)] = s[SlotOf(s, d)]
  ELSE HasDef(source, d) /\ r[SlotOf(r, d)] = Inherited(source[SlotOf(source, d)], w)

LEMMA RefitKeeps ==
  \A r, s, source, w, l, o, n, c, d :
    /\ IsRefit(r, s, Len(l), source, w, Len(o), Len(n), Len(c))
    /\ s \in Seq(Pval) /\ source \in Seq(Pval) /\ w \in Objs \cup {NOTHING}
    /\ l \in Seq(Propdef) /\ o \in Seq(Propdef) /\ n \in Seq(Propdef) /\ c \in Seq(Propdef)
    /\ Len(s) = Len(l \o (o \o c)) /\ SameDefs(s, l \o (o \o c))
    /\ Len(source) = Len(n \o c) /\ SameDefs(source, n \o c)
    /\ UniqueMarks(l \o (o \o c)) /\ UniqueMarks(l \o (n \o c)) /\ UniqueMarks(n \o c)
    /\ MarksDiffer(n, o) /\ HasDef(r, d)
    => Keeps(r, s, source, w, d)
<1> TAKE r, s, source, w, l, o, n, c, d
<1> HAVE /\ IsRefit(r, s, Len(l), source, w, Len(o), Len(n), Len(c))
         /\ s \in Seq(Pval) /\ source \in Seq(Pval) /\ w \in Objs \cup {NOTHING}
         /\ l \in Seq(Propdef) /\ o \in Seq(Propdef) /\ n \in Seq(Propdef) /\ c \in Seq(Propdef)
         /\ Len(s) = Len(l \o (o \o c)) /\ SameDefs(s, l \o (o \o c))
         /\ Len(source) = Len(n \o c) /\ SameDefs(source, n \o c)
         /\ UniqueMarks(l \o (o \o c)) /\ UniqueMarks(l \o (n \o c)) /\ UniqueMarks(n \o c)
         /\ MarksDiffer(n, o) /\ HasDef(r, d)
<1> DEFINE old == l \o (o \o c)
           new == l \o (n \o c)
           shared == n \o c
<1>1. /\ Len(l) \in Nat /\ Len(o) \in Nat /\ Len(n) \in Nat /\ Len(c) \in Nat
      /\ Len(shared) = Len(n) + Len(c)
      /\ \A i \in 1..Len(n) : shared[i] = n[i]
  BY DefsConcat
<1>2. /\ Len(old) = Len(l) + Len(o) + Len(c)
      /\ \A i \in 1..Len(l) : old[i] = l[i]
      /\ \A i \in 1..Len(o) : old[Len(l) + i] = o[i]
      /\ \A i \in 1..Len(c) : old[Len(l) + Len(o) + i] = c[i]
  <2>1. Joined(old, l, o, c)
    BY ONLY l \in Seq(Propdef), o \in Seq(Propdef), c \in Seq(Propdef), JoinedIs
  <2> HIDE DEF old
  <2> QED  BY ONLY <2>1 DEF Joined
<1>3. /\ Len(new) = Len(l) + Len(n) + Len(c)
      /\ \A i \in 1..Len(l) : new[i] = l[i]
      /\ \A i \in 1..Len(n) : new[Len(l) + i] = n[i]
      /\ \A i \in 1..Len(c) : new[Len(l) + Len(n) + i] = c[i]
  <2>1. Joined(new, l, n, c)
    BY ONLY l \in Seq(Propdef), n \in Seq(Propdef), c \in Seq(Propdef), JoinedIs
  <2> HIDE DEF new
  <2> QED  BY ONLY <2>1 DEF Joined
<1>4. Len(r) = Len(new) /\ SameDefs(r, new)
  BY RefitMatches
<1>5. /\ Len(s) = Len(old) /\ SameDefs(s, old) /\ UniqueMarks(old) /\ UniqueMarks(new)
      /\ Len(source) = Len(shared) /\ SameDefs(source, shared) /\ UniqueMarks(shared)
  OBVIOUS
<1> HIDE DEF old, new, shared
<1>6. /\ r \in Seq(Pval)
      /\ \A i \in 1..Len(l) : r[i] = s[i]
      /\ \A i \in 1..Len(n) : r[Len(l) + i] = Inherited(source[i], w)
      /\ \A i \in 1..Len(c) : r[Len(l) + Len(n) + i] = s[Len(l) + Len(o) + i]
  BY DEF IsRefit
<1>7. PICK i \in 1..Len(r) : r[i].def = d
  BY <1>6 DEF HasDef
<1>8. SlotOf(r, d) = i
  BY ONLY <1>4, <1>5, <1>6, <1>7, SlotOfIs
<1>9. new[i].def = d /\ i \in 1..Len(new)
  BY <1>4, <1>7 DEF SameDefs
<1>10. ASSUME NEW j \in 1..Len(s), r[i] = s[j]  PROVE Keeps(r, s, source, w, d)
  <2>1. s[j].def = d
    BY <1>7, <1>10
  <2>2. SlotOf(s, d) = j /\ HasDef(s, d)
    BY ONLY <1>5, <2>1, j \in 1..Len(s), s \in Seq(Pval), SlotOfIs
  <2> QED  BY <1>8, <1>10, <2>2 DEF Keeps
<1>11. CASE i \in 1..Len(l)
  <2>1. i \in 1..Len(s)
    BY <1>1, <1>2, <1>5, <1>11
  <2> QED  BY <1>6, <1>10, <1>11, <2>1
<1>12. ASSUME NEW k \in 1..Len(c), i = Len(l) + Len(n) + k
       PROVE  Keeps(r, s, source, w, d)
  <2>1. Len(l) + Len(o) + k \in 1..Len(s)
    BY <1>1, <1>2, <1>5
  <2> QED  BY <1>6, <1>10, <1>12, <2>1
<1>13. ASSUME NEW k \in 1..Len(n), i = Len(l) + k
       PROVE  Keeps(r, s, source, w, d)
  <2>1. r[i] = Inherited(source[k], w) /\ n[k].def = d
    BY <1>3, <1>6, <1>9, <1>13
  <2>2. k \in 1..Len(source) /\ source[k].def = d
    <3>1. k \in 1..Len(shared)
      BY <1>1
    <3> QED  BY <1>1, <1>5, <2>1, <3>1 DEF SameDefs
  <2>3. SlotOf(source, d) = k /\ HasDef(source, d)
    BY ONLY <1>5, <2>2, source \in Seq(Pval), SlotOfIs
  <2>4. ASSUME HasDef(s, d)  PROVE FALSE
    <3>1. PICK j \in 1..Len(s) : s[j].def = d
      BY <2>4 DEF HasDef
    <3>2. old[j].def = d /\ j \in 1..Len(old)
      BY <1>5, <3>1 DEF SameDefs
    <3>3. CASE j \in 1..Len(l)
      <4>1. j \in 1..Len(new) /\ new[j].def = d /\ i # j
        BY <1>1, <1>2, <1>3, <1>13, <3>2, <3>3
      <4> QED  BY <1>5, <1>9, <4>1 DEF UniqueMarks
    <3>4. ASSUME NEW m \in 1..Len(o), j = Len(l) + m  PROVE FALSE
      <4>1. o[m].def = d
        BY <1>2, <3>2, <3>4
      <4> QED  BY <2>1, <4>1 DEF MarksDiffer
    <3>5. ASSUME NEW m \in 1..Len(c), j = Len(l) + Len(o) + m  PROVE FALSE
      <4>1. c[m].def = d
        BY <1>2, <3>2, <3>5
      <4>2. Len(l) + Len(n) + m \in 1..Len(new) /\ Len(l) + Len(n) + m # i
        BY ONLY <1>1, <1>3, <1>13
      <4>3. new[Len(l) + Len(n) + m] = c[m]
        BY <1>3
      <4> QED  BY <1>5, <1>9, <4>1, <4>2, <4>3 DEF UniqueMarks
    <3>6. \/ j \in 1..Len(l)
          \/ \E m \in 1..Len(o) : j = Len(l) + m
          \/ \E m \in 1..Len(c) : j = Len(l) + Len(o) + m
      <4>1. InAll(j, Len(l), Len(o), Len(c))
        BY ONLY <1>2, <3>2 DEF InAll
      <4>2. InParts(j, Len(l), Len(o), Len(c))
        BY ONLY <1>1, <4>1, ThreeParts
      <4> QED  BY ONLY <4>2 DEF InParts
    <3> QED  BY <3>3, <3>4, <3>5, <3>6
  <2> QED  BY <1>8, <2>1, <2>3, <2>4 DEF Keeps
<1>14. \/ i \in 1..Len(l)
       \/ \E k \in 1..Len(n) : i = Len(l) + k
       \/ \E k \in 1..Len(c) : i = Len(l) + Len(n) + k
  <2>1. InAll(i, Len(l), Len(n), Len(c))
    BY ONLY <1>3, <1>9 DEF InAll
  <2>2. InParts(i, Len(l), Len(n), Len(c))
    BY ONLY <1>1, <2>1, ThreeParts
  <2> QED  BY ONLY <2>2 DEF InParts
<1> QED  BY <1>11, <1>12, <1>13, <1>14

\* A change of parent keeps the values for what an object has before and after, and
\* adds what it inherits from the values of the new parent.
LEMMA ChparentKeeps ==
  ASSUME Marked, NEW o \in Objs, NEW p \in Objs \cup {NOTHING},
         p \notin AtOrBelow(parent, o),
         ChangeParent(Db, o, p).parent = parent', ChangeParent(Db, o, p).propval = propval'
  PROVE  /\ parent' = Reparented(parent, o, p)
         /\ \A x \in Objs, d \in Defs :
              HasDef(propval'[x], d)
                => \/ propval'[x] = propval[x]
                   \/ Keeps(propval'[x], propval[x], ValuesOf(propval, p), owner[x], d)
<1> DEFINE A == AtOrBelow(parent, o)
           par2 == Reparented(parent, o, p)
<1>1. PICK D : Aligned(propdefs, parent, owner, propval, D)
  BY DEF Marked, IInv, Sane
<1>2. PICK L : Moving(parent, owner, propval, D, o, p, A, L)
  BY <1>1, MovingExists
<1>3. PICK v2, N, O, C : Moved(parent, owner, propval, D, o, p, A, L, v2, N, O, C)
  BY <1>2, MoveIs
<1>4. ChangeParent(Db, o, p) = DbOf(par2, owner, v2)
  BY <1>3, DbIs DEF Moved
<1>5. parent' = par2 /\ propval' = v2
  BY ONLY <1>4, DbIs, ChangeParent(Db, o, p).parent = parent',
          ChangeParent(Db, o, p).propval = propval'
<1> DEFINE D2 == Defs2(D, L, A, p)
<1>6. Aligned(propdefs, par2, owner, v2, D2)
  BY <1>2, <1>3, MovedMatches
<1>7. /\ Forest(parent) /\ Forest(par2) /\ propdefs \in [Objs -> Seq(Propdef)]
      /\ IsDefs(D, propdefs, parent) /\ Matches(propval, D) /\ MarksApart(propdefs)
      /\ propval \in [Objs -> Seq(Pval)] /\ owner \in [Objs -> Objs \cup {NOTHING}]
      /\ A \subseteq Objs
  BY <1>1, <1>6 DEF Aligned, Marked, AtOrBelow
<1>8. IsDefs(D2, propdefs, par2)
  <2> HIDE DEF D2
  <2> QED  BY <1>6 DEF Aligned
<1>9. \A x \in Objs : UniqueMarks(D[x]) /\ UniqueMarks(D2[x])
  <2> HIDE DEF D2, par2
  <2> QED  BY <1>7, <1>8, MarksOfPath
<1>10. /\ \A d \in Objs \ A : v2[d] = propval[d]
       /\ \A d \in A : IsRefit(v2[d], propval[d], Len(L[d]), ValuesOf(propval, p), owner[d],
                               Len(O), Len(N), Len(C))
       /\ N \in Seq(Propdef) /\ O \in Seq(Propdef) /\ C \in Seq(Propdef)
       /\ OfParent(D, p) = N \o C
       /\ OfParent(D, parent[o]) = O \o C
       /\ From(N, propdefs, Objs \ Above(par2, parent[o]))
       /\ From(O, propdefs, Above(par2, parent[o]))
  BY <1>3 DEF Moved, IsMoved
<1>11. \A d \in A : L[d] \in Seq(Propdef) /\ D[d] = L[d] \o (O \o C) /\ D2[d] = L[d] \o (N \o C)
  BY <1>2, <1>7, <1>10 DEF Moving, IsLocals, Defs2
<1> HIDE DEF D2
<1>12. MarksDiffer(N, O)
  <2> DEFINE S == Objs \ Above(par2, parent[o])
             T == Above(par2, parent[o])
  <2>1. S \subseteq Objs /\ T \subseteq Objs /\ S \cap T = {}
    BY DEF Above
  <2>2. From(N, propdefs, S) /\ From(O, propdefs, T)
    BY <1>10
  <2> HIDE DEF S, T
  <2> QED  BY ONLY <1>7, <2>1, <2>2, FromDiffer
<1>13. /\ ValuesOf(propval, p) \in Seq(Pval) /\ Len(ValuesOf(propval, p)) = Len(N \o C)
       /\ SameDefs(ValuesOf(propval, p), N \o C) /\ UniqueMarks(N \o C)
  <2>1. CASE p = NOTHING
    <3>1. ValuesOf(propval, p) = <<>> /\ N \o C = <<>>
      BY <1>10, <2>1 DEF OfParent, ValuesOf
    <3> QED  BY <3>1 DEF SameDefs, UniqueMarks
  <2>2. CASE p # NOTHING
    <3>1. p \in Objs /\ N \o C = D[p] /\ ValuesOf(propval, p) = propval[p]
      BY <1>10, <2>2 DEF OfParent, ValuesOf
    <3> QED  BY <1>7, <1>9, <3>1 DEF SameDefs, Matches
  <2> QED  BY <2>1, <2>2
<1> HIDE DEF A, par2
<1>14. ASSUME NEW x \in A, NEW d \in Defs, HasDef(v2[x], d)
       PROVE  Keeps(v2[x], propval[x], ValuesOf(propval, p), owner[x], d)
  <2> DEFINE r == v2[x]
             s == propval[x]
             source == ValuesOf(propval, p)
             w == owner[x]
             l == L[x]
  <2>1. l \in Seq(Propdef) /\ N \in Seq(Propdef) /\ O \in Seq(Propdef) /\ C \in Seq(Propdef)
    BY <1>10, <1>11
  <2>2. s \in Seq(Pval) /\ w \in Objs \cup {NOTHING} /\ x \in Objs
    BY <1>7
  <2>3. Len(s) = Len(l \o (O \o C)) /\ SameDefs(s, l \o (O \o C))
    <3>1. Len(s) = Len(D[x]) /\ SameDefs(s, D[x])
      BY <1>7, <2>2 DEF Matches, SameDefs
    <3>2. D[x] = l \o (O \o C)
      BY <1>11
    <3> QED  BY ONLY <3>1, <3>2
  <2>4. UniqueMarks(l \o (O \o C)) /\ UniqueMarks(l \o (N \o C))
    BY <1>9, <1>11, <2>2
  <2>5. IsRefit(r, s, Len(l), source, w, Len(O), Len(N), Len(C))
    BY <1>10
  <2>6. HasDef(r, d)
    BY <1>14
  <2>7. source \in Seq(Pval) /\ Len(source) = Len(N \o C) /\ SameDefs(source, N \o C)
        /\ UniqueMarks(N \o C)
    BY <1>13
  <2> HIDE DEF r, s, source, w, l
  <2>8. Keeps(r, s, source, w, d)
    BY ONLY <1>12, <2>1, <2>2, <2>3, <2>4, <2>5, <2>6, <2>7, RefitKeeps
  <2> QED  BY <2>8 DEF r, s, source, w, l
<1> QED  BY <1>5, <1>10, <1>14 DEF par2

\* A change of parent leaves the value, owner and permissions of every property that an
\* object has before and after as they were, and what it adds is clear: chparent() looks
\* for a slot by its position, which fix_props() shifts, and the definitions it
\* takes for the common ones are the same before and after.
THEOREM MovesKeepValues == Spec => Reparenting
<1> DEFINE Kept ==
      objs' = objs =>
       \A m \in objs : parent'[m] # parent[m] =>
         \A o \in objs, d \in Defs :
           HasDef(propval'[o], d) =>
             LET now == propval'[o][SlotOf(propval'[o], d)]
                 on  == propval[parent'[m]][SlotOf(propval[parent'[m]], d)]
             IN  IF HasDef(propval[o], d) THEN now = propval[o][SlotOf(propval[o], d)]
                 ELSE now = [on EXCEPT !.var = CLEAR,
                                       !.owner = IF on.chown THEN owner[o] ELSE @]
<1>1. ASSUME Marked, [Next]_vars  PROVE [Kept]_vars
  <2> SUFFICES ASSUME objs' = objs, NEW m \in objs, parent'[m] # parent[m],
                      NEW x \in objs, NEW d \in Defs, HasDef(propval'[x], d)
               PROVE  LET now == propval'[x][SlotOf(propval'[x], d)]
                          on  == propval[parent'[m]][SlotOf(propval[parent'[m]], d)]
                      IN  IF HasDef(propval[x], d) THEN now = propval[x][SlotOf(propval[x], d)]
                          ELSE now = [on EXCEPT !.var = CLEAR,
                                                !.owner = IF on.chown THEN owner[x] ELSE @]
    OBVIOUS
  <2>1. Chparent
    <3>1. ~ Create /\ ~ Recycle
      BY DEF Create, Recycle
    <3>2. ~ Renumber
      <4> SUFFICES ASSUME Renumber  PROVE FALSE
        OBVIOUS
      <4>1. PICK old \in objs, new \in Objs \ objs : objs' = (objs \ {old}) \cup {new}
        BY ZenonT(60) DEF Renumber
      <4> QED  BY <4>1
    <3>3. SetOwner \/ AddPropdef \/ DeletePropdef \/ RenameProp \/ SetPropInfo \/ ClearProp
          \/ PutProp \/ UNCHANGED vars => parent' = parent
      BY ZenonT(60) DEF SetOwner, AddPropdef, DeletePropdef, RenameProp, SetPropInfo, ClearProp,
             PutProp, vars
    <3> QED  BY <1>1, <3>1, <3>2, <3>3 DEF Next
  <2>2. PICK o \in objs, p \in objs \cup {NOTHING} :
          /\ ~Contains(Path(parent, p), o)
          /\ parent' = ChangeParent(Db, o, p).parent
          /\ propval' = ChangeParent(Db, o, p).propval
    BY <2>1, ZenonT(60) DEF Chparent
  <2>3. o \in Objs /\ p \in Objs \cup {NOTHING} /\ x \in Objs /\ m \in Objs
    BY <1>1 DEF Marked, IInv
  <2>4. p \notin AtOrBelow(parent, o)
    BY <2>2 DEF AtOrBelow
  <2>5. /\ parent' = Reparented(parent, o, p)
        /\ \/ propval'[x] = propval[x]
           \/ Keeps(propval'[x], propval[x], ValuesOf(propval, p), owner[x], d)
    BY <1>1, <2>2, <2>3, <2>4, ChparentKeeps
  <2>6. parent'[m] = p
    <3>1. parent \in Parents
      BY <1>1, Types DEF Marked
    <3> QED  BY <2>3, <2>5, <3>1 DEF Reparented, Parents
  <2>7. CASE propval'[x] = propval[x]
    BY <2>7
  <2>8. CASE Keeps(propval'[x], propval[x], ValuesOf(propval, p), owner[x], d)
    <3>1. CASE HasDef(propval[x], d)
      BY <2>8, <3>1 DEF Keeps
    <3>2. CASE ~ HasDef(propval[x], d)
      <4>1. propval'[x][SlotOf(propval'[x], d)]
              = Inherited(ValuesOf(propval, p)[SlotOf(ValuesOf(propval, p), d)], owner[x])
        BY <2>8, <3>2 DEF Keeps
      <4>2. p # NOTHING
        <5>1. HasDef(ValuesOf(propval, p), d)
          BY <2>8, <3>2 DEF Keeps
        <5> QED  BY <5>1 DEF ValuesOf, HasDef
      <4> QED  BY <2>6, <3>2, <4>1, <4>2 DEF Inherited, ValuesOf
    <3> QED  BY <3>1, <3>2
  <2> QED  BY <2>5, <2>7, <2>8
<1>2. Marked /\ [Next]_vars => Marked'
  BY NextMarked
<1>3. Init => Marked
  BY InitMarked
<1> QED  BY <1>1, <1>2, <1>3, PTL DEF Spec, Reparenting
=============================================================================
