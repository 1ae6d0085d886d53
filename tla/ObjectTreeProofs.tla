-------------------------- MODULE ObjectTreeProofs --------------------------
(***************************************************************************)
(* Theorems about ObjectTree, for any number of objects: from the moment a *)
(* database is accepted both hierarchies are forests and their linked      *)
(* lists hold exactly the children and the contents                        *)
(* (HierarchiesWellFormed), validate_hierarchies() refuses no sound        *)
(* database (RefusedIsBroken), and players() is exact (UsersExact).        *)
(*                                                                         *)
(* A hierarchy is `Good' for the objects S if it is well-formed and the    *)
(* numbers outside S have no links.  The lemmas say of each operation on   *)
(* the linked lists that it keeps a hierarchy good and what it makes of    *)
(* `up'; the set S is a parameter because create(), recycle() and          *)
(* renumber() change it.                                                   *)
(***************************************************************************)
EXTENDS ObjectTree, InductionFacts

-----------------------------------------------------------------------------
(* Following a field *)

LEMMA RefFacts == NOTHING \notin Oids /\ Oids \subseteq Nat /\ NOTHING \in Ref
                  /\ Oids \subseteq Ref /\ MaxObjs \in Nat /\ MaxObjs >= 1
BY MaxObjsAssumption DEF Oids, NOTHING, Ref

IsTrail(at, field, start, n) ==
  /\ at \in [0..n -> Ref]
  /\ at[0] = start
  /\ \A k \in 1..n : at[k] = IF at[k - 1] = NOTHING THEN NOTHING
                             ELSE field[at[k - 1]]

\* The recursive function in Nth has the values its definition says.
LEMMA NthDef ==
  ASSUME NEW field \in [Oids -> Ref], NEW start \in Ref, NEW n \in Nat
  PROVE  \E at : IsTrail(at, field, start, n) /\ Nth(field, start, n) = at[n]
<1> DEFINE g == [x \in Ref \X (1..n) |-> IF x[1] = NOTHING THEN NOTHING ELSE field[x[1]]]
           Eq(f) == f = [k \in 0..n |-> IF k = 0 THEN start
                                        ELSE IF f[k - 1] = NOTHING THEN NOTHING
                                        ELSE field[f[k - 1]]]
<1>1. IsStep(g, Ref, n)
  <2>1. \A r \in Ref : r # NOTHING => r \in Oids
    BY DEF Ref
  <2>2. \A x \in Ref \X (1..n) : (IF x[1] = NOTHING THEN NOTHING ELSE field[x[1]]) \in Ref
    BY <2>1, RefFacts
  <2> QED  BY <2>2 DEF IsStep
<1>2. PICK f : IsRun(f, Ref, start, n, g)
  <2> HIDE DEF g
  <2> QED  BY <1>1, Recursion
<1>3. \A k \in 1..n : f[k] = IF f[k - 1] = NOTHING THEN NOTHING ELSE field[f[k - 1]]
  <2> TAKE k \in 1..n
  <2>1. k - 1 \in 0..n /\ f[k - 1] \in Ref
    BY <1>2 DEF IsRun
  <2>2. <<f[k - 1], k>> \in Ref \X (1..n)
    BY <2>1
  <2>3. f[k] = g[<<f[k - 1], k>>]
    BY <1>2 DEF IsRun
  <2> QED  BY <2>2, <2>3
<1>4. f \in [0..n -> Ref] /\ f[0] = start
  BY <1>2 DEF IsRun
<1>5. Eq(f)
  <2> DEFINE e == [k \in 0..n |-> IF k = 0 THEN start
                                  ELSE IF f[k - 1] = NOTHING THEN NOTHING
                                  ELSE field[f[k - 1]]]
  <2>1. ASSUME NEW k \in 0..n PROVE f[k] = e[k]
    <3>1. CASE k = 0
      BY <3>1, <1>4
    <3>2. CASE k # 0
      <4>1. k \in 1..n
        BY <3>2
      <4> QED  BY <4>1, <1>3, <3>2
    <3> QED  BY <3>1, <3>2
  <2> QED  BY <2>1, <1>4
<1> DEFINE at == CHOOSE f1 : Eq(f1)
<1>6. Eq(at)
  <2> HIDE DEF Eq
  <2> QED  BY <1>5
<1>7. at[0] = start /\ \A k \in 1..n : at[k] = IF at[k - 1] = NOTHING THEN NOTHING
                                                ELSE field[at[k - 1]]
  <2> HIDE DEF at
  <2>1. 0 \in 0..n /\ \A k \in 1..n : k \in 0..n /\ k # 0
    OBVIOUS
  <2> QED  BY <1>6, <2>1
<1>8. at \in [0..n -> Ref]
  <2> HIDE DEF at
  <2> DEFINE T == {k \in Nat : k <= n => at[k] \in Ref}
  <2>1. 0 \in T
    BY <1>7
  <2>2. ASSUME NEW k \in Nat, k \in T PROVE k + 1 \in T
    <3> SUFFICES ASSUME k + 1 <= n PROVE at[k + 1] \in Ref
      OBVIOUS
    <3>1. k + 1 \in 1..n /\ (k + 1) - 1 = k /\ at[k] \in Ref
      BY <2>2
    <3>2. at[k + 1] = IF at[k] = NOTHING THEN NOTHING ELSE field[at[k]]
      BY <1>7, <3>1
    <3>3. at[k] # NOTHING => field[at[k]] \in Ref
      BY <3>1 DEF Ref
    <3> QED  BY <3>2, <3>3, RefFacts
  <2>3. Nat \subseteq T
    <3> HIDE DEF T
    <3> QED  BY <2>1, <2>2, NatClosed
  <2>4. \A k \in 0..n : at[k] \in Ref
    BY <2>3
  <2>5. at = [k \in 0..n |-> at[k]]
    BY <1>6
  <2> QED  BY <2>4, <2>5
<1>9. Nth(field, start, n) = at[n]
  BY DEF Nth
<1> HIDE DEF at
<1>10. IsTrail(at, field, start, n)
  BY <1>7, <1>8 DEF IsTrail
<1> QED  BY <1>9, <1>10

\* One step further.
LEMMA NthStep ==
  ASSUME NEW field \in [Oids -> Ref], NEW start \in Ref
  PROVE  /\ Nth(field, start, 0) = start
         /\ \A n \in Nat : /\ Nth(field, start, n) \in Ref
                           /\ Nth(field, start, n + 1)
                                = IF Nth(field, start, n) = NOTHING THEN NOTHING
                                  ELSE field[Nth(field, start, n)]
<1>1. Nth(field, start, 0) = start
  BY NthDef DEF IsTrail
<1>2. ASSUME NEW n \in Nat
      PROVE  /\ Nth(field, start, n) \in Ref
             /\ Nth(field, start, n + 1)
                  = IF Nth(field, start, n) = NOTHING THEN NOTHING
                    ELSE field[Nth(field, start, n)]
  <2>1. PICK a : IsTrail(a, field, start, n) /\ Nth(field, start, n) = a[n]
    BY NthDef
  <2>2. PICK b : IsTrail(b, field, start, n + 1) /\ Nth(field, start, n + 1) = b[n + 1]
    BY NthDef
  <2> USE DEF IsTrail
  <2> DEFINE T == {k \in Nat : k <= n => a[k] = b[k]}
  <2>3. 0 \in T
    BY <2>1, <2>2
  <2>4. ASSUME NEW k \in Nat, k \in T PROVE k + 1 \in T
    <3> SUFFICES ASSUME k + 1 <= n PROVE a[k + 1] = b[k + 1]
      OBVIOUS
    <3>1. k + 1 \in 1..n /\ k + 1 \in 1..(n + 1) /\ (k + 1) - 1 = k /\ a[k] = b[k]
      BY <2>4
    <3> QED  BY <3>1, <2>1, <2>2
  <2>5. Nat \subseteq T
    <3> HIDE DEF T
    <3> QED  BY <2>3, <2>4, NatClosed
  <2>6. a[n] = b[n]
    BY <2>5
  <2>7. n + 1 \in 1..(n + 1) /\ (n + 1) - 1 = n /\ n \in 0..n
    OBVIOUS
  <2>8. b[n + 1] = IF b[n] = NOTHING THEN NOTHING ELSE field[b[n]]
    BY <2>2, <2>7
  <2> QED  BY <2>1, <2>2, <2>6, <2>7, <2>8
<1> QED  BY <1>1, <1>2

-----------------------------------------------------------------------------
(* Lists *)

\* s runs through the objects K in the order of the list of o.
IsListing(K, h, o, n, s) ==
  /\ n \in Nat
  /\ s \in [1..n -> K]
  /\ \A i, j \in 1..n : s[i] = s[j] => i = j
  /\ \A x \in K : \E i \in 1..n : s[i] = x
  /\ h.down[o] = IF n = 0 THEN NOTHING ELSE s[1]
  /\ \A i \in 1..n : h.across[s[i]] = IF i = n THEN NOTHING ELSE s[i + 1]
Listed(K, h, o) == \E n, s : IsListing(K, h, o, n, s)

\* The fields of a hierarchy.
LEMMA Fields ==
  ASSUME NEW h \in HierarchyType
  PROVE  /\ h = [up |-> h.up, down |-> h.down, across |-> h.across]
         /\ h.up \in [Oids -> Ref] /\ h.down \in [Oids -> Ref] /\ h.across \in [Oids -> Ref]
BY DEF HierarchyType

LEMMA ListLength ==
  ASSUME NEW K \in SUBSET Oids, NEW h, NEW o, NEW n, NEW s, IsListing(K, h, o, n, s)
  PROVE  n \in 0..MaxObjs
<1>1. n \in Nat /\ s \in [1..n -> Oids] /\ \A i, j \in 1..n : s[i] = s[j] => i = j
  BY DEF IsListing
<1>2. s \in Injection(1..n, Oids)
  BY <1>1 DEF Injection, IsInjective
<1>3. IsFiniteSet(Oids) /\ Cardinality(Oids) = MaxObjs
  <2>1. MaxObjs - 1 \in Int /\ ~ 0 > MaxObjs - 1
    BY RefFacts
  <2> QED  BY <2>1, RefFacts, FS_Interval DEF Oids
<1>4. Cardinality(1..n) = n
  BY <1>1, FS_Interval
<1>5. Cardinality(1..n) <= Cardinality(Oids)
  BY <1>2, <1>3, FS_Injection
<1> QED  BY <1>1, <1>3, <1>4, <1>5, RefFacts

\* A loop over a list passes the objects on it, in turn, and comes to its end.
LEMMA ListWalk ==
  ASSUME NEW K \in SUBSET Oids, NEW h \in HierarchyType, NEW o \in Oids,
         NEW n, NEW s, IsListing(K, h, o, n, s)
  PROVE  \A k \in Nat : Nth(h.across, h.down[o], k) = IF k < n THEN s[k + 1] ELSE NOTHING
<1> USE DEF IsListing
<1> DEFINE T == {k \in Nat : Nth(h.across, h.down[o], k) = IF k < n THEN s[k + 1] ELSE NOTHING}
<1>1. h.across \in [Oids -> Ref] /\ h.down[o] \in Ref
  BY Fields
<1>2. 0 \in T
  BY <1>1, NthStep
<1>3. ASSUME NEW k \in Nat, k \in T PROVE k + 1 \in T
  <2>1. Nth(h.across, h.down[o], k + 1)
          = IF Nth(h.across, h.down[o], k) = NOTHING THEN NOTHING
            ELSE h.across[Nth(h.across, h.down[o], k)]
    <3> DEFINE field == h.across
               start == h.down[o]
    <3> HIDE DEF field, start, T
    <3>1. Nth(field, start, k + 1) = IF Nth(field, start, k) = NOTHING THEN NOTHING
                                     ELSE field[Nth(field, start, k)]
      <4>1. field \in [Oids -> Ref] /\ start \in Ref
        BY <1>1 DEF field, start
      <4> QED  BY ONLY <4>1, k \in Nat, NthStep
    <3> QED  BY <3>1 DEF field, start
  <2>2. Nth(h.across, h.down[o], k) = IF k < n THEN s[k + 1] ELSE NOTHING
    BY <1>3
  <2>3. CASE k < n
    <3>1. k + 1 \in 1..n /\ s[k + 1] \in Oids
      BY <2>3
    <3>2. h.across[s[k + 1]] = IF k + 1 = n THEN NOTHING ELSE s[(k + 1) + 1]
      BY <3>1
    <3>3. s[k + 1] # NOTHING
      BY <3>1, RefFacts
    <3> QED  BY <2>1, <2>2, <2>3, <3>1, <3>2, <3>3
  <2>4. CASE ~ k < n
    BY <2>1, <2>2, <2>4
  <2> QED  BY <2>3, <2>4
<1>4. Nat \subseteq T
  <2> HIDE DEF T
  <2> QED  BY <1>2, <1>3, NatClosed
<1> QED  BY <1>4

LEMMA ListPassed ==
  ASSUME NEW K \in SUBSET Oids, NEW h \in HierarchyType, NEW o \in Oids, Listed(K, h, o)
  PROVE  Passed(h, o) = K
<1>1. PICK n, s : IsListing(K, h, o, n, s)
  BY DEF Listed
<1>2. n \in 0..MaxObjs
  BY <1>1, ListLength
<1>3. \A k \in Nat : Nth(h.across, h.down[o], k) = IF k < n THEN s[k + 1] ELSE NOTHING
  BY <1>1, ListWalk
<1>4. ASSUME NEW x \in K PROVE x \in Passed(h, o)
  <2>1. PICK i \in 1..n : s[i] = x
    BY <1>1 DEF IsListing
  <2>2. i - 1 \in 0..(MaxObjs - 1) /\ i - 1 \in Nat /\ i - 1 < n /\ (i - 1) + 1 = i
    BY <1>2, <2>1, RefFacts
  <2>3. Nth(h.across, h.down[o], i - 1) = x
    BY <1>3, <2>1, <2>2
  <2>4. x # NOTHING
    BY RefFacts
  <2> QED  BY <2>2, <2>3, <2>4 DEF Passed
<1>5. ASSUME NEW x \in Passed(h, o) PROVE x \in K
  <2>1. PICK k \in 0..(MaxObjs - 1) : x = Nth(h.across, h.down[o], k) /\ x # NOTHING
    BY DEF Passed
  <2>2. k \in Nat /\ k < n /\ x = s[k + 1]
    BY <1>3, <2>1, RefFacts
  <2>3. k + 1 \in 1..n
    BY <1>2, <2>2
  <2> QED  BY <1>1, <2>2, <2>3 DEF IsListing
<1> QED  BY <1>4, <1>5

\* What the list of o is depends on o's `down' and its objects' `across' only.
LEMMA ListFrame ==
  ASSUME NEW K, NEW h, NEW g, NEW o, Listed(K, h, o), g.down[o] = h.down[o],
         \A x \in K : g.across[x] = h.across[x]
  PROVE  Listed(K, g, o)
<1>1. PICK n, s : IsListing(K, h, o, n, s)
  BY DEF Listed
<1>2. IsListing(K, g, o, n, s)
  BY <1>1 DEF IsListing
<1> QED  BY <1>2 DEF Listed

\* An empty list.
LEMMA ListEmpty ==
  ASSUME NEW h, NEW o
  PROVE  Listed({}, h, o) <=> h.down[o] = NOTHING
<1>1. ASSUME Listed({}, h, o) PROVE h.down[o] = NOTHING
  <2>1. PICK n, s : IsListing({}, h, o, n, s)
    BY <1>1 DEF Listed
  <2>2. n = 0
    <3> SUFFICES ASSUME n # 0 PROVE FALSE
      OBVIOUS
    <3>1. 1 \in 1..n
      BY <2>1 DEF IsListing
    <3> QED  BY <2>1, <3>1 DEF IsListing
  <2> QED  BY <2>1, <2>2 DEF IsListing
<1>2. ASSUME h.down[o] = NOTHING PROVE Listed({}, h, o)
  <2> DEFINE s == [i \in 1..0 |-> i]
  <2>1. s \in [1..0 -> {}] /\ \A i \in 1..0 : FALSE
    OBVIOUS
  <2>2. IsListing({}, h, o, 0, s)
    BY <1>2, <2>1 DEF IsListing
  <2> QED  BY <2>2 DEF Listed
<1> QED  BY <1>1, <1>2

\* The list of o is empty if `down' says so, and else begins with an object of K.
LEMMA ListHead ==
  ASSUME NEW K \in SUBSET Oids, NEW h, NEW o, Listed(K, h, o)
  PROVE  /\ h.down[o] = NOTHING <=> K = {}
         /\ h.down[o] # NOTHING => h.down[o] \in K
<1>1. PICK n, s : IsListing(K, h, o, n, s)
  BY DEF Listed
<1>2. CASE n = 0
  <2>1. K = {} /\ h.down[o] = NOTHING
    BY <1>1, <1>2 DEF IsListing
  <2> QED  BY <2>1
<1>3. CASE n # 0
  <2>1. 1 \in 1..n /\ s[1] \in K /\ h.down[o] = s[1]
    BY <1>1, <1>3 DEF IsListing
  <2> QED  BY <2>1, RefFacts
<1> QED  BY <1>2, <1>3

-----------------------------------------------------------------------------
(* LL_REMOVE and LL_APPEND *)

LEMMA RemoveFields ==
  ASSUME NEW h \in HierarchyType, NEW q \in Oids, NEW o \in Oids
  PROVE  LET g == LL_REMOVE(h, q, o)
         IN  /\ g \in HierarchyType
             /\ g.up = h.up
             /\ \A x \in Oids : g.down[x] = IF x = q /\ h.down[q] = o THEN h.across[o]
                                            ELSE h.down[x]
             /\ \A x \in Oids : g.across[x] =
                  IF x = o THEN NOTHING
                  ELSE IF h.down[q] # o /\ x \in Before(h, q, o) THEN h.across[o]
                  ELSE h.across[x]
<1>1. /\ h = [up |-> h.up, down |-> h.down, across |-> h.across]
      /\ h.up \in [Oids -> Ref] /\ h.down \in [Oids -> Ref] /\ h.across \in [Oids -> Ref]
  BY Fields
<1>2. CASE h.down[q] = o
  <2>1. LL_REMOVE(h, q, o)
          = [up |-> h.up, down |-> [h.down EXCEPT ![q] = h.across[o]],
             across |-> [h.across EXCEPT ![o] = NOTHING]]
    BY <1>1, <1>2 DEF LL_REMOVE
  <2>2. h.across[o] \in Ref
    BY <1>1
  <2> QED  BY <1>1, <1>2, <2>1, <2>2, RefFacts DEF HierarchyType
<1>3. CASE h.down[q] # o
  <2> DEFINE f == [l \in Oids |-> IF l = o THEN NOTHING
                                  ELSE IF l \in Before(h, q, o) THEN h.across[o]
                                  ELSE h.across[l]]
  <2>1. LL_REMOVE(h, q, o) = [up |-> h.up, down |-> h.down, across |-> f]
    BY <1>1, <1>3 DEF LL_REMOVE
  <2>2. f \in [Oids -> Ref]
    BY <1>1, RefFacts
  <2> QED  BY <1>1, <1>3, <2>1, <2>2 DEF HierarchyType
<1> QED  BY <1>2, <1>3

LEMMA AppendFields ==
  ASSUME NEW h \in HierarchyType, NEW q \in Oids, NEW o \in Oids
  PROVE  LET g == LL_APPEND(h, q, o)
         IN  /\ g \in HierarchyType
             /\ g.up = h.up
             /\ \A x \in Oids : g.down[x] = IF x = q /\ h.down[q] = NOTHING THEN o
                                            ELSE h.down[x]
             /\ \A x \in Oids : g.across[x] =
                  IF x = o THEN NOTHING
                  ELSE IF h.down[q] # NOTHING /\ x \in Before(h, q, NOTHING) THEN o
                  ELSE h.across[x]
<1>1. /\ h = [up |-> h.up, down |-> h.down, across |-> h.across]
      /\ h.up \in [Oids -> Ref] /\ h.down \in [Oids -> Ref] /\ h.across \in [Oids -> Ref]
  BY Fields
<1>2. o \in Ref
  BY RefFacts
<1>3. CASE h.down[q] = NOTHING
  <2>1. LL_APPEND(h, q, o)
          = [up |-> h.up, down |-> [h.down EXCEPT ![q] = o],
             across |-> [h.across EXCEPT ![o] = NOTHING]]
    BY <1>1, <1>3 DEF LL_APPEND
  <2> QED  BY <1>1, <1>2, <1>3, <2>1, RefFacts DEF HierarchyType
<1>4. CASE h.down[q] # NOTHING
  <2> DEFINE f == [l \in Oids |-> IF l = o THEN NOTHING
                                  ELSE IF l \in Before(h, q, NOTHING) THEN o
                                  ELSE h.across[l]]
  <2>1. LL_APPEND(h, q, o) = [up |-> h.up, down |-> h.down, across |-> f]
    BY <1>1, <1>4 DEF LL_APPEND
  <2>2. f \in [Oids -> Ref]
    BY <1>1, <1>2, RefFacts
  <2> QED  BY <1>1, <1>4, <2>1, <2>2 DEF HierarchyType
<1> QED  BY <1>3, <1>4

\* LL_REMOVE takes its object off the list and touches no other list.
LEMMA RemoveList ==
  ASSUME NEW K \in SUBSET Oids, NEW h \in HierarchyType, NEW q \in Oids,
         NEW o \in K, Listed(K, h, q)
  PROVE  /\ Listed(K \ {o}, LL_REMOVE(h, q, o), q)
         /\ \A x \in Oids \ {q} : LL_REMOVE(h, q, o).down[x] = h.down[x]
         /\ \A x \in Oids \ K : LL_REMOVE(h, q, o).across[x] = h.across[x]
<1> DEFINE g == LL_REMOVE(h, q, o)
<1>1. PICK n, s : IsListing(K, h, q, n, s)
  BY DEF Listed
<1>2. PICK k \in 1..n : s[k] = o
  BY <1>1 DEF IsListing
<1>3. /\ n \in Nat /\ s \in [1..n -> K]
      /\ \A i, j \in 1..n : s[i] = s[j] => i = j
      /\ \A x \in K : \E i \in 1..n : s[i] = x
      /\ h.down[q] = s[1]
      /\ \A i \in 1..n : h.across[s[i]] = IF i = n THEN NOTHING ELSE s[i + 1]
  BY <1>1, <1>2 DEF IsListing
<1>4. Before(h, q, o) \subseteq K /\ \A x \in K : x \in Before(h, q, o) <=> h.across[x] = o
  BY ListPassed DEF Before
<1>5. o \in Oids
  OBVIOUS
<1>6. /\ \A x \in Oids : g.down[x] = IF x = q /\ h.down[q] = o THEN h.across[o]
                                     ELSE h.down[x]
      /\ \A x \in Oids : g.across[x] =
           IF x = o THEN NOTHING
           ELSE IF h.down[q] # o /\ x \in Before(h, q, o) THEN h.across[o]
           ELSE h.across[x]
  BY <1>5, RemoveFields
<1>7. h.across[o] = IF k = n THEN NOTHING ELSE s[k + 1]
  BY <1>2, <1>3
<1>8. h.down[q] = o <=> k = 1
  <2>1. 1 \in 1..n
    BY <1>2, <1>3
  <2> QED  BY <1>2, <1>3, <2>1
<1> HIDE DEF g
<1> DEFINE t == [i \in 1..(n - 1) |-> IF i < k THEN s[i] ELSE s[i + 1]]
<1>9. n - 1 \in Nat
  BY <1>2, <1>3
<1>10. \A i \in 1..(n - 1) : i \in 1..n /\ i + 1 \in 1..n /\ i # n
  BY <1>3, <1>9
<1>11. t \in [1..(n - 1) -> K \ {o}]
  <2>1. ASSUME NEW i \in 1..(n - 1) PROVE (IF i < k THEN s[i] ELSE s[i + 1]) \in K \ {o}
    <3>1. i \in 1..n /\ i + 1 \in 1..n
      BY <1>10
    <3>2. i < k => i # k
      BY <1>2, <1>3
    <3>3. ~ i < k => i + 1 # k
      BY <1>2, <1>3
    <3>4. (i < k => s[i] # o) /\ (~ i < k => s[i + 1] # o)
      BY <1>2, <1>3, <3>1, <3>2, <3>3
    <3> QED  BY <1>3, <3>1, <3>4
  <2> QED  BY <2>1
<1>12. \A i, j \in 1..(n - 1) : t[i] = t[j] => i = j
  <2> TAKE i, j \in 1..(n - 1)
  <2>1. i \in 1..n /\ i + 1 \in 1..n /\ j \in 1..n /\ j + 1 \in 1..n
    BY <1>10
  <2>2. /\ i \in Int /\ j \in Int /\ k \in Int
        /\ s[i] = s[j] => i = j
        /\ s[i + 1] = s[j] => i + 1 = j
        /\ s[i] = s[j + 1] => i = j + 1
        /\ s[i + 1] = s[j + 1] => i + 1 = j + 1
    BY <1>2, <1>3, <2>1
  <2>3. t[i] = (IF i < k THEN s[i] ELSE s[i + 1]) /\ t[j] = (IF j < k THEN s[j] ELSE s[j + 1])
    OBVIOUS
  <2> QED  BY <2>2, <2>3
<1>13. ASSUME NEW x \in K \ {o} PROVE \E i \in 1..(n - 1) : t[i] = x
  <2>1. PICK i \in 1..n : s[i] = x
    BY <1>3
  <2>2. i # k
    BY <1>2, <2>1
  <2>3. CASE i < k
    <3>1. i \in 1..(n - 1)
      BY <2>3, <1>2, <1>3
    <3> QED  BY <3>1, <2>1, <2>3
  <2>4. CASE i > k
    <3>1. i - 1 \in 1..(n - 1) /\ ~ i - 1 < k /\ (i - 1) + 1 = i
      BY <2>4, <1>2, <1>3
    <3>2. t[i - 1] = x
      BY <3>1, <2>1
    <3> QED  BY <3>1, <3>2
  <2> QED  BY <2>2, <2>3, <2>4, <1>2, <1>3
<1>14. g.down[q] = IF n - 1 = 0 THEN NOTHING ELSE t[1]
  <2>1. CASE k = 1
    <3>1. g.down[q] = IF n = 1 THEN NOTHING ELSE s[2]
      BY <1>6, <1>7, <1>8, <2>1
    <3>2. n # 1 => 1 \in 1..(n - 1) /\ ~ 1 < k
      BY <1>3, <2>1, <1>9
    <3>3. n # 1 => t[1] = s[2]
      BY <3>2
    <3> HIDE DEF t
    <3> QED  BY <3>1, <3>3, <1>3
  <2>2. CASE k # 1
    <3>1. 1 \in 1..(n - 1) /\ 1 < k
      BY <1>2, <1>3, <2>2
    <3>2. t[1] = s[1]
      BY <3>1
    <3>3. g.down[q] = s[1]
      BY <1>6, <1>8, <2>2, <1>3
    <3> HIDE DEF t
    <3> QED  BY <3>1, <3>2, <3>3, <1>3
  <2> QED  BY <2>1, <2>2
<1>15. ASSUME NEW i \in 1..(n - 1)
       PROVE  g.across[t[i]] = IF i = n - 1 THEN NOTHING ELSE t[i + 1]
  <2>1. i \in 1..n /\ i + 1 \in 1..n /\ i # n /\ i \in Int /\ n \in Int /\ k \in Int
    BY <1>10, <1>3, <1>2
  <2>2. t[i] \in K \ {o} /\ t[i] \in Oids
    BY <1>11
  <2>3. t[i] = IF i < k THEN s[i] ELSE s[i + 1]
    OBVIOUS
  <2>4. i # n - 1 => i + 1 \in 1..(n - 1) /\ t[i + 1] = IF i + 1 < k THEN s[i + 1] ELSE s[(i + 1) + 1]
    BY <2>1
  <2> HIDE DEF t
  <2>5. CASE i < k - 1
    <3>1. t[i] = s[i] /\ i # n - 1 /\ t[i + 1] = s[i + 1]
      BY <2>1, <2>3, <2>4, <2>5, <1>2
    <3>2. h.across[t[i]] = s[i + 1]
      BY <1>3, <2>1, <3>1
    <3>3. s[i + 1] # o
      BY <1>2, <1>3, <2>1, <2>5
    <3>4. g.across[t[i]] = h.across[t[i]]
      BY <1>4, <1>6, <2>2, <3>2, <3>3
    <3> QED  BY <3>1, <3>2, <3>4
  <2>6. CASE i = k - 1
    <3>1. t[i] = s[i] /\ s[i + 1] = o
      BY <1>2, <2>1, <2>3, <2>6
    <3>2. h.across[t[i]] = o
      BY <1>3, <2>1, <3>1
    <3>3. h.down[q] # o
      BY <1>8, <2>6, <2>1
    <3>4. g.across[t[i]] = h.across[o]
      BY <1>4, <1>6, <2>2, <3>2, <3>3
    <3>5. i # n - 1 => t[i + 1] = s[k + 1]
      BY <2>4, <2>6, <2>1
    <3> QED  BY <3>4, <3>5, <1>7, <2>6, <2>1
  <2>7. CASE i > k - 1
    <3>1. t[i] = s[i + 1]
      BY <2>1, <2>3, <2>7
    <3>2. h.across[t[i]] = IF i + 1 = n THEN NOTHING ELSE s[(i + 1) + 1]
      BY <1>3, <2>1, <3>1
    <3>3. i + 1 # n => (i + 1) + 1 \in 1..n /\ (i + 1) + 1 # k
      BY <2>1, <2>7
    <3>4. h.across[t[i]] # o
      <4>1. CASE i + 1 = n
        BY <4>1, <3>2, RefFacts, <1>5
      <4>2. CASE i + 1 # n
        BY <4>2, <3>2, <3>3, <1>2, <1>3
      <4> QED  BY <4>1, <4>2
    <3>5. g.across[t[i]] = h.across[t[i]]
      BY <1>4, <1>6, <2>2, <3>4
    <3> QED  BY <3>2, <3>5, <2>4, <2>7, <2>1
  <2> QED  BY <2>1, <2>5, <2>6, <2>7
<1>16. IsListing(K \ {o}, g, q, n - 1, t)
  <2> HIDE DEF t
  <2> QED  BY <1>9, <1>11, <1>12, <1>13, <1>14, <1>15 DEF IsListing
<1>17. \A x \in Oids \ K : g.across[x] = h.across[x]
  BY <1>4, <1>6
<1>18. \A x \in Oids \ {q} : g.down[x] = h.down[x]
  BY <1>6
<1> QED  BY <1>16, <1>17, <1>18 DEF Listed, g

\* LL_APPEND puts an object that is on no list at the end of one and touches no
\* other list.
LEMMA AppendList ==
  ASSUME NEW K \in SUBSET Oids, NEW h \in HierarchyType, NEW q \in Oids,
         NEW o \in Oids \ K, Listed(K, h, q)
  PROVE  /\ Listed(K \cup {o}, LL_APPEND(h, q, o), q)
         /\ \A x \in Oids \ {q} : LL_APPEND(h, q, o).down[x] = h.down[x]
         /\ \A x \in Oids \ (K \cup {o}) : LL_APPEND(h, q, o).across[x] = h.across[x]
<1> DEFINE g == LL_APPEND(h, q, o)
<1>1. PICK n, s : IsListing(K, h, q, n, s)
  BY DEF Listed
<1>2. /\ n \in Nat /\ s \in [1..n -> K]
      /\ \A i, j \in 1..n : s[i] = s[j] => i = j
      /\ \A x \in K : \E i \in 1..n : s[i] = x
      /\ h.down[q] = IF n = 0 THEN NOTHING ELSE s[1]
      /\ \A i \in 1..n : h.across[s[i]] = IF i = n THEN NOTHING ELSE s[i + 1]
  BY <1>1 DEF IsListing
<1>3. Before(h, q, NOTHING) \subseteq K
      /\ \A x \in K : x \in Before(h, q, NOTHING) <=> h.across[x] = NOTHING
  BY ListPassed DEF Before
<1>4. /\ \A x \in Oids : g.down[x] = IF x = q /\ h.down[q] = NOTHING THEN o
                                     ELSE h.down[x]
      /\ \A x \in Oids : g.across[x] =
           IF x = o THEN NOTHING
           ELSE IF h.down[q] # NOTHING /\ x \in Before(h, q, NOTHING) THEN o
           ELSE h.across[x]
  BY AppendFields
<1>5. h.down[q] = NOTHING <=> n = 0
  BY <1>2, ListHead
<1> HIDE DEF g
<1> DEFINE t == [i \in 1..(n + 1) |-> IF i = n + 1 THEN o ELSE s[i]]
<1>6. \A i \in 1..(n + 1) : i # n + 1 => i \in 1..n
  BY <1>2
<1>7. n + 1 \in Nat /\ n + 1 # 0 /\ n + 1 \in 1..(n + 1) /\ 1 \in 1..(n + 1)
  BY <1>2
<1>8. t \in [1..(n + 1) -> K \cup {o}]
  BY <1>2, <1>6
<1>9. \A i, j \in 1..(n + 1) : t[i] = t[j] => i = j
  BY <1>2, <1>6
<1>10. \A x \in K \cup {o} : \E i \in 1..(n + 1) : t[i] = x
  <2> TAKE x \in K \cup {o}
  <2>1. CASE x = o
    BY <1>7, <2>1
  <2>2. CASE x # o
    <3>1. PICK i \in 1..n : s[i] = x
      BY <1>2, <2>2
    <3>2. i \in 1..(n + 1) /\ i # n + 1
      BY <1>2
    <3> QED  BY <3>1, <3>2
  <2> QED  BY <2>1, <2>2
<1>11. g.down[q] = IF n + 1 = 0 THEN NOTHING ELSE t[1]
  <2>1. t[1] = IF n = 0 THEN o ELSE s[1]
    BY <1>2, <1>7
  <2> HIDE DEF t
  <2> QED  BY <1>2, <1>4, <1>5, <1>7, <2>1
<1>12. ASSUME NEW i \in 1..(n + 1)
       PROVE  g.across[t[i]] = IF i = n + 1 THEN NOTHING ELSE t[i + 1]
  <2>1. CASE i = n + 1
    BY <1>4, <2>1
  <2>2. CASE i # n + 1
    <3>1. i \in 1..n /\ i + 1 \in 1..(n + 1) /\ t[i] = s[i]
      BY <1>2, <1>6, <2>2
    <3>2. t[i + 1] = IF i = n THEN o ELSE s[i + 1]
      BY <1>2, <3>1
    <3>3. s[i] \in K /\ s[i] \in Oids /\ s[i] # o
      BY <1>2, <3>1
    <3>4. h.across[s[i]] = IF i = n THEN NOTHING ELSE s[i + 1]
      BY <1>2, <3>1
    <3>5. i # n => h.across[s[i]] # NOTHING
      <4>1. i # n => i + 1 \in 1..n
        BY <1>2, <3>1
      <4>2. i # n => s[i + 1] \in Oids
        BY <1>2, <4>1
      <4> QED  BY <3>4, <4>2, RefFacts
    <3>6. n # 0
      BY <3>1, <1>2
    <3> HIDE DEF t
    <3>7. g.across[s[i]] = IF i = n THEN o ELSE s[i + 1]
      BY <1>3, <1>4, <1>5, <3>3, <3>4, <3>5, <3>6
    <3> QED  BY <2>2, <3>1, <3>2, <3>7
  <2> QED  BY <2>1, <2>2
<1>13. IsListing(K \cup {o}, g, q, n + 1, t)
  <2> HIDE DEF t
  <2> QED  BY <1>7, <1>8, <1>9, <1>10, <1>11, <1>12 DEF IsListing
<1>14. \A x \in Oids \ (K \cup {o}) : g.across[x] = h.across[x]
  BY <1>3, <1>4
<1>15. \A x \in Oids \ {q} : g.down[x] = h.down[x]
  BY <1>4
<1> QED  BY <1>13, <1>14, <1>15 DEF Listed, g

-----------------------------------------------------------------------------
(* Good hierarchies *)

Below(S, h, o) == {x \in S : h.up[x] = o}
NoLoop(S, h) == \A T \in SUBSET S : T # {} => \E x \in T : h.up[x] \notin T

Good(S, h) ==
  /\ S \subseteq Oids
  /\ h \in HierarchyType
  /\ \A o \in S : h.up[o] \in S \cup {NOTHING}
  /\ NoLoop(S, h)
  /\ \A o \in S : Listed(Below(S, h, o), h, o)
  /\ \A o \in Oids \ S : h.up[o] = NOTHING /\ h.down[o] = NOTHING /\ h.across[o] = NOTHING

\* Without a list that is listed, an object has none below it.
LEMMA FreeBelow ==
  ASSUME NEW S, NEW h, Good(S, h), NEW o \in Oids \ S
  PROVE  Below(S, h, o) = {}
BY RefFacts DEF Good, Below

\* An object that is somewhere leaves its list, and goes to the end of another.
LEMMA RelinkGood ==
  ASSUME NEW S, NEW h, Good(S, h), NEW o \in S, NEW to \in S \cup {NOTHING},
         NoLoop(S, Relink(h, o, to))
  PROVE  Good(S, Relink(h, o, to))
<1> DEFINE off == IF h.up[o] = NOTHING THEN h ELSE LL_REMOVE(h, h.up[o], o)
           on == IF to = NOTHING THEN off ELSE LL_APPEND(off, to, o)
           K(p) == Below(S, h, p) \ {o}
<1>1. /\ S \subseteq Oids /\ h \in HierarchyType /\ o \in Oids
      /\ \A p \in S : h.up[p] \in S \cup {NOTHING}
      /\ \A p \in S : Listed(Below(S, h, p), h, p)
      /\ \A p \in Oids \ S : h.up[p] = NOTHING /\ h.down[p] = NOTHING /\ h.across[p] = NOTHING
  BY DEF Good
<1>2. \A p \in S : K(p) \subseteq S /\ K(p) \in SUBSET Oids /\ o \notin K(p)
  BY <1>1 DEF Below
<1>3. /\ off \in HierarchyType /\ off.up = h.up
      /\ \A p \in S : Listed(K(p), off, p)
      /\ \A p \in Oids \ S : off.down[p] = NOTHING /\ off.across[p] = NOTHING
  <2>1. CASE h.up[o] = NOTHING
    <3>1. \A p \in S : K(p) = Below(S, h, p)
      BY <2>1, <1>1, RefFacts DEF Below
    <3> QED  BY <2>1, <3>1, <1>1
  <2>2. CASE h.up[o] # NOTHING
    <3> DEFINE q == h.up[o]
               L == Below(S, h, q)
    <3>1. q \in S /\ q \in Oids /\ L \in SUBSET Oids /\ L \subseteq S /\ o \in L /\ Listed(L, h, q)
          /\ h.up[o] = q
      BY <1>1, <2>2 DEF Below
    <3>2. off = LL_REMOVE(h, q, o)
      BY <2>2
    <3>3. \A p \in S : p # q => o \notin Below(S, h, p) /\ Below(S, h, p) \cap L = {}
      BY DEF Below
    <3> HIDE DEF q, L, off
    <3>4. /\ Listed(L \ {o}, off, q)
          /\ \A x \in Oids \ {q} : off.down[x] = h.down[x]
          /\ \A x \in Oids \ L : off.across[x] = h.across[x]
      <4>1. h \in HierarchyType
        BY <1>1
      <4>2. /\ Listed(L \ {o}, LL_REMOVE(h, q, o), q)
            /\ \A x \in Oids \ {q} : LL_REMOVE(h, q, o).down[x] = h.down[x]
            /\ \A x \in Oids \ L : LL_REMOVE(h, q, o).across[x] = h.across[x]
        BY ONLY <4>1, <3>1, RemoveList
      <4> QED  BY ONLY <4>2, <3>2
    <3>5. off \in HierarchyType /\ off.up = h.up
      <4>1. h \in HierarchyType /\ o \in Oids
        BY <1>1
      <4>2. LL_REMOVE(h, q, o) \in HierarchyType /\ LL_REMOVE(h, q, o).up = h.up
        BY ONLY <4>1, <3>1, RemoveFields
      <4> QED  BY ONLY <4>2, <3>2
    <3>6. ASSUME NEW p \in S PROVE Listed(K(p), off, p)
      <4>1. CASE p = q
        BY <3>4, <4>1 DEF L
      <4>2. CASE p # q
        <5>1. K(p) = Below(S, h, p)
          BY <3>3, <4>2
        <5>2. off.down[p] = h.down[p] /\ \A x \in Below(S, h, p) : off.across[x] = h.across[x]
          BY <1>1, <3>3, <3>4, <4>2 DEF Below
        <5>3. Listed(Below(S, h, p), h, p)
          BY <1>1
        <5>4. Listed(Below(S, h, p), off, p)
          BY ONLY <5>2, <5>3, ListFrame
        <5> QED  BY <5>1, <5>4
      <4> QED  BY <4>1, <4>2
    <3>7. ASSUME NEW p \in Oids \ S PROVE off.down[p] = NOTHING /\ off.across[p] = NOTHING
      BY <1>1, <3>1, <3>4
    <3> QED  BY <3>5, <3>6, <3>7
  <2> QED  BY <2>1, <2>2
<1> HIDE DEF off
<1> DEFINE N(p) == IF p = to THEN K(p) \cup {o} ELSE K(p)
<1>4. /\ on \in HierarchyType /\ on.up = h.up
      /\ \A p \in S : Listed(N(p), on, p)
      /\ \A p \in Oids \ S : on.down[p] = NOTHING /\ on.across[p] = NOTHING
  <2>1. CASE to = NOTHING
    <3>1. \A p \in S : N(p) = K(p)
      BY <2>1, <1>1, RefFacts
    <3> QED  BY <2>1, <3>1, <1>3
  <2>2. CASE to # NOTHING
    <3>1. to \in S /\ to \in Oids /\ K(to) \in SUBSET Oids /\ Listed(K(to), off, to)
          /\ o \in Oids \ K(to)
      BY <1>1, <1>2, <1>3, <2>2
    <3>2. on = LL_APPEND(off, to, o)
      BY <2>2
    <3>3. \A p \in S : p # to => K(p) \cap K(to) = {}
      BY DEF Below
    <3> HIDE DEF K, on
    <3>4. /\ Listed(K(to) \cup {o}, on, to)
          /\ \A x \in Oids \ {to} : on.down[x] = off.down[x]
          /\ \A x \in Oids \ (K(to) \cup {o}) : on.across[x] = off.across[x]
      <4>1. off \in HierarchyType
        BY <1>3
      <4>2. /\ Listed(K(to) \cup {o}, LL_APPEND(off, to, o), to)
            /\ \A x \in Oids \ {to} : LL_APPEND(off, to, o).down[x] = off.down[x]
            /\ \A x \in Oids \ (K(to) \cup {o}) : LL_APPEND(off, to, o).across[x] = off.across[x]
        BY ONLY <4>1, <3>1, AppendList
      <4> QED  BY ONLY <4>2, <3>2
    <3>5. on \in HierarchyType /\ on.up = off.up
      BY <1>1, <1>3, <3>1, <3>2, AppendFields
    <3>6. ASSUME NEW p \in S PROVE Listed(N(p), on, p)
      <4>1. CASE p = to
        BY <3>4, <4>1
      <4>2. CASE p # to
        <5>1. N(p) = K(p)
          BY <4>2
        <5>2. on.down[p] = off.down[p] /\ \A x \in K(p) : on.across[x] = off.across[x]
          BY <1>1, <1>2, <3>3, <3>4, <4>2
        <5>3. Listed(K(p), off, p)
          BY <1>3
        <5>4. Listed(K(p), on, p)
          BY ONLY <5>2, <5>3, ListFrame
        <5> QED  BY <5>1, <5>4
      <4> QED  BY <4>1, <4>2
    <3>7. ASSUME NEW p \in Oids \ S PROVE on.down[p] = NOTHING /\ on.across[p] = NOTHING
      <4>1. p # to /\ p # o /\ p \notin K(to)
        BY <1>1, <1>2, <3>1
      <4> QED  BY <1>3, <3>4, <4>1
    <3> QED  BY <1>3, <3>5, <3>6, <3>7
  <2> QED  BY <2>1, <2>2
<1> DEFINE g == [on EXCEPT !.up[o] = to]
<1>5. Relink(h, o, to) = g
  BY DEF Relink, off
<1> HIDE DEF on
<1>6. /\ g.up = [h.up EXCEPT ![o] = to] /\ g.down = on.down /\ g.across = on.across
      /\ g \in HierarchyType
  <2>1. /\ on = [up |-> on.up, down |-> on.down, across |-> on.across]
        /\ on.up \in [Oids -> Ref] /\ on.down \in [Oids -> Ref] /\ on.across \in [Oids -> Ref]
    BY <1>4, Fields
  <2>2. to \in Ref
    BY <1>1, RefFacts
  <2>3. g = [up |-> [on.up EXCEPT ![o] = to], down |-> on.down, across |-> on.across]
    BY <2>1
  <2> QED  BY <1>4, <2>1, <2>2, <2>3 DEF HierarchyType
<1> HIDE DEF g
<1>7. \A p \in S : Below(S, g, p) = N(p)
  <2>1. h.up \in [Oids -> Ref]
    BY <1>1, Fields
  <2> QED  BY <1>1, <1>6, <2>1 DEF Below
<1>8. \A p \in S : Listed(Below(S, g, p), g, p)
  <2> TAKE p \in S
  <2>1. Listed(N(p), on, p)
    BY <1>4
  <2> HIDE DEF N
  <2>2. Listed(N(p), g, p)
    BY <2>1, <1>6, ListFrame
  <2> QED  BY <1>7, <2>2
<1>9. \A p \in S : g.up[p] \in S \cup {NOTHING}
  <2>1. h.up \in [Oids -> Ref]
    BY <1>1, Fields
  <2> QED  BY <1>1, <1>6, <2>1
<1>10. \A p \in Oids \ S : g.up[p] = NOTHING /\ g.down[p] = NOTHING /\ g.across[p] = NOTHING
  BY <1>1, <1>4, <1>6
<1> QED  BY <1>1, <1>5, <1>6, <1>8, <1>9, <1>10 DEF Good

LEMMA RelinkFields ==
  ASSUME NEW h \in HierarchyType, NEW o \in Oids, NEW to \in Ref
  PROVE  /\ Relink(h, o, to) \in HierarchyType
         /\ Relink(h, o, to).up = [h.up EXCEPT ![o] = to]
<1> DEFINE off == IF h.up[o] = NOTHING THEN h ELSE LL_REMOVE(h, h.up[o], o)
           on == IF to = NOTHING THEN off ELSE LL_APPEND(off, to, o)
<1>1. off \in HierarchyType /\ off.up = h.up
  <2>1. CASE h.up[o] = NOTHING
    BY <2>1
  <2>2. CASE h.up[o] # NOTHING
    <3>1. h.up[o] \in Oids
      BY <2>2, Fields DEF Ref
    <3> QED  BY <2>2, <3>1, RemoveFields
  <2> QED  BY <2>1, <2>2
<1> HIDE DEF off
<1>2. on \in HierarchyType /\ on.up = h.up
  <2>1. CASE to = NOTHING
    BY <1>1, <2>1
  <2>2. CASE to # NOTHING
    <3>1. to \in Oids
      BY <2>2 DEF Ref
    <3>2. LL_APPEND(off, to, o) \in HierarchyType /\ LL_APPEND(off, to, o).up = off.up
      BY ONLY <1>1, <3>1, o \in Oids, AppendFields
    <3> QED  BY <1>1, <2>2, <3>2
  <2> QED  BY <2>1, <2>2
<1>3. Relink(h, o, to) = [on EXCEPT !.up[o] = to]
  BY DEF Relink, off
<1> HIDE DEF on
<1>4. /\ on = [up |-> on.up, down |-> on.down, across |-> on.across]
      /\ on.up \in [Oids -> Ref] /\ on.down \in [Oids -> Ref] /\ on.across \in [Oids -> Ref]
  BY <1>2, Fields
<1>5. Relink(h, o, to) = [up |-> [h.up EXCEPT ![o] = to], down |-> on.down, across |-> on.across]
  BY <1>2, <1>3, <1>4
<1>6. [h.up EXCEPT ![o] = to] \in [Oids -> Ref]
  BY <1>2, <1>4
<1> QED  BY <1>4, <1>5, <1>6 DEF HierarchyType

\* No object of a good hierarchy is below itself.
LEMMA NotOwnParent ==
  ASSUME NEW S, NEW h, Good(S, h), NEW o \in S
  PROVE  h.up[o] # o
<1>1. {o} \in SUBSET S /\ {o} # {}
  OBVIOUS
<1>2. \E x \in {o} : h.up[x] \notin {o}
  BY <1>1 DEF Good, NoLoop
<1> QED  BY <1>2

\* An object may always become a root ...
LEMMA RelinkOut ==
  ASSUME NEW S, NEW h, Good(S, h), NEW o \in S
  PROVE  Good(S, Relink(h, o, NOTHING))
<1>1. o \in Oids /\ NOTHING \in Ref /\ h \in HierarchyType /\ NoLoop(S, h) /\ S \subseteq Oids
      /\ h.up \in [Oids -> Ref]
  BY RefFacts, Fields DEF Good
<1>2. Relink(h, o, NOTHING).up = [h.up EXCEPT ![o] = NOTHING]
  BY <1>1, RelinkFields
<1>3. NoLoop(S, Relink(h, o, NOTHING))
  <2> SUFFICES ASSUME NEW T \in SUBSET S, T # {}
               PROVE  \E x \in T : [h.up EXCEPT ![o] = NOTHING][x] \notin T
    BY <1>2 DEF NoLoop
  <2>1. NOTHING \notin T
    BY <1>1, RefFacts
  <2>2. PICK x \in T : h.up[x] \notin T
    BY <1>1 DEF NoLoop
  <2> QED  BY <1>1, <2>1, <2>2
<1> QED  BY <1>3, RelinkGood

\* ... go below an object from which the way up does not pass it ...
LEMMA RelinkAway ==
  ASSUME NEW S, NEW h, Good(S, h), NEW o \in S, NEW C \in SUBSET S, NEW to \in C,
         o \notin C, \A x \in C : h.up[x] \in C \cup {NOTHING}
  PROVE  Good(S, Relink(h, o, to))
<1>1. /\ o \in Oids /\ to \in Ref /\ h \in HierarchyType /\ NoLoop(S, h) /\ S \subseteq Oids
      /\ h.up \in [Oids -> Ref] /\ to \in S
  BY RefFacts, Fields DEF Good
<1>2. Relink(h, o, to).up = [h.up EXCEPT ![o] = to]
  BY <1>1, RelinkFields
<1>3. NoLoop(S, Relink(h, o, to))
  <2> SUFFICES ASSUME NEW T \in SUBSET S, T # {},
                      \A x \in T : [h.up EXCEPT ![o] = to][x] \in T
               PROVE  FALSE
    BY <1>2 DEF NoLoop
  <2>1. \A x \in T : x # o => h.up[x] \in T
    BY <1>1
  <2>2. CASE o \notin T
    BY <2>1, <2>2, <1>1 DEF NoLoop
  <2>3. CASE o \in T
    <3>1. to \in T
      BY <1>1, <2>3
    <3>2. T \cap C \in SUBSET S /\ T \cap C # {}
      BY <3>1
    <3>3. PICK x \in T \cap C : h.up[x] \notin T \cap C
      BY <1>1, <3>2 DEF NoLoop
    <3>4. h.up[x] \in T
      BY <2>1, <3>3
    <3>5. NOTHING \notin T
      BY <1>1, RefFacts
    <3> QED  BY <3>3, <3>4, <3>5
  <2> QED  BY <2>2, <2>3
<1> QED  BY <1>1, <1>3, RelinkGood

\* ... and go to the parent of its parent.
LEMMA RelinkUp ==
  ASSUME NEW S, NEW h, Good(S, h), NEW o \in S, h.up[o] \in S
  PROVE  Good(S, Relink(h, o, h.up[h.up[o]]))
<1> DEFINE p == h.up[o]
           to == h.up[p]
<1>1. /\ o \in Oids /\ to \in Ref /\ h \in HierarchyType /\ NoLoop(S, h) /\ S \subseteq Oids
      /\ h.up \in [Oids -> Ref] /\ p \in S /\ to \in S \cup {NOTHING} /\ h.up[o] = p /\ h.up[p] = to
  BY RefFacts, Fields DEF Good
<1> HIDE DEF p, to
<1>2. Relink(h, o, to).up = [h.up EXCEPT ![o] = to]
  BY <1>1, RelinkFields
<1>3. NoLoop(S, Relink(h, o, to))
  <2> SUFFICES ASSUME NEW T \in SUBSET S, T # {},
                      \A x \in T : [h.up EXCEPT ![o] = to][x] \in T
               PROVE  FALSE
    BY <1>2 DEF NoLoop
  <2>1. \A x \in T : x # o => h.up[x] \in T
    BY <1>1
  <2>2. CASE o \notin T
    BY <2>1, <2>2, <1>1 DEF NoLoop
  <2>3. CASE o \in T
    <3>1. to \in T
      BY <1>1, <2>3
    <3>2. T \cup {p} \in SUBSET S /\ T \cup {p} # {}
      BY <1>1
    <3>3. PICK x \in T \cup {p} : h.up[x] \notin T \cup {p}
      BY <1>1, <3>2 DEF NoLoop
    <3> QED  BY <1>1, <2>1, <3>1, <3>3
  <2> QED  BY <2>2, <2>3
<1>4. Good(S, Relink(h, o, to))
  BY <1>1, <1>3, RelinkGood
<1> QED  BY <1>4 DEF to, p

-----------------------------------------------------------------------------
(* Emptying an object's list *)

LEMMA RelinkAllDef ==
  ASSUME NEW h \in HierarchyType, NEW o \in Oids, NEW to \in Ref
  PROVE  \E after \in [0..MaxObjs -> HierarchyType] :
           /\ RelinkAll(h, o, to) = after[MaxObjs]
           /\ after[0] = h
           /\ \A n \in 1..MaxObjs :
                after[n] = IF after[n - 1].down[o] = NOTHING THEN after[n - 1]
                           ELSE Relink(after[n - 1], after[n - 1].down[o], to)
<1> DEFINE Once(x) == IF x.down[o] = NOTHING THEN x ELSE Relink(x, x.down[o], to)
           g == [y \in HierarchyType \X (1..MaxObjs) |-> Once(y[1])]
           e(f) == [n \in 0..MaxObjs |-> IF n = 0 THEN h ELSE Once(f[n - 1])]
<1> USE RefFacts
<1>1. \A x \in HierarchyType : Once(x) \in HierarchyType
  <2> TAKE x \in HierarchyType
  <2>1. CASE x.down[o] = NOTHING
    BY <2>1
  <2>2. CASE x.down[o] # NOTHING
    <3>1. x.down[o] \in Oids
      BY <2>2, Fields DEF Ref
    <3> QED  BY <2>2, <3>1, RelinkFields
  <2> QED  BY <2>1, <2>2
<1>2. RelinkAll(h, o, to) = (CHOOSE f : f = e(f))[MaxObjs]
  BY DEF RelinkAll
<1> HIDE DEF Once
<1>3. IsStep(g, HierarchyType, MaxObjs)
  BY <1>1 DEF IsStep
<1>4. PICK f : IsRun(f, HierarchyType, h, MaxObjs, g)
  <2> HIDE DEF g
  <2> QED  BY <1>3, Recursion
<1>5. f \in [0..MaxObjs -> HierarchyType] /\ f[0] = h
  BY <1>4 DEF IsRun
<1>6. \A n \in 1..MaxObjs : f[n] = Once(f[n - 1])
  <2> TAKE n \in 1..MaxObjs
  <2>1. n - 1 \in 0..MaxObjs
    OBVIOUS
  <2>2. <<f[n - 1], n>> \in HierarchyType \X (1..MaxObjs)
    BY <2>1, <1>5
  <2>3. f[n] = g[<<f[n - 1], n>>]
    BY <1>4 DEF IsRun
  <2> QED  BY <2>2, <2>3
<1>7. f = e(f)
  <2>1. ASSUME NEW n \in 0..MaxObjs PROVE f[n] = e(f)[n]
    <3>1. n # 0 => n \in 1..MaxObjs
      OBVIOUS
    <3> QED  BY <3>1, <1>5, <1>6
  <2> QED  BY <2>1, <1>5
<1> DEFINE a == CHOOSE f1 : f1 = e(f1)
<1>8. a = e(a)
  <2> HIDE DEF e
  <2> QED  BY <1>7
<1> HIDE DEF a
<1>9. a[0] = h /\ \A n \in 1..MaxObjs : a[n] = Once(a[n - 1])
  <2>1. 0 \in 0..MaxObjs /\ \A n \in 1..MaxObjs : n \in 0..MaxObjs /\ n # 0
    OBVIOUS
  <2> QED  BY <1>8, <2>1
<1>10. a \in [0..MaxObjs -> HierarchyType]
  <2> DEFINE T == {k \in Nat : k <= MaxObjs => a[k] \in HierarchyType}
  <2>1. 0 \in T
    BY <1>9
  <2>2. ASSUME NEW k \in Nat, k \in T PROVE k + 1 \in T
    <3> SUFFICES ASSUME k + 1 <= MaxObjs PROVE a[k + 1] \in HierarchyType
      OBVIOUS
    <3>1. k + 1 \in 1..MaxObjs /\ (k + 1) - 1 = k /\ a[k] \in HierarchyType
      BY <2>2
    <3> QED  BY <3>1, <1>1, <1>9
  <2>3. Nat \subseteq T
    <3> HIDE DEF T
    <3> QED  BY <2>1, <2>2, NatClosed
  <2>4. \A k \in 0..MaxObjs : a[k] \in HierarchyType
    BY <2>3
  <2>5. a = [k \in 0..MaxObjs |-> a[k]]
    BY <1>8
  <2> QED  BY <2>4, <2>5
<1>11. RelinkAll(h, o, to) = a[MaxObjs]
  BY <1>2 DEF a
<1> QED  BY <1>9, <1>10, <1>11 DEF Once

\* recycle() takes the first child again and again: that it ends, and ends with
\* none, is that every child leaves.
LEMMA RelinkAllGood ==
  ASSUME NEW S, NEW h, NEW o, NEW to, Good(S, h), o \in S, to \in {NOTHING, h.up[o]}
  PROVE  /\ Good(S, RelinkAll(h, o, to))
         /\ Below(S, RelinkAll(h, o, to), o) = {}
         /\ \A x \in Oids : RelinkAll(h, o, to).up[x] = IF h.up[x] = o THEN to ELSE h.up[x]
<1>1. /\ S \subseteq Oids /\ o \in Oids /\ h \in HierarchyType /\ h.up \in [Oids -> Ref]
      /\ to \in S \cup {NOTHING} /\ to \in Ref /\ to # o /\ h.up[o] # o
  BY RefFacts, Fields, NotOwnParent DEF Good
<1>2. IsFiniteSet(Oids) /\ Cardinality(Oids) = MaxObjs
  <2>1. MaxObjs - 1 \in Int /\ ~ 0 > MaxObjs - 1
    BY RefFacts
  <2> QED  BY <2>1, RefFacts, FS_Interval DEF Oids
<1>3. PICK a \in [0..MaxObjs -> HierarchyType] :
           /\ RelinkAll(h, o, to) = a[MaxObjs]
           /\ a[0] = h
           /\ \A n \in 1..MaxObjs :
                a[n] = IF a[n - 1].down[o] = NOTHING THEN a[n - 1]
                       ELSE Relink(a[n - 1], a[n - 1].down[o], to)
  BY <1>1, RelinkAllDef
<1> DEFINE Ok(g, n) == /\ Good(S, g)
                       /\ \A x \in Oids : g.up[x] = h.up[x] \/ (h.up[x] = o /\ g.up[x] = to)
                       /\ Cardinality(Below(S, g, o)) <= MaxObjs - n
           T == {n \in Nat : n <= MaxObjs => Ok(a[n], n)}
<1>4. \A g : /\ IsFiniteSet(Below(S, g, o)) /\ Cardinality(Below(S, g, o)) \in Nat
             /\ Cardinality(Below(S, g, o)) <= MaxObjs
  <2> TAKE g
  <2>1. Below(S, g, o) \in SUBSET Oids
    BY <1>1 DEF Below
  <2> QED  BY <1>2, <2>1, FS_Subset, FS_CardinalityType
<1>5. 0 \in T
  BY <1>3, <1>4, RefFacts
<1>6. ASSUME NEW n \in Nat, n \in T PROVE n + 1 \in T
  <2> SUFFICES ASSUME n + 1 <= MaxObjs PROVE Ok(a[n + 1], n + 1)
    OBVIOUS
  <2> DEFINE g == a[n]
             k == g.down[o]
  <2>1. n + 1 \in 1..MaxObjs /\ (n + 1) - 1 = n
    BY RefFacts
  <2>2. Ok(g, n)
    BY <1>6, RefFacts
  <2>3. a[n + 1] = IF k = NOTHING THEN g ELSE Relink(g, k, to)
    BY <1>3, <2>1
  <2>4. /\ Good(S, g) /\ Below(S, g, o) \in SUBSET Oids /\ Listed(Below(S, g, o), g, o)
        /\ g \in HierarchyType /\ g.up \in [Oids -> Ref] /\ g.down[o] = k
    BY <1>1, <2>2, Fields DEF Good, Below
  <2> HIDE DEF g, k
  <2>5. CASE k = NOTHING
    <3>1. Below(S, g, o) = {}
      BY <2>4, <2>5, ListHead
    <3>2. Cardinality(Below(S, g, o)) = 0
      BY <3>1, FS_EmptySet
    <3> QED  BY <2>2, <2>3, <2>5, <3>2, RefFacts
  <2>6. CASE k # NOTHING
    <3>1. k \in Below(S, g, o)
      BY <2>4, <2>6, ListHead
    <3>2. k \in S /\ g.up[k] = o /\ k \in Oids
      BY <3>1, <1>1 DEF Below
    <3>3. g.up[o] = h.up[o]
      BY <1>1, <2>2
    <3>4. Good(S, Relink(g, k, to))
      <4>1. CASE to = NOTHING
        BY <2>4, <3>2, <4>1, RelinkOut
      <4>2. CASE to # NOTHING
        <5>1. to = g.up[g.up[k]]
          BY <3>2, <3>3, <4>2
        <5> QED  BY <2>4, <3>2, <5>1, RelinkUp
      <4> QED  BY <4>1, <4>2
    <3>5. Relink(g, k, to).up = [g.up EXCEPT ![k] = to]
      BY <1>1, <2>4, <3>2, RelinkFields
    <3>6. h.up[k] = o
      BY <1>1, <2>2, <3>2
    <3>7. \A x \in Oids : Relink(g, k, to).up[x] = h.up[x]
                          \/ (h.up[x] = o /\ Relink(g, k, to).up[x] = to)
      BY <2>2, <2>4, <3>5, <3>6
    <3>8. Below(S, Relink(g, k, to), o) = Below(S, g, o) \ {k}
      BY <1>1, <2>4, <3>5 DEF Below
    <3>9. Cardinality(Below(S, g, o) \ {k}) = Cardinality(Below(S, g, o)) - 1
      BY <1>4, <3>1, FS_RemoveElement
    <3>10. Cardinality(Below(S, g, o)) - 1 <= MaxObjs - (n + 1)
      BY <1>4, <2>2, RefFacts
    <3> QED  BY <2>3, <2>6, <3>4, <3>7, <3>8, <3>9, <3>10
  <2> QED  BY <2>5, <2>6
<1>7. Nat \subseteq T
  <2> HIDE DEF T
  <2> QED  BY <1>5, <1>6, NatClosed
<1>8. Ok(a[MaxObjs], MaxObjs)
  BY <1>7, RefFacts
<1> DEFINE r == RelinkAll(h, o, to)
<1>9. r = a[MaxObjs]
  BY <1>3
<1> HIDE DEF r
<1>10. Below(S, r, o) = {}
  <2>1. Cardinality(Below(S, r, o)) = 0
    BY <1>4, <1>8, <1>9, RefFacts
  <2> QED  BY <1>4, <2>1, FS_EmptySet
<1>11. \A x \in Oids : r.up[x] = IF h.up[x] = o THEN to ELSE h.up[x]
  <2> TAKE x \in Oids
  <2>1. r.up[x] = h.up[x] \/ (h.up[x] = o /\ r.up[x] = to)
    BY <1>8, <1>9
  <2>2. ASSUME h.up[x] = o PROVE r.up[x] # o
    <3>1. x \in S
      <4> SUFFICES ASSUME x \notin S PROVE FALSE
        OBVIOUS
      <4>1. h.up[x] = NOTHING
        BY DEF Good
      <4> QED  BY <1>1, <2>2, <4>1, RefFacts
    <3> QED  BY <1>10, <3>1 DEF Below
  <2> QED  BY <2>1, <2>2
<1> QED  BY <1>8, <1>9, <1>10, <1>11 DEF r

-----------------------------------------------------------------------------
(* Objects come, go and change their number *)

\* A number outside has no links, so its object is a root without a list.
LEMMA AddGood ==
  ASSUME NEW S, NEW h, Good(S, h), NEW o \in Oids \ S
  PROVE  Good(S \cup {o}, h)
<1>1. /\ S \subseteq Oids /\ h \in HierarchyType /\ NoLoop(S, h)
      /\ \A p \in S : h.up[p] \in S \cup {NOTHING}
      /\ h.up[o] = NOTHING /\ h.down[o] = NOTHING
      /\ \A p \in S : Listed(Below(S, h, p), h, p)
  BY DEF Good
<1>2. \A p \in Oids : Below(S \cup {o}, h, p) = Below(S, h, p)
  BY <1>1, RefFacts DEF Below
<1>3. Listed({}, h, o)
  BY <1>1, ListEmpty
<1>4. Below(S, h, o) = {}
  BY <1>1, RefFacts DEF Below
<1>5. \A p \in S \cup {o} : Listed(Below(S \cup {o}, h, p), h, p)
  BY <1>1, <1>2, <1>3, <1>4
<1>6. NoLoop(S \cup {o}, h)
  <2> SUFFICES ASSUME NEW T \in SUBSET (S \cup {o}), T # {}, \A x \in T : h.up[x] \in T
               PROVE  FALSE
    BY DEF NoLoop
  <2>1. o \notin T
    BY <1>1, RefFacts
  <2> QED  BY <1>1, <2>1 DEF NoLoop
<1> QED  BY <1>1, <1>5, <1>6 DEF Good

\* An object with nothing above or below it can be destroyed.
LEMMA DropGood ==
  ASSUME NEW S, NEW h, Good(S, h), NEW o \in S, h.up[o] = NOTHING, Below(S, h, o) = {}
  PROVE  Good(S \ {o}, [h EXCEPT !.across[o] = NOTHING])
<1> DEFINE g == [h EXCEPT !.across[o] = NOTHING]
<1>1. /\ S \subseteq Oids /\ h \in HierarchyType /\ NoLoop(S, h) /\ o \in Oids
      /\ \A p \in S : h.up[p] \in S \cup {NOTHING}
      /\ \A p \in S : Listed(Below(S, h, p), h, p)
      /\ \A p \in Oids \ S : h.up[p] = NOTHING /\ h.down[p] = NOTHING /\ h.across[p] = NOTHING
  BY DEF Good
<1>2. /\ h = [up |-> h.up, down |-> h.down, across |-> h.across]
      /\ h.up \in [Oids -> Ref] /\ h.down \in [Oids -> Ref] /\ h.across \in [Oids -> Ref]
  BY <1>1, Fields
<1>3. g = [up |-> h.up, down |-> h.down, across |-> [h.across EXCEPT ![o] = NOTHING]]
  BY <1>2
<1>4. /\ g \in HierarchyType /\ g.up = h.up /\ g.down = h.down
      /\ \A x \in Oids : g.across[x] = IF x = o THEN NOTHING ELSE h.across[x]
  BY <1>1, <1>2, <1>3, RefFacts DEF HierarchyType
<1> HIDE DEF g
<1>5. \A p \in S \ {o} : Below(S \ {o}, g, p) = Below(S, h, p) /\ o \notin Below(S, h, p)
  BY <1>1, <1>4, RefFacts DEF Below
<1>6. \A p \in S \ {o} : Listed(Below(S \ {o}, g, p), g, p)
  <2> TAKE p \in S \ {o}
  <2>1. g.down[p] = h.down[p] /\ \A x \in Below(S, h, p) : g.across[x] = h.across[x]
    BY <1>1, <1>4, <1>5 DEF Below
  <2>2. Listed(Below(S, h, p), g, p)
    BY <1>1, <2>1, ListFrame
  <2> QED  BY <1>5, <2>2
<1>7. NoLoop(S \ {o}, g)
  BY <1>1, <1>4 DEF NoLoop
<1>8. \A p \in S \ {o} : g.up[p] \in (S \ {o}) \cup {NOTHING}
  BY <1>1, <1>4 DEF Below
<1>9. h.down[o] = NOTHING
  BY <1>1, ListEmpty
<1>10. \A p \in Oids \ (S \ {o}) : g.up[p] = NOTHING /\ g.down[p] = NOTHING /\ g.across[p] = NOTHING
  BY <1>1, <1>4, <1>9
<1>11. Good(S \ {o}, g)
  BY <1>1, <1>4, <1>6, <1>7, <1>8, <1>10 DEF Good
<1> QED  BY <1>11 DEF g

\* A listing names an object once, so nothing on a list comes after itself.
LEMMA NotOwnNext ==
  ASSUME NEW K \in SUBSET Oids, NEW h, NEW o, Listed(K, h, o), NEW x \in K
  PROVE  h.across[x] # x /\ h.across[x] \in K \cup {NOTHING}
<1>1. PICK n, s : IsListing(K, h, o, n, s)
  BY DEF Listed
<1>2. PICK i \in 1..n : s[i] = x
  BY <1>1 DEF IsListing
<1>3. h.across[x] = IF i = n THEN NOTHING ELSE s[i + 1]
  BY <1>1, <1>2 DEF IsListing
<1>4. i # n => i + 1 \in 1..n /\ i + 1 # i
  BY <1>1, <1>2 DEF IsListing
<1>5. i # n => s[i + 1] # s[i] /\ s[i + 1] \in K
  BY <1>1, <1>2, <1>4 DEF IsListing
<1> QED  BY <1>2, <1>3, <1>5, RefFacts

\* db_renumber_object() finds and changes every field that leads to the object.
LEMMA RenamedFields ==
  ASSUME NEW S, NEW h, Good(S, h), NEW old \in S, NEW new \in Oids \ S
  PROVE  LET g == Renamed(h, old, new)
             to(x) == IF x = old THEN new ELSE x
         IN  /\ g \in HierarchyType
             /\ \A x \in S : g.up[to(x)] = to(h.up[x]) /\ g.down[to(x)] = to(h.down[x])
             /\ \A x \in S : h.up[x] # NOTHING => g.across[to(x)] = to(h.across[x])
             /\ \A x \in Oids \ ((S \ {old}) \cup {new}) :
                  g.up[x] = NOTHING /\ g.down[x] = NOTHING /\ g.across[x] = NOTHING
<1> DEFINE g == Renamed(h, old, new)
           to(x) == IF x = old THEN new ELSE x
           up == h.up[old]
           as(field, x) == IF x = new THEN field[old] ELSE IF x = old THEN NOTHING ELSE field[x]
<1>1. /\ S \subseteq Oids /\ h \in HierarchyType /\ old \in Oids
      /\ \A p \in S : h.up[p] \in S \cup {NOTHING}
      /\ \A p \in S : Listed(Below(S, h, p), h, p)
      /\ \A p \in Oids \ S : h.up[p] = NOTHING /\ h.down[p] = NOTHING /\ h.across[p] = NOTHING
      /\ h.up \in [Oids -> Ref] /\ h.down \in [Oids -> Ref] /\ h.across \in [Oids -> Ref]
      /\ up # old /\ up \in S \cup {NOTHING} /\ new # NOTHING /\ old # NOTHING /\ NOTHING \notin S
      /\ new # old
  BY RefFacts, Fields, NotOwnParent DEF Good
<1>2. \A p \in S : Below(S, h, p) \in SUBSET Oids
  BY <1>1 DEF Below
<1>3. \A p \in S : Passed(h, p) = Below(S, h, p)
  BY <1>1, <1>2, ListPassed
<1>4. \A p \in S : h.down[p] # NOTHING => h.down[p] \in Below(S, h, p)
  BY <1>1, <1>2, ListHead
<1>5. \A p \in S : \A x \in Below(S, h, p) : h.across[x] # x /\ h.across[x] \in Below(S, h, p) \cup {NOTHING}
  BY <1>1, <1>2, NotOwnNext
<1>6. up # NOTHING => \A x \in Oids : x \in Before(h, up, old) <=> x \in Below(S, h, up) /\ h.across[x] = old
  BY <1>1, <1>3 DEF Before
<1>7. \A x \in Oids : x \in Passed(h, old) <=> x \in S /\ h.up[x] = old
  BY <1>1, <1>3 DEF Below
<1> DEFINE fu == [x \in Oids |-> IF x \in Passed(h, old) THEN new ELSE as(h.up, x)]
           fd == [x \in Oids |-> IF x = up /\ h.down[x] = old THEN new ELSE as(h.down, x)]
           fa == [x \in Oids |-> IF up # NOTHING /\ x \in Before(h, up, old) THEN new
                                 ELSE as(h.across, x)]
<1>8. g = [up |-> fu, down |-> fd, across |-> fa]
  BY DEF Renamed
<1>9. fu \in [Oids -> Ref] /\ fd \in [Oids -> Ref] /\ fa \in [Oids -> Ref]
  BY <1>1, RefFacts
<1>10. g.up = fu /\ g.down = fd /\ g.across = fa /\ g \in HierarchyType
  BY <1>8, <1>9 DEF HierarchyType
<1>11. \A x \in Oids : g.up[x] = IF x \in S /\ h.up[x] = old THEN new ELSE as(h.up, x)
  BY <1>7, <1>10
<1>12. \A x \in Oids : g.down[x] = IF x = up /\ h.down[x] = old THEN new ELSE as(h.down, x)
  BY <1>10
<1>13. \A x \in Oids : g.across[x] = IF /\ up # NOTHING /\ x \in Below(S, h, up)
                                        /\ h.across[x] = old
                                     THEN new ELSE as(h.across, x)
  BY <1>6, <1>10
<1>14. g \in HierarchyType
  BY <1>10
<1> HIDE DEF g, fu, fd, fa
<1>15. \A x \in S : g.up[to(x)] = to(h.up[x])
  BY <1>1, <1>11
<1>16. ASSUME NEW x \in S PROVE g.down[to(x)] = to(h.down[x])
  <2>1. h.down[x] = old => x = up
    BY <1>1, <1>4 DEF Below
  <2> QED  BY <1>1, <1>12, <2>1
<1>17. ASSUME NEW x \in S, h.up[x] # NOTHING PROVE g.across[to(x)] = to(h.across[x])
  <2>1. h.up[x] \in S /\ x \in Below(S, h, h.up[x])
    BY <1>1, <1>17 DEF Below
  <2>2. h.across[x] # x /\ (h.across[x] = old => h.up[x] = up)
    BY <1>1, <1>5, <2>1 DEF Below
  <2>3. new \notin Below(S, h, up)
    BY DEF Below
  <2> QED  BY <1>1, <1>13, <2>1, <2>2, <2>3
<1>18. ASSUME NEW x \in Oids \ ((S \ {old}) \cup {new})
       PROVE  g.up[x] = NOTHING /\ g.down[x] = NOTHING /\ g.across[x] = NOTHING
  <2>1. CASE x = old
    <3>1. up # NOTHING /\ old \in Below(S, h, up) => h.across[old] # old
      BY <1>1, <1>5
    <3> QED  BY <1>1, <1>11, <1>12, <1>13, <2>1, <3>1
  <2>2. CASE x # old
    <3>1. x \in Oids \ S /\ x # new
      BY <2>2
    <3>2. x \notin Below(S, h, up) /\ x # up
      BY <1>1, <3>1, RefFacts DEF Below
    <3> QED  BY <1>1, <1>11, <1>12, <1>13, <2>2, <3>1, <3>2
  <2> QED  BY <2>1, <2>2
<1> QED  BY <1>14, <1>15, <1>16, <1>17, <1>18 DEF g

LEMMA RenamedGood ==
  ASSUME NEW S, NEW h, Good(S, h), NEW old \in S, NEW new \in Oids \ S
  PROVE  Good((S \ {old}) \cup {new}, Renamed(h, old, new))
<1> DEFINE g == Renamed(h, old, new)
           to(x) == IF x = old THEN new ELSE x
           R == (S \ {old}) \cup {new}
<1>1. /\ g \in HierarchyType
      /\ \A x \in S : g.up[to(x)] = to(h.up[x]) /\ g.down[to(x)] = to(h.down[x])
      /\ \A x \in S : h.up[x] # NOTHING => g.across[to(x)] = to(h.across[x])
      /\ \A x \in Oids \ R : g.up[x] = NOTHING /\ g.down[x] = NOTHING /\ g.across[x] = NOTHING
  BY RenamedFields
<1> HIDE DEF g
<1>2. /\ S \subseteq Oids /\ old \in Oids /\ NoLoop(S, h)
      /\ \A p \in S : h.up[p] \in S \cup {NOTHING}
      /\ \A p \in S : Listed(Below(S, h, p), h, p)
      /\ new # NOTHING /\ old # NOTHING /\ NOTHING \notin S /\ NOTHING \notin R /\ NOTHING \notin Oids
  BY RefFacts DEF Good
<1>3. /\ \A x \in S : to(x) \in R
      /\ \A y \in R : \E x \in S : y = to(x)
      /\ \A x, y \in S \cup {NOTHING} : to(x) = to(y) => x = y
      /\ to(NOTHING) = NOTHING
  <2>1. ASSUME NEW y \in R PROVE \E x \in S : y = to(x)
    <3>1. CASE y = new
      BY <3>1
    <3>2. CASE y # new
      BY <3>2
    <3> QED  BY <3>1, <3>2
  <2> QED  BY <1>2, <2>1
<1> HIDE DEF to, R
<1>4. \A y \in R : g.up[y] \in R \cup {NOTHING}
  <2> TAKE y \in R
  <2>1. PICK x \in S : y = to(x)
    BY <1>3
  <2>2. h.up[x] \in S \cup {NOTHING} /\ g.up[y] = to(h.up[x])
    BY <1>1, <1>2, <2>1
  <2> QED  BY <1>3, <2>2
<1>5. NoLoop(R, g)
  <2> SUFFICES ASSUME NEW T \in SUBSET R, T # {}, \A y \in T : g.up[y] \in T PROVE FALSE
    BY DEF NoLoop
  <2> DEFINE U == {x \in S : to(x) \in T}
  <2>1. U \in SUBSET S /\ U # {}
    BY <1>3
  <2>2. PICK x \in U : h.up[x] \notin U
    BY <1>2, <2>1 DEF NoLoop
  <2>3. to(h.up[x]) \in T /\ h.up[x] \in S \cup {NOTHING}
    BY <1>1, <1>2, <2>2
  <2>4. NOTHING \notin T
    BY <1>2
  <2>5. h.up[x] # NOTHING
    BY <1>3, <2>3, <2>4
  <2> QED  BY <2>2, <2>3, <2>5
<1>6. \A q \in R : Listed(Below(R, g, q), g, q)
  <2> TAKE q \in R
  <2>1. PICK p \in S : q = to(p)
    BY <1>3
  <2>2. PICK n, s : IsListing(Below(S, h, p), h, p, n, s)
    BY <1>2 DEF Listed
  <2>3. /\ n \in Nat /\ s \in [1..n -> Below(S, h, p)]
        /\ \A i, j \in 1..n : s[i] = s[j] => i = j
        /\ \A x \in Below(S, h, p) : \E i \in 1..n : s[i] = x
        /\ h.down[p] = IF n = 0 THEN NOTHING ELSE s[1]
        /\ \A i \in 1..n : h.across[s[i]] = IF i = n THEN NOTHING ELSE s[i + 1]
    BY <2>2 DEF IsListing
  <2>4. \A x \in S : to(x) \in Below(R, g, q) <=> x \in Below(S, h, p)
    <3> TAKE x \in S
    <3>1. to(x) \in R /\ g.up[to(x)] = to(h.up[x]) /\ h.up[x] \in S \cup {NOTHING}
      BY <1>1, <1>2, <1>3
    <3>2. g.up[to(x)] = q <=> h.up[x] = p
      BY <1>3, <2>1, <3>1
    <3> QED  BY <3>1, <3>2 DEF Below
  <2>5. \A i \in 1..n : s[i] \in S /\ s[i] \in Below(S, h, p)
    BY <2>3 DEF Below
  <2> DEFINE t == [i \in 1..n |-> to(s[i])]
  <2>6. t \in [1..n -> Below(R, g, q)]
    BY <2>4, <2>5
  <2>7. \A i, j \in 1..n : t[i] = t[j] => i = j
    BY <1>3, <2>3, <2>5
  <2>8. \A y \in Below(R, g, q) : \E i \in 1..n : t[i] = y
    <3> TAKE y \in Below(R, g, q)
    <3>1. PICK x \in S : y = to(x)
      BY <1>3 DEF Below
    <3>2. PICK i \in 1..n : s[i] = x
      BY <2>3, <2>4, <3>1
    <3> QED  BY <3>1, <3>2
  <2>9. g.down[q] = IF n = 0 THEN NOTHING ELSE t[1]
    <3>1. g.down[q] = to(h.down[p])
      BY <1>1, <2>1
    <3>2. n # 0 => 1 \in 1..n
      BY <2>3
    <3> QED  BY <1>3, <2>3, <3>1, <3>2
  <2>10. \A i \in 1..n : g.across[t[i]] = IF i = n THEN NOTHING ELSE t[i + 1]
    <3> TAKE i \in 1..n
    <3>1. h.up[s[i]] = p /\ s[i] \in S /\ p # NOTHING
      BY <1>2, <2>5 DEF Below
    <3>2. g.across[to(s[i])] = to(h.across[s[i]])
      BY <1>1, <3>1
    <3>3. i # n => i + 1 \in 1..n
      BY <2>3
    <3> QED  BY <1>3, <2>3, <3>2, <3>3
  <2>11. IsListing(Below(R, g, q), g, q, n, t)
    <3> HIDE DEF t
    <3> QED  BY <2>3, <2>6, <2>7, <2>8, <2>9, <2>10 DEF IsListing
  <2> QED  BY <2>11 DEF Listed
<1>7. R \subseteq Oids
  BY <1>2 DEF R
<1>8. Good(R, g)
  BY <1>1, <1>4, <1>5, <1>6, <1>7 DEF Good
<1> QED  BY <1>8 DEF g, R

-----------------------------------------------------------------------------
(* validate_hierarchies() *)

\* Where a walk comes to the same object twice, it goes on in the same way.
LEMMA NthShift ==
  ASSUME NEW field \in [Oids -> Ref], NEW start \in Ref, NEW i \in Nat, NEW j \in Nat,
         Nth(field, start, i) = Nth(field, start, j)
  PROVE  \A m \in Nat : Nth(field, start, i + m) = Nth(field, start, j + m)
<1> DEFINE T == {m \in Nat : Nth(field, start, i + m) = Nth(field, start, j + m)}
<1>1. 0 \in T
  OBVIOUS
<1>2. ASSUME NEW m \in Nat, m \in T PROVE m + 1 \in T
  <2>1. /\ i + m \in Nat /\ j + m \in Nat
        /\ (i + m) + 1 = i + (m + 1) /\ (j + m) + 1 = j + (m + 1)
    OBVIOUS
  <2>2. /\ Nth(field, start, (i + m) + 1)
             = IF Nth(field, start, i + m) = NOTHING THEN NOTHING
               ELSE field[Nth(field, start, i + m)]
        /\ Nth(field, start, (j + m) + 1)
             = IF Nth(field, start, j + m) = NOTHING THEN NOTHING
               ELSE field[Nth(field, start, j + m)]
    BY <2>1, NthStep
  <2>3. Nth(field, start, i + m) = Nth(field, start, j + m)
    BY <1>2
  <2>4. Nth(field, start, i + (m + 1)) = Nth(field, start, j + (m + 1))
    BY <2>1, <2>2, <2>3
  <2> QED  BY <2>4
<1>3. Nat \subseteq T
  <2> HIDE DEF T
  <2> QED  BY <1>1, <1>2, NatClosed
<1> QED  BY <1>3

\* A walk stays at its end.
LEMMA NthStays ==
  ASSUME NEW field \in [Oids -> Ref], NEW start \in Ref, NEW n \in Nat,
         Nth(field, start, n) = NOTHING
  PROVE  \A k \in Nat : k >= n => Nth(field, start, k) = NOTHING
<1> DEFINE T == {m \in Nat : Nth(field, start, n + m) = NOTHING}
<1>1. 0 \in T
  OBVIOUS
<1>2. ASSUME NEW m \in Nat, m \in T PROVE m + 1 \in T
  <2>1. n + m \in Nat /\ (n + m) + 1 = n + (m + 1)
    OBVIOUS
  <2>2. Nth(field, start, n + m) = NOTHING
    BY <1>2
  <2>3. Nth(field, start, (n + m) + 1) = NOTHING
    BY <2>1, <2>2, NthStep
  <2>4. Nth(field, start, n + (m + 1)) = NOTHING
    BY <2>1, <2>3
  <2> QED  BY <2>4
<1>3. Nat \subseteq T
  <2> HIDE DEF T
  <2> QED  BY <1>1, <1>2, NatClosed
<1>4. ASSUME NEW k \in Nat, k >= n PROVE Nth(field, start, k) = NOTHING
  <2>1. k - n \in Nat /\ n + (k - n) = k
    BY <1>4
  <2>2. Nth(field, start, n + (k - n)) = NOTHING
    BY <1>3, <2>1
  <2> QED  BY <2>1, <2>2
<1> QED  BY <1>4

\* A walk inside T.
LEMMA NthInside ==
  ASSUME NEW field \in [Oids -> Ref], NEW start \in Ref, NEW T, start \in T,
         \A x \in T : x # NOTHING => field[x] \in T
  PROVE  \A k \in Nat : Nth(field, start, k) \in T \cup {NOTHING}
<1> DEFINE U == {k \in Nat : Nth(field, start, k) \in T \cup {NOTHING}}
<1>1. 0 \in U
  BY NthStep
<1>2. ASSUME NEW k \in Nat, k \in U PROVE k + 1 \in U
  <2>1. Nth(field, start, k + 1) = IF Nth(field, start, k) = NOTHING THEN NOTHING
                                   ELSE field[Nth(field, start, k)]
    BY NthStep
  <2>2. Nth(field, start, k) \in T \cup {NOTHING}
    BY <1>2
  <2>3. Nth(field, start, k + 1) \in T \cup {NOTHING}
    BY <2>1, <2>2
  <2> QED  BY <2>3
<1>3. Nat \subseteq U
  <2> HIDE DEF U
  <2> QED  BY <1>1, <1>2, NatClosed
<1> QED  BY <1>3

\* Some multiple of a period p is between b and b + p - 1.
LEMMA Multiple ==
  ASSUME NEW M \in SUBSET Nat, NEW p \in Nat, p >= 1, p \in M, \A m \in M : m + p \in M,
         NEW b \in Nat, b >= 1
  PROVE  \E m \in M : b <= m /\ m <= b + p - 1
<1> DEFINE T == {n \in Nat : \E m \in M : n + 1 <= m /\ m <= n + p}
<1>1. 0 \in T
  OBVIOUS
<1>2. ASSUME NEW n \in Nat, n \in T PROVE n + 1 \in T
  <2>1. PICK m \in M : n + 1 <= m /\ m <= n + p
    BY <1>2
  <2>2. CASE m = n + 1
    <3>1. m + p \in M /\ (n + 1) + 1 <= m + p /\ m + p <= (n + 1) + p
      BY <2>2
    <3> QED  BY <3>1
  <2>3. CASE m # n + 1
    <3>1. (n + 1) + 1 <= m /\ m <= (n + 1) + p
      BY <2>1, <2>3
    <3> QED  BY <3>1
  <2> QED  BY <2>2, <2>3
<1>3. Nat \subseteq T
  <2> HIDE DEF T
  <2> QED  BY <1>1, <1>2, NatClosed
<1>4. b - 1 \in Nat
  OBVIOUS
<1>5. PICK m \in M : (b - 1) + 1 <= m /\ m <= (b - 1) + p
  BY <1>3, <1>4
<1> QED  BY <1>5

\* `faster' meets `slower' on every walk that does not come to an end, within as
\* many steps as there are objects.
LEMMA CycleIsFound ==
  ASSUME NEW field \in [Oids -> Ref], NEW start \in Ref, ~CycleFound(field, start)
  PROVE  \E k \in 0..MaxObjs : Nth(field, start, k) = NOTHING
<1> DEFINE at(k) == Nth(field, start, k)
<1> SUFFICES ASSUME \A k \in 0..MaxObjs : at(k) # NOTHING PROVE CycleFound(field, start)
  OBVIOUS
<1>1. MaxObjs \in Nat /\ MaxObjs >= 1
  BY RefFacts
<1>2. \A k \in Nat : at(k) \in Ref
  BY NthStep
<1>3. \E i, j \in 0..MaxObjs : i # j /\ at(i) = at(j)
  <2> DEFINE f == [k \in 0..MaxObjs |-> at(k)]
  <2>1. \A k \in 0..MaxObjs : at(k) \in Oids
    BY <1>1, <1>2 DEF Ref
  <2>2. f \in [0..MaxObjs -> Oids]
    BY <2>1
  <2>3. IsFiniteSet(Oids) /\ Cardinality(Oids) = MaxObjs
    <3>1. MaxObjs - 1 \in Int /\ ~ 0 > MaxObjs - 1
      BY RefFacts
    <3> QED  BY <3>1, RefFacts, FS_Interval DEF Oids
  <2>4. IsFiniteSet(0..MaxObjs) /\ Cardinality(0..MaxObjs) = MaxObjs + 1
    BY <1>1, FS_Interval
  <2> HIDE DEF f
  <2>5. \E x, y \in 0..MaxObjs : x # y /\ f[x] = f[y]
    <3>1. Cardinality(Oids) < Cardinality(0..MaxObjs)
      BY <1>1, <2>3, <2>4
    <3> QED  BY ONLY <2>2, <2>3, <2>4, <3>1, FS_PigeonHole
  <2> QED  BY <2>5 DEF f
<1>4. PICK i \in 0..MaxObjs, j \in 0..MaxObjs : i < j /\ at(i) = at(j)
  <2>1. PICK i \in 0..MaxObjs, j \in 0..MaxObjs : i # j /\ at(i) = at(j)
    BY <1>3
  <2>2. CASE i < j
    BY <2>1, <2>2
  <2>3. CASE j < i
    BY <2>1, <2>3
  <2> QED  BY <2>1, <2>2, <2>3, <1>1
<1> DEFINE p == j - i
<1>5. i \in Nat /\ j \in Nat /\ p \in Nat /\ p >= 1 /\ i + p = j /\ j <= MaxObjs
  BY <1>1, <1>4
<1>6. \A m \in Nat : at(i + m) = at(j + m)
  BY <1>4, <1>5, NthShift
<1> HIDE DEF at, p
<1>7. \A a \in Nat : a >= i => at(a + p) = at(a)
  <2> TAKE a \in Nat
  <2> SUFFICES ASSUME a >= i PROVE at(a + p) = at(a)
    OBVIOUS
  <2>1. a - i \in Nat /\ i + (a - i) = a /\ j + (a - i) = a + p
    BY <1>5
  <2>2. at(i + (a - i)) = at(j + (a - i))
    BY <1>6, <2>1
  <2> QED  BY <2>1, <2>2
<1>8. \A k \in Nat : at(k) # NOTHING
  <2> DEFINE E == {k \in Nat : at(k) = NOTHING}
  <2> SUFFICES ASSUME E # {} PROVE FALSE
    OBVIOUS
  <2>1. PICK k \in E : \A l \in E : k <= l
    <3>1. E \in SUBSET Nat
      OBVIOUS
    <3> HIDE DEF E
    <3> QED  BY <3>1, Least
  <2>2. k \in Nat /\ k > MaxObjs
    BY <1>1 DEF at
  <2>3. k - p \in Nat /\ k - p >= i /\ (k - p) + p = k /\ k - p < k
    BY <1>5, <2>2, <1>1
  <2>4. at((k - p) + p) = at(k - p)
    BY <1>7, <2>3
  <2>5. k - p \in E
    BY <2>3, <2>4
  <2> QED  BY <2>1, <2>2, <2>3, <2>5
<1> DEFINE M == {m \in Nat : \A a \in Nat : a >= i => at(a + m) = at(a)}
<1>9. p \in M
  BY <1>5, <1>7
<1>10. \A m \in M : m + p \in M
  <2> TAKE m \in M
  <2>1. ASSUME NEW a \in Nat, a >= i PROVE at(a + (m + p)) = at(a)
    <3>1. a + m \in Nat /\ a + m >= i /\ (a + m) + p = a + (m + p)
      BY <1>5, <2>1
    <3>2. at((a + m) + p) = at(a + m) /\ at(a + m) = at(a)
      BY <1>7, <2>1, <3>1
    <3> QED  BY <3>1, <3>2
  <2> QED  BY <1>5, <2>1
<1>11. PICK n \in M : n >= i /\ n >= 1 /\ n <= MaxObjs
  <2> DEFINE b == IF i = 0 THEN 1 ELSE i
  <2>1. b \in Nat /\ b >= 1 /\ b >= i /\ b + p - 1 <= MaxObjs
    BY <1>1, <1>5
  <2>2. M \in SUBSET Nat
    OBVIOUS
  <2> HIDE DEF b, M
  <2>3. \E m \in M : b <= m /\ m <= b + p - 1
    BY ONLY <2>1, <2>2, <1>5, <1>9, <1>10, Multiple
  <2> QED  BY <1>1, <1>5, <2>1, <2>2, <2>3
<1>12. n \in 1..MaxObjs /\ n \in Nat /\ 2 * n - 1 \in Nat /\ n + n = 2 * n
  BY <1>1, <1>11
<1>13. at(2 * n) = at(n)
  <2>1. at(n + n) = at(n)
    BY <1>11, <1>12
  <2> QED  BY <1>12, <2>1
<1>14. at(2 * n - 1) # NOTHING
  BY <1>8, <1>12
<1> QED  BY <1>12, <1>13, <1>14 DEF CycleFound, at

\* Without a cycle upwards there is no set of objects without a way out.
LEMMA NoCycleNoLoop ==
  ASSUME NEW S \in SUBSET Oids, NEW h \in HierarchyType,
         \A o \in S : ~CycleFound(h.up, h.up[o])
  PROVE  NoLoop(S, h)
<1> SUFFICES ASSUME NEW T \in SUBSET S, NEW o \in T, \A x \in T : h.up[x] \in T
             PROVE  FALSE
  BY DEF NoLoop
<1>1. h.up \in [Oids -> Ref] /\ h.up[o] \in Ref /\ NOTHING \notin T
  BY Fields, RefFacts
<1> DEFINE field == h.up
           start == field[o]
<1>2. start \in T /\ start \in Ref /\ field \in [Oids -> Ref] /\ \A x \in T : field[x] \in T
  BY <1>1
<1>3. ~CycleFound(field, start)
  OBVIOUS
<1> HIDE DEF field, start
<1>4. PICK k \in 0..MaxObjs : Nth(field, start, k) = NOTHING
  BY <1>2, <1>3, CycleIsFound
<1> DEFINE U == {n \in Nat : Nth(field, start, n) \in T}
<1>5. 0 \in U
  BY <1>2, NthStep
<1>6. ASSUME NEW n \in Nat, n \in U PROVE n + 1 \in U
  <2>1. Nth(field, start, n + 1) = IF Nth(field, start, n) = NOTHING THEN NOTHING
                                   ELSE field[Nth(field, start, n)]
    BY <1>2, NthStep
  <2>2. Nth(field, start, n) \in T
    BY <1>6
  <2>3. Nth(field, start, n + 1) \in T
    BY <1>1, <1>2, <2>1, <2>2
  <2> QED  BY <2>3
<1>7. Nat \subseteq U
  <2> HIDE DEF U
  <2> QED  BY <1>5, <1>6, NatClosed
<1>8. Nth(field, start, k) \in T
  BY <1>7, RefFacts
<1> QED  BY <1>1, <1>4, <1>8

\* A list without a cycle is the list of what a loop over it passes.
LEMMA NoCycleListed ==
  ASSUME NEW h \in HierarchyType, NEW o \in Oids, ~CycleFound(h.across, h.down[o])
  PROVE  Listed(Passed(h, o), h, o)
<1> DEFINE at(k) == Nth(h.across, h.down[o], k)
           K == Passed(h, o)
<1>1. h.across \in [Oids -> Ref] /\ h.down[o] \in Ref /\ MaxObjs \in Nat /\ MaxObjs >= 1
  BY Fields, RefFacts
<1>2. \E k \in 0..MaxObjs : at(k) = NOTHING
  BY <1>1, CycleIsFound
<1>3. /\ at(0) = h.down[o]
      /\ \A k \in Nat : at(k) \in Ref
      /\ \A k \in Nat : at(k + 1) = IF at(k) = NOTHING THEN NOTHING ELSE h.across[at(k)]
  BY <1>1, NthStep
<1>4. \A n \in Nat : at(n) = NOTHING => \A k \in Nat : k >= n => at(k) = NOTHING
  BY <1>1, NthStays
<1>5. \A i, j \in Nat : at(i) = at(j) => \A m \in Nat : at(i + m) = at(j + m)
  BY <1>1, NthShift
<1>6. K = {at(k) : k \in 0..(MaxObjs - 1)} \ {NOTHING}
  BY DEF Passed
<1> HIDE DEF at, K
<1>7. PICK n \in {k \in Nat : at(k) = NOTHING} : \A k \in {k \in Nat : at(k) = NOTHING} : n <= k
  <2> DEFINE E == {k \in Nat : at(k) = NOTHING}
  <2>1. E \in SUBSET Nat /\ E # {}
    BY <1>1, <1>2
  <2> HIDE DEF E
  <2>2. \E x \in E : \A y \in E : x <= y
    BY <2>1, Least
  <2> QED  BY <2>2 DEF E
<1>8. n \in Nat /\ at(n) = NOTHING /\ n <= MaxObjs /\ \A k \in Nat : at(k) = NOTHING <=> k >= n
  BY <1>1, <1>2, <1>4, <1>7
<1> DEFINE s == [i \in 1..n |-> at(i - 1)]
<1>9. \A i \in 1..n : i - 1 \in Nat /\ i - 1 \in 0..(MaxObjs - 1) /\ ~ i - 1 >= n /\ (i - 1) + 1 = i
  BY <1>1, <1>8
<1>10. s \in [1..n -> K]
  <2>1. \A i \in 1..n : at(i - 1) \in K
    BY <1>6, <1>8, <1>9
  <2> QED  BY <2>1
<1>11. \A x \in K : \E i \in 1..n : s[i] = x
  <2> TAKE x \in K
  <2>1. PICK k \in 0..(MaxObjs - 1) : x = at(k) /\ x # NOTHING
    BY <1>6
  <2>2. k \in Nat /\ k < n
    BY <1>1, <1>8, <2>1
  <2>3. k + 1 \in 1..n /\ (k + 1) - 1 = k
    BY <1>8, <2>2
  <2>4. s[k + 1] = x
    BY <2>1, <2>3
  <2> QED  BY <2>3, <2>4
<1>12. \A i, j \in 1..n : s[i] = s[j] => i = j
  <2>1. ASSUME NEW i \in 1..n, NEW j \in 1..n, i < j, at(i - 1) = at(j - 1) PROVE FALSE
    <3>1. /\ i - 1 \in Nat /\ j - 1 \in Nat /\ n - (j - 1) \in Nat
          /\ (j - 1) + (n - (j - 1)) = n
          /\ (i - 1) + (n - (j - 1)) \in Nat /\ (i - 1) + (n - (j - 1)) < n
      BY <1>8, <2>1
    <3>2. at((i - 1) + (n - (j - 1))) = at((j - 1) + (n - (j - 1)))
      BY <1>5, <2>1, <3>1
    <3>3. at((i - 1) + (n - (j - 1))) = NOTHING
      BY <1>8, <3>1, <3>2
    <3> QED  BY <1>8, <3>1, <3>3
  <2> TAKE i, j \in 1..n
  <2>2. i < j \/ j < i \/ i = j
    BY <1>8
  <2> QED  BY <2>1, <2>2
<1>13. h.down[o] = IF n = 0 THEN NOTHING ELSE s[1]
  <2>1. n # 0 => 1 \in 1..n /\ s[1] = at(0)
    BY <1>8
  <2> QED  BY <1>3, <1>8, <2>1
<1>14. \A i \in 1..n : h.across[s[i]] = IF i = n THEN NOTHING ELSE s[i + 1]
  <2> TAKE i \in 1..n
  <2>1. at(i - 1) # NOTHING
    BY <1>8, <1>9
  <2>2. at((i - 1) + 1) = h.across[at(i - 1)]
    BY <1>3, <1>9, <2>1
  <2>3. at(i) = h.across[at(i - 1)]
    BY <1>9, <2>2
  <2>4. i # n => i + 1 \in 1..n /\ s[i + 1] = at(i)
    BY <1>8
  <2> QED  BY <1>8, <2>3, <2>4
<1>15. IsListing(K, h, o, n, s)
  <2> HIDE DEF s
  <2> QED  BY <1>8, <1>10, <1>11, <1>12, <1>13, <1>14 DEF IsListing
<1>16. Listed(K, h, o)
  BY <1>15 DEF Listed
<1> QED  BY <1>16 DEF K

\* References lead to objects or nowhere.
Closed(S, h) ==
  \A o \in Oids : /\ {h.up[o], h.down[o], h.across[o]} \subseteq S \cup {NOTHING}
                  /\ o \notin S => {h.up[o], h.down[o], h.across[o]} = {NOTHING}

\* The second and third phase let only forests pass ...
LEMMA PassedIsGood ==
  ASSUME NEW h \in HierarchyType, objs \subseteq Oids, Closed(objs, h), ValidHierarchy(h)
  PROVE  Good(objs, h)
<1>1. /\ \A o \in objs : ~CycleFound(h.up, h.up[o]) /\ ~CycleFound(h.across, h.down[o])
      /\ \A o \in objs : \A x \in Passed(h, o) : h.up[x] = o
      /\ \A o \in objs : h.up[o] # NOTHING => Claimed(h, o)
  BY DEF ValidHierarchy, Cycles, Delusions
<1>2. NoLoop(objs, h)
  BY <1>1, NoCycleNoLoop
<1>3. ASSUME NEW o \in objs PROVE Listed(Below(objs, h, o), h, o)
  <2>1. Listed(Passed(h, o), h, o)
    BY <1>1, NoCycleListed
  <2>2. ASSUME NEW x \in Passed(h, o) PROVE x \in Below(objs, h, o)
    <3>1. PICK k \in 0..(MaxObjs - 1) : x = Nth(h.across, h.down[o], k) /\ x # NOTHING
      BY DEF Passed
    <3> DEFINE field == h.across
               start == h.down[o]
               T == objs \cup {NOTHING}
    <3>2. field \in [Oids -> Ref] /\ start \in Ref
      BY Fields
    <3>3. start \in T /\ \A y \in T : y # NOTHING => field[y] \in T
      BY DEF Closed
    <3>4. x = Nth(field, start, k) /\ k \in Nat
      BY <3>1, RefFacts
    <3> HIDE DEF field, start, T
    <3>5. \A m \in Nat : Nth(field, start, m) \in T \cup {NOTHING}
      BY ONLY <3>2, <3>3, NthInside
    <3>6. x \in objs
      BY <3>1, <3>4, <3>5 DEF T
    <3> QED  BY <1>1, <3>6 DEF Below
  <2>3. ASSUME NEW x \in Below(objs, h, o) PROVE x \in Passed(h, o)
    <3>1. x \in objs /\ h.up[x] = o /\ o # NOTHING
      BY RefFacts DEF Below
    <3> QED  BY <1>1, <3>1 DEF Claimed
  <2>4. Passed(h, o) = Below(objs, h, o)
    BY <2>2, <2>3
  <2> QED  BY <2>1, <2>4
<1> QED  BY <1>2, <1>3 DEF Good, Closed

\* ... and every forest.
LEMMA GoodPasses ==
  ASSUME NEW h, Good(objs, h)
  PROVE  ValidHierarchy(h)
<1>1. /\ objs \subseteq Oids /\ h \in HierarchyType /\ NoLoop(objs, h) /\ NOTHING \notin objs
      /\ \A p \in objs : h.up[p] \in objs \cup {NOTHING}
      /\ \A p \in objs : Listed(Below(objs, h, p), h, p)
      /\ h.up \in [Oids -> Ref] /\ h.across \in [Oids -> Ref] /\ h.down \in [Oids -> Ref]
  BY Fields, RefFacts DEF Good
<1>2. \A p \in objs : Below(objs, h, p) \in SUBSET Oids
  BY <1>1 DEF Below
<1>3. \A p \in objs : Passed(h, p) = Below(objs, h, p)
  BY <1>1, <1>2, ListPassed
<1>4. ASSUME NEW o \in objs, CycleFound(h.up, h.up[o]) PROVE FALSE
  <2> DEFINE field == h.up
             start == h.up[o]
             at(k) == Nth(field, start, k)
  <2>1. PICK n \in 1..MaxObjs : at(2 * n - 1) # NOTHING /\ at(2 * n) = at(n)
    BY <1>4 DEF CycleFound
  <2>2. n \in Nat /\ n >= 1 /\ MaxObjs \in Nat
    BY RefFacts
  <2>3. field \in [Oids -> Ref] /\ start \in Ref /\ start \in objs \cup {NOTHING}
        /\ \A y \in objs \cup {NOTHING} : y # NOTHING => field[y] \in objs \cup {NOTHING}
    BY <1>1
  <2> HIDE DEF field, start
  <2>4. \A m \in Nat : at(m) \in (objs \cup {NOTHING}) \cup {NOTHING}
    <3> DEFINE V == objs \cup {NOTHING}
    <3>1. start \in V /\ \A y \in V : y # NOTHING => field[y] \in V
      BY <2>3
    <3> HIDE DEF V
    <3>2. \A m \in Nat : Nth(field, start, m) \in V \cup {NOTHING}
      BY <2>3, <3>1, NthInside
    <3> QED  BY <3>2 DEF V
  <2>5. \A m \in Nat : at(m + 1) = IF at(m) = NOTHING THEN NOTHING ELSE field[at(m)]
    BY <2>3, NthStep
  <2>6. \A m \in Nat : at(m) = NOTHING => \A k \in Nat : k >= m => at(k) = NOTHING
    BY <2>3, NthStays
  <2> HIDE DEF at
  <2> DEFINE T == {at(k) : k \in n..(2 * n - 1)}
  <2>7. \A k \in n..(2 * n - 1) : k \in Nat /\ k <= 2 * n - 1 /\ at(k) # NOTHING /\ at(k) \in objs
    <3> TAKE k \in n..(2 * n - 1)
    <3>1. k \in Nat /\ k <= 2 * n - 1 /\ 2 * n - 1 \in Nat
      BY <2>2
    <3>2. at(k) # NOTHING
      BY <2>1, <2>6, <3>1
    <3> QED  BY <2>4, <3>1, <3>2
  <2>8. n \in n..(2 * n - 1)
    BY <2>2
  <2>9. T \in SUBSET objs /\ T # {}
    BY <2>7, <2>8
  <2>10. PICK x \in T : h.up[x] \notin T
    <3> HIDE DEF T
    <3> QED  BY <1>1, <2>9 DEF NoLoop
  <2>11. PICK k \in n..(2 * n - 1) : x = at(k)
    BY <2>10
  <2>12. h.up[x] = at(k + 1)
    BY <2>5, <2>7, <2>11 DEF field
  <2>13. CASE k = 2 * n - 1
    <3>1. k + 1 = 2 * n
      BY <2>2, <2>13
    <3> QED  BY <2>1, <2>8, <2>10, <2>12, <3>1
  <2>14. CASE k # 2 * n - 1
    <3>1. k + 1 \in n..(2 * n - 1)
      BY <2>2, <2>14
    <3> QED  BY <2>10, <2>12, <3>1
  <2> QED  BY <2>13, <2>14
<1>5. ASSUME NEW o \in objs, CycleFound(h.across, h.down[o]) PROVE FALSE
  <2>1. PICK m, s : IsListing(Below(objs, h, o), h, o, m, s)
    BY <1>1 DEF Listed
  <2>2. \A k \in Nat : Nth(h.across, h.down[o], k) = IF k < m THEN s[k + 1] ELSE NOTHING
    BY <1>1, <1>2, <2>1, ListWalk
  <2>3. PICK n \in 1..MaxObjs : /\ Nth(h.across, h.down[o], 2 * n - 1) # NOTHING
                                /\ Nth(h.across, h.down[o], 2 * n) = Nth(h.across, h.down[o], n)
    BY <1>5 DEF CycleFound
  <2>4. n \in Nat /\ n >= 1 /\ 2 * n \in Nat /\ 2 * n - 1 \in Nat /\ n <= 2 * n - 1 /\ n # 2 * n
        /\ m \in Nat
    BY <2>1, RefFacts DEF IsListing
  <2>5. n < m /\ n + 1 \in 1..m
    BY <2>2, <2>3, <2>4
  <2>6. s[n + 1] \in objs /\ s[n + 1] # NOTHING
    BY <1>1, <2>1, <2>5 DEF IsListing, Below
  <2>7. Nth(h.across, h.down[o], 2 * n) = s[n + 1]
    BY <2>2, <2>3, <2>4, <2>5
  <2>8. 2 * n < m /\ s[2 * n + 1] = s[n + 1] /\ 2 * n + 1 \in 1..m
    BY <2>2, <2>4, <2>6, <2>7
  <2>9. 2 * n + 1 = n + 1
    BY <2>1, <2>5, <2>8 DEF IsListing
  <2> QED  BY <2>4, <2>9
<1>6. \A o \in objs : \A x \in Passed(h, o) : h.up[x] = o
  BY <1>3 DEF Below
<1>7. \A o \in objs : h.up[o] # NOTHING => Claimed(h, o)
  BY <1>1, <1>3 DEF Below, Claimed
<1> QED  BY <1>4, <1>5, <1>6, <1>7 DEF ValidHierarchy, Cycles, Delusions

-----------------------------------------------------------------------------
(* WellFormed is told with sequences that are as long as there are objects *)

LEMMA ListsIsListed ==
  ASSUME NEW h, NEW o, objs \subseteq Oids
  PROVE  Lists(h, o) <=> Listed(Kids(h, o), h, o)
<1> DEFINE K == Kids(h, o)
<1>1. K \in SUBSET Oids /\ IsFiniteSet(K) /\ Cardinality(K) \in Nat
  <2>1. K \in SUBSET Oids
    BY DEF Kids
  <2>2. IsFiniteSet(Oids)
    <3>1. MaxObjs - 1 \in Int
      BY RefFacts
    <3> QED  BY <3>1, FS_Interval DEF Oids
  <2> QED  BY <2>1, <2>2, FS_Subset, FS_CardinalityType
<1> HIDE DEF K
<1> DEFINE c == Cardinality(K)
<1>2. IsFiniteSet(1..c) /\ Cardinality(1..c) = c
  BY <1>1, FS_Interval
<1>3. ASSUME Lists(h, o) PROVE Listed(K, h, o)
  <2>1. PICK s \in SetToSeqs(K) :
          /\ h.down[o] = IF s = <<>> THEN NOTHING ELSE s[1]
          /\ \A i \in DOMAIN s :
               h.across[s[i]] = IF i = Len(s) THEN NOTHING ELSE s[i + 1]
    BY <1>3 DEF Lists, K
  <2>2. s \in [1..c -> K] /\ \A i, j \in 1..c : i # j => s[i] # s[j]
    BY <2>1 DEF SetToSeqs
  <2>3. s \in Injection(1..c, K)
    BY <2>2 DEF Injection, IsInjective
  <2>4. s \in Surjection(1..c, K)
    BY <1>1, <1>2, <2>3, FS_Injection
  <2>5. \A x \in K : \E i \in 1..c : s[i] = x
    BY <2>4 DEF Surjection
  <2>6. s \in Seq(K) /\ Len(s) = c /\ DOMAIN s = 1..c
    BY <1>1, <2>2
  <2>7. s = <<>> <=> c = 0
    BY <1>1, <2>6
  <2>8. IsListing(K, h, o, c, s)
    <3> HIDE DEF c
    <3> QED  BY <1>1, <2>1, <2>2, <2>5, <2>6, <2>7 DEF IsListing, c
  <2> QED  BY <2>8 DEF Listed
<1>4. ASSUME Listed(K, h, o) PROVE Lists(h, o)
  <2>1. PICK n, s : IsListing(K, h, o, n, s)
    BY <1>4 DEF Listed
  <2>2. /\ n \in Nat /\ s \in [1..n -> K]
        /\ \A i, j \in 1..n : s[i] = s[j] => i = j
        /\ \A x \in K : \E i \in 1..n : s[i] = x
        /\ h.down[o] = IF n = 0 THEN NOTHING ELSE s[1]
        /\ \A i \in 1..n : h.across[s[i]] = IF i = n THEN NOTHING ELSE s[i + 1]
    BY <2>1 DEF IsListing
  <2>3. s \in Injection(1..n, K) /\ s \in Surjection(1..n, K)
    BY <2>2 DEF Injection, IsInjective, Surjection
  <2>4. c = n
    <3>1. IsFiniteSet(1..n) /\ Cardinality(1..n) = n
      BY <2>2, FS_Interval
    <3>2. Cardinality(1..n) = Cardinality(K)
      BY <1>1, <2>3, FS_Injection
    <3> QED  BY <3>1, <3>2
  <2>5. s \in SetToSeqs(K)
    BY <2>2, <2>4 DEF SetToSeqs
  <2>6. s \in Seq(K) /\ Len(s) = n /\ DOMAIN s = 1..n
    BY <2>2
  <2>7. s = <<>> <=> n = 0
    BY <2>2, <2>6
  <2>8. /\ h.down[o] = IF s = <<>> THEN NOTHING ELSE s[1]
        /\ \A i \in DOMAIN s :
             h.across[s[i]] = IF i = Len(s) THEN NOTHING ELSE s[i + 1]
    BY <2>2, <2>6, <2>7
  <2> QED  BY <2>5, <2>8 DEF Lists, K
<1> QED  BY <1>3, <1>4 DEF K

LEMMA WellFormedIsGood ==
  ASSUME NEW h \in HierarchyType, objs \subseteq Oids, Closed(objs, h)
  PROVE  WellFormed(h) <=> Good(objs, h)
<1>1. \A o \in objs : Kids(h, o) = Below(objs, h, o)
  BY DEF Kids, Below
<1>2. \A o \in objs : Lists(h, o) <=> Listed(Below(objs, h, o), h, o)
  BY <1>1, ListsIsListed
<1>3. Acyclic(h) <=> NoLoop(objs, h)
  BY DEF Acyclic, NoLoop
<1> QED  BY <1>2, <1>3 DEF WellFormed, Good, Closed

LEMMA GoodIsWellFormed ==
  ASSUME NEW h, Good(objs, h)
  PROVE  WellFormed(h)
<1>1. objs \subseteq Oids
  BY DEF Good
<1>2. \A o \in objs : Kids(h, o) = Below(objs, h, o)
  BY DEF Kids, Below
<1>3. \A o \in objs : Lists(h, o) <=> Listed(Below(objs, h, o), h, o)
  BY <1>1, <1>2, ListsIsListed
<1>4. Acyclic(h) <=> NoLoop(objs, h)
  BY DEF Acyclic, NoLoop
<1> QED  BY <1>3, <1>4 DEF WellFormed, Good

-----------------------------------------------------------------------------
(* The operations of the built-in functions *)

\* The test that chparent() and move() make.
LEMMA RelinkAllowed ==
  ASSUME NEW h, Good(objs, h), NEW o \in objs, NEW to \in objs \cup {NOTHING},
         o \notin AtOrAbove(h, to)
  PROVE  Good(objs, Relink(h, o, to))
<1>1. CASE to = NOTHING
  BY <1>1, RelinkOut
<1>2. CASE to # NOTHING
  <2>1. PICK C \in SUBSET objs : /\ to \in C /\ \A y \in C : h.up[y] \in C \cup {NOTHING}
                                 /\ o \notin C
    BY <1>2 DEF AtOrAbove
  <2> QED  BY <2>1, RelinkAway
<1> QED  BY <1>1, <1>2

LEMMA CreateGood ==
  ASSUME NEW S, NEW h, Good(S, h), NEW o \in Oids \ S, NEW to \in S \cup {NOTHING}
  PROVE  Good(S \cup {o}, Relink(h, o, to))
<1>1. Good(S \cup {o}, h)
  BY AddGood
<1>2. CASE to = NOTHING
  BY <1>1, <1>2, RelinkOut
<1>3. CASE to # NOTHING
  <2>1. S \in SUBSET (S \cup {o}) /\ to \in S /\ o \notin S /\ o \in S \cup {o}
    BY <1>3
  <2>2. \A x \in S : h.up[x] \in S \cup {NOTHING}
    BY DEF Good
  <2> QED  BY <1>1, <2>1, <2>2, RelinkAway
<1> QED  BY <1>2, <1>3

LEMMA DestroyGood ==
  ASSUME NEW S, NEW h, Good(S, h), NEW o \in S, NEW to \in {NOTHING, h.up[o]}
  PROVE  LET left == Relink(RelinkAll(h, o, to), o, NOTHING)
         IN  Good(S \ {o}, [left EXCEPT !.across[o] = NOTHING])
<1>a. Good(S, RelinkAll(h, o, to)) /\ Below(S, RelinkAll(h, o, to), o) = {}
  BY RelinkAllGood
<1> DEFINE a == RelinkAll(h, o, to)
           b == Relink(a, o, NOTHING)
<1>1. Good(S, a) /\ Below(S, a, o) = {}
  BY <1>a
<1> HIDE DEF a
<1>2. Good(S, b)
  BY <1>1, RelinkOut
<1>3. a \in HierarchyType /\ o \in Oids /\ S \subseteq Oids
  BY <1>1 DEF Good
<1>4. b.up = [a.up EXCEPT ![o] = NOTHING] /\ a.up \in [Oids -> Ref]
  BY <1>3, RelinkFields, RefFacts, Fields
<1> HIDE DEF b
<1>5. b.up[o] = NOTHING /\ Below(S, b, o) = {}
  BY <1>1, <1>3, <1>4, RefFacts DEF Below
<1>6. Good(S \ {o}, [b EXCEPT !.across[o] = NOTHING])
  BY <1>2, <1>5, DropGood
<1> QED  BY <1>6 DEF a, b

-----------------------------------------------------------------------------
(* The inductive invariant *)

Fresh(h) == \A o \in Oids \ objs : h.up[o] = NOTHING /\ h.down[o] = NOTHING /\ h.across[o] = NOTHING

\* A database that is read may say anything of its objects, but nothing of the
\* numbers without one; nothing happens to a database that is refused.
Trees ==
  /\ status = "file" => Fresh(par) /\ Fresh(loc)
  /\ status = "up" => Good(objs, par) /\ Good(objs, loc)
  /\ status # "up" => \A c \in Calls : call[c] = NoCall
  /\ RefusedIsBroken

IInv == TypeOK /\ UsersExact /\ Trees

\* References to objects that are not there are gone after the first phase.
LEMMA FixedClosed ==
  ASSUME NEW h, objs \subseteq Oids, Fresh(h)
  PROVE  Fixed(h) \in HierarchyType /\ Closed(objs, Fixed(h))
<1> DEFINE ok(r) == IF r \in objs THEN r ELSE NOTHING
           u == [o \in Oids |-> ok(h.up[o])]
           d == [o \in Oids |-> ok(h.down[o])]
           a == [o \in Oids |-> ok(h.across[o])]
<1>1. Fixed(h) = [up |-> u, down |-> d, across |-> a]
  BY DEF Fixed
<1>2. u \in [Oids -> Ref] /\ d \in [Oids -> Ref] /\ a \in [Oids -> Ref]
  BY RefFacts
<1>3. Fixed(h).up = u /\ Fixed(h).down = d /\ Fixed(h).across = a
      /\ Fixed(h) \in HierarchyType
  BY <1>1, <1>2 DEF HierarchyType
<1>4. \A o \in Oids : {u[o], d[o], a[o]} \subseteq objs \cup {NOTHING}
  OBVIOUS
<1>5. \A o \in Oids : o \notin objs => u[o] = NOTHING /\ d[o] = NOTHING /\ a[o] = NOTHING
  BY RefFacts DEF Fresh
<1> HIDE DEF u, d, a
<1>6. \A o \in Oids : o \notin objs => {u[o], d[o], a[o]} = {NOTHING}
  BY <1>5
<1> QED  BY <1>3, <1>4, <1>6 DEF Closed

LEMMA FixedNextClosed ==
  ASSUME NEW h \in HierarchyType, objs \subseteq Oids, Fresh(h)
  PROVE  FixedNext(h) \in HierarchyType /\ Closed(objs, FixedNext(h))
<1> DEFINE f == [o \in Oids |-> IF h.up[o] = NOTHING THEN NOTHING ELSE h.across[o]]
           g == [h EXCEPT !.across = f]
<1>1. g = [up |-> h.up, down |-> h.down, across |-> f]
  BY Fields
<1>2. Fresh(g)
  BY <1>1 DEF Fresh
<1>3. FixedNext(h) = Fixed(g)
  BY DEF FixedNext
<1> HIDE DEF g
<1> QED  BY <1>2, <1>3, FixedClosed

LEMMA ObjsFacts ==
  ASSUME TypeOK
  PROVE  objs \subseteq Oids /\ num_objects \notin objs /\ IsFiniteSet(objs)
<1>1. /\ num_objects \in Int /\ num_objects <= MaxObjs /\ MaxObjs \in Int
      /\ objs \subseteq 0..(num_objects - 1)
  BY RefFacts DEF TypeOK
<1>2. objs \subseteq Oids /\ num_objects \notin objs
  BY <1>1 DEF Oids
<1>3. IsFiniteSet(0..(num_objects - 1))
  BY <1>1, FS_Interval
<1> QED  BY <1>1, <1>2, <1>3, FS_Subset

LEMMA LoadStep ==
  ASSUME IInv, Load
  PROVE  IInv'
<1> USE DEF IInv
<1>a. /\ status = "file"
      /\ par' = Fixed(par) /\ loc' = FixedNext(loc)
      /\ status' = IF ValidHierarchy(par') /\ ValidHierarchy(loc') THEN "up" ELSE "refused"
      /\ UNCHANGED <<objs, num_objects, user, all_users, call>>
  BY DEF Load
<1>b. objs \subseteq Oids /\ par \in HierarchyType /\ loc \in HierarchyType
  BY ObjsFacts DEF TypeOK
<1>c. Fresh(par) /\ Fresh(loc) /\ \A c \in Calls : call[c] = NoCall
  BY <1>a DEF Trees
<1>1. /\ status = "file" /\ TypeOK /\ objs \subseteq Oids /\ Fresh(par) /\ Fresh(loc)
      /\ par \in HierarchyType /\ loc \in HierarchyType
      /\ par' = Fixed(par) /\ loc' = FixedNext(loc)
      /\ status' = IF ValidHierarchy(par') /\ ValidHierarchy(loc') THEN "up" ELSE "refused"
      /\ UNCHANGED <<objs, num_objects, user, all_users, call>>
      /\ \A c \in Calls : call[c] = NoCall
  BY <1>a, <1>b, <1>c
<1> DEFINE p == Fixed(par)
           l == FixedNext(loc)
<1>2. /\ p \in HierarchyType /\ Closed(objs, p)
      /\ l \in HierarchyType /\ Closed(objs, l)
  BY <1>1, FixedClosed, FixedNextClosed
<1>3. par' = p /\ loc' = l
  BY <1>1
<1> HIDE DEF p, l
<1>4. status' = IF ValidHierarchy(p) /\ ValidHierarchy(l) THEN "up" ELSE "refused"
  <2>1. ValidHierarchy(par') <=> ValidHierarchy(p)
    BY <1>1, <1>3
  <2>2. ValidHierarchy(loc') <=> ValidHierarchy(l)
    BY <1>1, <1>3
  <2> QED  BY <1>1, <2>1, <2>2
<1>5. TypeOK'
  BY <1>1, <1>2, <1>3 DEF TypeOK
<1>6. UsersExact'
  BY <1>1 DEF UsersExact
<1>7. CASE ValidHierarchy(p) /\ ValidHierarchy(l)
  <2>1. Good(objs, p) /\ Good(objs, l)
    BY <1>1, <1>2, <1>7, PassedIsGood
  <2>2. status' = "up"
    BY <1>4, <1>7
  <2> QED  BY <1>1, <1>3, <1>5, <1>6, <2>1, <2>2 DEF Trees, RefusedIsBroken
<1>8. CASE ~(ValidHierarchy(p) /\ ValidHierarchy(l))
  <2>1. ~(WellFormed(p) /\ WellFormed(l))
    BY <1>1, <1>2, <1>8, WellFormedIsGood, GoodPasses
  <2>2. status' = "refused"
    BY <1>4, <1>8
  <2>3. ~(WellFormed(par)' /\ WellFormed(loc)')
    <3>1. WellFormed(par)' <=> WellFormed(p)
      BY <1>1, <1>3 DEF WellFormed, Acyclic, Lists, Kids
    <3>2. WellFormed(loc)' <=> WellFormed(l)
      BY <1>1, <1>3 DEF WellFormed, Acyclic, Lists, Kids
    <3> QED  BY <2>1, <3>1, <3>2
  <2> QED  BY <1>1, <1>5, <1>6, <2>2, <2>3 DEF Trees, RefusedIsBroken
<1> QED  BY <1>7, <1>8

CallType == [Calls -> [fn : {"none", "move", "recycle"}, what : Ref, where : Ref]]

\* What a step has to keep once the server runs.
LEMMA UpStep ==
  ASSUME status' = "up", Good(objs', par'), Good(objs', loc'),
         num_objects' \in 0..MaxObjs, objs' \subseteq 0..(num_objects' - 1),
         user' \subseteq objs', all_users' = user', call' \in CallType
  PROVE  IInv'
<1>1. objs' \subseteq Oids /\ par' \in HierarchyType /\ loc' \in HierarchyType
  BY DEF Good
<1>2. TypeOK'
  BY <1>1 DEF TypeOK, CallType
<1>3. UsersExact'
  BY DEF UsersExact
<1>4. Trees'
  BY DEF Trees, RefusedIsBroken
<1> QED  BY <1>2, <1>3, <1>4 DEF IInv

LEMMA UpFacts ==
  ASSUME IInv, status = "up"
  PROVE  /\ Good(objs, par) /\ Good(objs, loc)
         /\ objs \subseteq Oids /\ num_objects \notin objs /\ IsFiniteSet(objs)
         /\ num_objects \in 0..MaxObjs /\ objs \subseteq 0..(num_objects - 1)
         /\ user \subseteq objs /\ all_users = user /\ call \in CallType
BY ObjsFacts DEF IInv, TypeOK, UsersExact, Trees, CallType

\* Nothing waits for a verb before the database is accepted.
LEMMA CallsAreUp ==
  ASSUME IInv, NEW c \in Calls, call[c] # NoCall
  PROVE  status = "up"
BY DEF IInv, Trees

LEMMA CallCleared ==
  ASSUME call \in CallType, NEW c \in Calls
  PROVE  [call EXCEPT ![c] = NoCall] \in CallType
BY RefFacts DEF CallType, NoCall

LEMMA CallMade ==
  ASSUME call \in CallType, NEW c \in Calls, NEW fn \in {"move", "recycle"},
         NEW what \in Ref, NEW where \in Ref
  PROVE  [call EXCEPT ![c] = CallOf(fn, what, where)] \in CallType
BY DEF CallType, CallOf

LEMMA CreateStep ==
  ASSUME IInv, Create
  PROVE  IInv'
<1>1. PICK p \in objs \cup {NOTHING} :
        /\ status = "up"
        /\ num_objects < MaxObjs
        /\ objs' = objs \cup {num_objects}
        /\ num_objects' = num_objects + 1
        /\ par' = Relink(par, num_objects, p)
        /\ UNCHANGED <<status, loc, user, all_users, call>>
  BY DEF Create
<1>2. /\ Good(objs, par) /\ Good(objs, loc)
      /\ num_objects \in Nat /\ num_objects \notin objs /\ num_objects \in 0..MaxObjs
      /\ objs \subseteq 0..(num_objects - 1)
      /\ user \subseteq objs /\ all_users = user /\ call \in CallType
  BY <1>1, UpFacts, RefFacts
<1>3. num_objects \in Oids \ objs
  BY <1>1, <1>2, RefFacts DEF Oids
<1>4. Good(objs \cup {num_objects}, Relink(par, num_objects, p))
  BY <1>2, <1>3, CreateGood
<1>5. Good(objs \cup {num_objects}, loc)
  BY <1>2, <1>3, AddGood
<1>6. Good(objs', par') /\ Good(objs', loc')
  BY <1>1, <1>4, <1>5
<1>7. num_objects' \in 0..MaxObjs /\ objs' \subseteq 0..(num_objects' - 1)
  BY <1>1, <1>2, RefFacts
<1> QED  BY <1>1, <1>2, <1>6, <1>7, UpStep

LEMMA ChparentStep ==
  ASSUME IInv, Chparent
  PROVE  IInv'
<1>1. PICK o \in objs, p \in objs \cup {NOTHING} :
        /\ status = "up"
        /\ o \notin AtOrAbove(par, p)
        /\ par' = Relink(par, o, p)
        /\ UNCHANGED <<status, objs, num_objects, loc, user, all_users, call>>
  BY DEF Chparent
<1>2. /\ Good(objs, par) /\ Good(objs, loc)
      /\ num_objects \in 0..MaxObjs /\ objs \subseteq 0..(num_objects - 1)
      /\ user \subseteq objs /\ all_users = user /\ call \in CallType
  BY <1>1, UpFacts
<1>3. Good(objs, Relink(par, o, p))
  BY <1>1, <1>2, RelinkAllowed
<1>4. Good(objs', par') /\ Good(objs', loc')
  BY <1>1, <1>2, <1>3
<1> QED  BY <1>1, <1>2, <1>4, UpStep

LEMMA RenumberStep ==
  ASSUME IInv, Renumber
  PROVE  IInv'
<1>1. PICK old \in objs, new \in Oids \ objs :
        /\ status = "up"
        /\ new < old
        /\ objs' = (objs \ {old}) \cup {new}
        /\ par' = Renamed(par, old, new)
        /\ loc' = Renamed(loc, old, new)
        /\ user' = IF old \in user THEN (user \ {old}) \cup {new} ELSE user
        /\ all_users' = IF old \in user /\ old \in all_users
                        THEN (all_users \ {old}) \cup {new} ELSE all_users
        /\ UNCHANGED <<status, num_objects, call>>
  BY DEF Renumber
<1>2. /\ Good(objs, par) /\ Good(objs, loc)
      /\ num_objects \in 0..MaxObjs /\ objs \subseteq 0..(num_objects - 1)
      /\ user \subseteq objs /\ all_users = user /\ call \in CallType
  BY <1>1, UpFacts
<1>3. /\ Good((objs \ {old}) \cup {new}, Renamed(par, old, new))
      /\ Good((objs \ {old}) \cup {new}, Renamed(loc, old, new))
  BY <1>2, RenamedGood
<1>4. Good(objs', par') /\ Good(objs', loc')
  BY <1>1, <1>3
<1>5. objs' \subseteq 0..(num_objects - 1)
  <2>1. old \in 0..(num_objects - 1) /\ new \in Nat
    BY <1>2, RefFacts
  <2>2. new \in 0..(num_objects - 1)
    BY <1>1, <1>2, <2>1, RefFacts
  <2> QED  BY <1>1, <1>2, <2>2
<1>6. user' \subseteq objs' /\ all_users' = user'
  BY <1>1, <1>2
<1> QED  BY <1>1, <1>2, <1>4, <1>5, <1>6, UpStep

LEMMA ResetMaxObjectStep ==
  ASSUME IInv, ResetMaxObject
  PROVE  IInv'
<1>1. /\ status = "up" /\ objs # {}
      /\ num_objects' = Max(objs) + 1
      /\ UNCHANGED <<status, objs, par, loc, user, all_users, call>>
  BY DEF ResetMaxObject
<1>2. /\ Good(objs, par) /\ Good(objs, loc)
      /\ num_objects \in 0..MaxObjs /\ objs \subseteq 0..(num_objects - 1)
      /\ user \subseteq objs /\ all_users = user /\ call \in CallType
  BY <1>1, UpFacts
<1>3. Max(objs) \in objs /\ \A x \in objs : Max(objs) >= x
  <2>1. /\ objs \in SUBSET Int /\ num_objects \in Int
        /\ \A x \in objs : x <= num_objects
    BY <1>2, RefFacts
  <2>2. \E x \in objs : \A y \in objs : x >= y
    BY <1>1, <2>1, Greatest
  <2> QED  BY <2>2 DEF Max
<1>4. num_objects' \in 0..MaxObjs /\ objs' \subseteq 0..(num_objects' - 1)
  <2> DEFINE m == Max(objs)
  <2>1. /\ m \in objs /\ \A x \in objs : m >= x
        /\ num_objects' = m + 1 /\ objs' = objs
    BY <1>1, <1>3
  <2> HIDE DEF m
  <2>2. m \in 0..(num_objects - 1) /\ num_objects \in 0..MaxObjs /\ MaxObjs \in Nat
    BY <1>2, <2>1, RefFacts
  <2>3. \A x \in objs : x \in Nat /\ x <= m
    BY <1>2, <2>1, <2>2
  <2> QED  BY <2>1, <2>2, <2>3
<1>5. Good(objs', par') /\ Good(objs', loc')
  BY <1>1, <1>2
<1> QED  BY <1>1, <1>2, <1>4, <1>5, UpStep

LEMMA SetPlayerFlagStep ==
  ASSUME IInv, SetPlayerFlag
  PROVE  IInv'
<1>1. PICK o \in objs, yes \in BOOLEAN :
        /\ status = "up"
        /\ user' = IF yes THEN user \cup {o} ELSE user \ {o}
        /\ all_users' = IF yes THEN all_users \cup {o} ELSE all_users \ {o}
        /\ UNCHANGED <<status, objs, num_objects, par, loc, call>>
  BY DEF SetPlayerFlag
<1>2. /\ Good(objs, par) /\ Good(objs, loc)
      /\ num_objects \in 0..MaxObjs /\ objs \subseteq 0..(num_objects - 1)
      /\ user \subseteq objs /\ all_users = user /\ call \in CallType
  BY <1>1, UpFacts
<1>3. Good(objs', par') /\ Good(objs', loc')
  BY <1>1, <1>2
<1> QED  BY <1>1, <1>2, <1>3, UpStep

\* Whatever has become of the two objects.
LEMMA DoMoveStep ==
  ASSUME IInv, status = "up", NEW what, NEW where, DoMove(what, where), call' \in CallType
  PROVE  IInv'
<1>1. /\ Good(objs, par) /\ Good(objs, loc)
      /\ num_objects \in 0..MaxObjs /\ objs \subseteq 0..(num_objects - 1)
      /\ user \subseteq objs /\ all_users = user
  BY UpFacts
<1>2. UNCHANGED <<status, objs, num_objects, par, user, all_users>>
  BY DEF DoMove
<1>3. Good(objs, loc')
  <2>1. CASE loc' = loc
    BY <1>1, <2>1
  <2>2. CASE loc' # loc
    <3>1. /\ what \in objs /\ where \in objs \cup {NOTHING}
          /\ what \notin AtOrAbove(loc, where)
          /\ loc' = Relink(loc, what, where)
      BY <2>2 DEF DoMove
    <3>2. Good(objs, Relink(loc, what, where))
      BY <1>1, <3>1, RelinkAllowed
    <3> QED  BY <3>1, <3>2
  <2> QED  BY <2>1, <2>2
<1>4. Good(objs', par') /\ Good(objs', loc')
  BY <1>1, <1>2, <1>3
<1> QED  BY <1>1, <1>2, <1>4, UpStep

LEMMA MoveSteps ==
  ASSUME IInv, Move \/ MoveCallsAccept \/ MoveAccepted
  PROVE  IInv'
<1>1. CASE Move
  <2>1. PICK what, where : status = "up" /\ DoMove(what, where) /\ call' = call
    BY <1>1 DEF Move
  <2>2. call' \in CallType
    BY <2>1, UpFacts
  <2> QED  BY <2>1, <2>2, DoMoveStep
<1>2. CASE MoveCallsAccept
  <2>1. PICK what \in objs, where \in objs, c \in Calls :
          /\ status = "up"
          /\ call' = [call EXCEPT ![c] = CallOf("move", what, where)]
          /\ UNCHANGED <<status, objs, num_objects, par, loc, user, all_users>>
    BY <1>2 DEF MoveCallsAccept
  <2>2. /\ Good(objs, par) /\ Good(objs, loc) /\ objs \subseteq Oids
        /\ num_objects \in 0..MaxObjs /\ objs \subseteq 0..(num_objects - 1)
        /\ user \subseteq objs /\ all_users = user /\ call \in CallType
    BY <2>1, UpFacts
  <2>3. [call EXCEPT ![c] = CallOf("move", what, where)] \in CallType
    BY <2>2, CallMade, RefFacts
  <2>4. Good(objs', par') /\ Good(objs', loc') /\ call' \in CallType
    BY <2>1, <2>2, <2>3
  <2> QED  BY <2>1, <2>2, <2>4, UpStep
<1>3. CASE MoveAccepted
  <2>1. PICK c \in Calls :
          /\ call[c].fn = "move"
          /\ DoMove(call[c].what, call[c].where)
          /\ call' = [call EXCEPT ![c] = NoCall]
    BY <1>3 DEF MoveAccepted
  <2>2. status = "up"
    <3>1. call[c] # NoCall
      BY <2>1 DEF NoCall
    <3> QED  BY <3>1, CallsAreUp
  <2>3. call' \in CallType
    BY <2>1, <2>2, UpFacts, CallCleared
  <2> QED  BY <2>1, <2>2, <2>3, DoMoveStep
<1> QED  BY <1>1, <1>2, <1>3

\* What of the contents recycle() has moved out when it calls a verb.
LEMMA RecycleStarts ==
  ASSUME Good(objs, loc), NEW o \in objs,
         \/ UNCHANGED <<objs, par, loc, user, all_users>>
         \/ EmptyOne(o)
         \/ Leave(o)
  PROVE  Good(objs, loc') /\ UNCHANGED <<objs, par, user, all_users>>
<1>1. CASE UNCHANGED <<objs, par, loc, user, all_users>>
  BY <1>1
<1>2. CASE EmptyOne(o)
  <2>1. /\ loc.down[o] # NOTHING /\ loc' = Relink(loc, loc.down[o], NOTHING)
        /\ UNCHANGED <<objs, par, user, all_users>>
    BY <1>2 DEF EmptyOne
  <2>2. Listed(Below(objs, loc, o), loc, o) /\ Below(objs, loc, o) \in SUBSET Oids
    BY DEF Good, Below
  <2>3. loc.down[o] \in Below(objs, loc, o)
    BY <2>1, <2>2, ListHead
  <2>4. loc.down[o] \in objs
    BY <2>3 DEF Below
  <2>5. Good(objs, Relink(loc, loc.down[o], NOTHING))
    BY <2>4, RelinkOut
  <2> QED  BY <2>1, <2>5
<1>3. CASE Leave(o)
  <2>1. /\ loc' = Relink(Emptied(o), o, NOTHING)
        /\ UNCHANGED <<objs, par, user, all_users>>
    BY <1>3 DEF Leave
  <2>2. Good(objs, RelinkAll(loc, o, NOTHING))
    BY RelinkAllGood
  <2>3. Good(objs, Emptied(o))
    BY <2>2 DEF Emptied
  <2>4. Good(objs, Relink(Emptied(o), o, NOTHING))
    BY <2>3, RelinkOut
  <2> QED  BY <2>1, <2>4
<1> QED  BY <1>1, <1>2, <1>3

LEMMA DestroyStep ==
  ASSUME IInv, status = "up", NEW o \in objs, Destroy(o),
         UNCHANGED <<status, num_objects>>, call' \in CallType
  PROVE  IInv'
<1>1. /\ Good(objs, par) /\ Good(objs, loc)
      /\ num_objects \in 0..MaxObjs /\ objs \subseteq 0..(num_objects - 1)
      /\ user \subseteq objs /\ all_users = user
  BY UpFacts
<1>2. /\ objs' = objs \ {o}
      /\ user' = user \ {o}
      /\ all_users' = IF o \in user THEN all_users \ {o} ELSE all_users
  BY DEF Destroy
<1>3. Good(objs \ {o}, loc')
  <2>1. LET left == Relink(RelinkAll(loc, o, NOTHING), o, NOTHING)
        IN  Good(objs \ {o}, [left EXCEPT !.across[o] = NOTHING])
    BY <1>1, DestroyGood
  <2> QED  BY <2>1 DEF Destroy, Emptied
<1>4. Good(objs \ {o}, par')
  <2>1. LET left == Relink(RelinkAll(par, o, par.up[o]), o, NOTHING)
        IN  Good(objs \ {o}, [left EXCEPT !.across[o] = NOTHING])
    BY <1>1, DestroyGood
  <2> QED  BY <2>1 DEF Destroy
<1>5. Good(objs', par') /\ Good(objs', loc')
  BY <1>2, <1>3, <1>4
<1>6. objs' \subseteq 0..(num_objects' - 1) /\ user' \subseteq objs' /\ all_users' = user'
  BY <1>1, <1>2
<1> QED  BY <1>1, <1>5, <1>6, UpStep

\* A call of recycle() that finds its object gone only ends.
LEMMA RecycleSteps ==
  ASSUME IInv, Recycle \/ RecycleCallsVerb \/ RecycleGoesOn
  PROVE  IInv'
<1>1. CASE Recycle
  <2>1. PICK o \in objs : /\ status = "up" /\ Destroy(o)
                          /\ UNCHANGED <<status, num_objects, call>>
    BY <1>1 DEF Recycle
  <2>2. call' \in CallType
    BY <2>1, UpFacts
  <2> QED  BY <2>1, <2>2, DestroyStep
<1>2. CASE RecycleCallsVerb
  <2>1. PICK o \in objs, c \in Calls :
          /\ status = "up"
          /\ call' = [call EXCEPT ![c] = CallOf("recycle", o, NOTHING)]
          /\ \/ UNCHANGED <<objs, par, loc, user, all_users>>
             \/ EmptyOne(o)
             \/ Leave(o)
          /\ UNCHANGED <<status, num_objects>>
    BY <1>2 DEF RecycleCallsVerb
  <2>2. /\ Good(objs, par) /\ Good(objs, loc) /\ objs \subseteq Oids
        /\ num_objects \in 0..MaxObjs /\ objs \subseteq 0..(num_objects - 1)
        /\ user \subseteq objs /\ all_users = user /\ call \in CallType
    BY <2>1, UpFacts
  <2>3. [call EXCEPT ![c] = CallOf("recycle", o, NOTHING)] \in CallType
    BY <2>2, CallMade, RefFacts
  <2>4. Good(objs, loc') /\ UNCHANGED <<objs, par, user, all_users>>
    BY <2>1, <2>2, RecycleStarts
  <2>5. Good(objs', par') /\ Good(objs', loc') /\ call' \in CallType
    BY <2>1, <2>2, <2>3, <2>4
  <2> QED  BY <2>1, <2>2, <2>4, <2>5, UpStep
<1>3. CASE RecycleGoesOn
  <2> DEFINE o(c) == call[c].what
  <2>1. PICK c \in Calls :
          /\ call[c].fn = "recycle"
          /\ \/ o(c) \in objs /\ (EmptyOne(o(c)) \/ Leave(o(c))) /\ UNCHANGED call
             \/ /\ call' = [call EXCEPT ![c] = NoCall]
                /\ \/ o(c) \in objs /\ Destroy(o(c))
                   \/ o(c) \notin objs /\ UNCHANGED <<objs, par, loc, user, all_users>>
          /\ UNCHANGED <<status, num_objects>>
    BY <1>3 DEF RecycleGoesOn
  <2> HIDE DEF o
  <2>2. status = "up"
    <3>1. call[c] # NoCall
      BY <2>1 DEF NoCall
    <3> QED  BY <3>1, CallsAreUp
  <2>3. /\ Good(objs, par) /\ Good(objs, loc)
        /\ num_objects \in 0..MaxObjs /\ objs \subseteq 0..(num_objects - 1)
        /\ user \subseteq objs /\ all_users = user /\ call \in CallType
    BY <2>2, UpFacts
  <2>4. [call EXCEPT ![c] = NoCall] \in CallType
    BY <2>3, CallCleared
  <2>5. CASE o(c) \in objs /\ (EmptyOne(o(c)) \/ Leave(o(c))) /\ UNCHANGED call
    <3>1. Good(objs, loc') /\ UNCHANGED <<objs, par, user, all_users>>
      BY <2>3, <2>5, RecycleStarts
    <3>2. Good(objs', par') /\ Good(objs', loc') /\ call' \in CallType
      BY <2>3, <2>5, <3>1
    <3> QED  BY <2>1, <2>2, <2>3, <3>1, <3>2, UpStep
  <2>6. CASE /\ call' = [call EXCEPT ![c] = NoCall]
             /\ o(c) \in objs /\ Destroy(o(c))
    <3>1. call' \in CallType
      BY <2>4, <2>6
    <3> QED  BY <2>1, <2>2, <2>6, <3>1, DestroyStep
  <2>7. CASE /\ call' = [call EXCEPT ![c] = NoCall]
             /\ UNCHANGED <<objs, par, loc, user, all_users>>
    <3>1. Good(objs', par') /\ Good(objs', loc') /\ call' \in CallType
      BY <2>3, <2>4, <2>7
    <3> QED  BY <2>1, <2>2, <2>3, <2>7, <3>1, UpStep
  <2> QED  BY <2>1, <2>5, <2>6, <2>7
<1> QED  BY <1>1, <1>2, <1>3

LEMMA VerbFailsStep ==
  ASSUME IInv, VerbFails
  PROVE  IInv'
<1>1. PICK c \in Calls :
        /\ call[c] # NoCall
        /\ call' = [call EXCEPT ![c] = NoCall]
        /\ UNCHANGED <<status, objs, num_objects, par, loc, user, all_users>>
  BY DEF VerbFails
<1>2. status = "up"
  BY <1>1, CallsAreUp
<1>3. /\ Good(objs, par) /\ Good(objs, loc)
      /\ num_objects \in 0..MaxObjs /\ objs \subseteq 0..(num_objects - 1)
      /\ user \subseteq objs /\ all_users = user /\ call \in CallType
  BY <1>2, UpFacts
<1>4. call' \in CallType
  BY <1>1, <1>3, CallCleared
<1>5. Good(objs', par') /\ Good(objs', loc')
  BY <1>1, <1>3
<1> QED  BY <1>1, <1>2, <1>3, <1>4, <1>5, UpStep

-----------------------------------------------------------------------------
(* The theorems *)

\* A file says nothing of the numbers that have no object.
LEMMA FilesFacts ==
  ASSUME NEW S, NEW h \in Files(S)
  PROVE  /\ h \in HierarchyType
         /\ \A o \in Oids \ S : h.up[o] = NOTHING /\ h.down[o] = NOTHING /\ h.across[o] = NOTHING
BY DEF Files, HierarchyType

LEMMA BarrenFacts ==
  /\ Barren \in HierarchyType
  /\ \A o \in Oids : Barren.up[o] = NOTHING /\ Barren.down[o] = NOTHING
                     /\ Barren.across[o] = NOTHING
BY RefFacts DEF Barren, HierarchyType

LEMMA InitIInv == Init => IInv
<1> SUFFICES ASSUME Init  PROVE IInv
  OBVIOUS
<1>1. /\ status = "file" /\ num_objects \in 1..MaxObjs /\ objs \subseteq 0..(num_objects - 1)
      /\ user = {} /\ all_users = {} /\ call = [c \in Calls |-> NoCall]
  BY DEF Init
<1>2. /\ par \in HierarchyType /\ Fresh(par)
      /\ loc \in HierarchyType /\ Fresh(loc)
  <2>1. CASE par \in Files(objs) /\ loc = Barren
    BY <2>1, FilesFacts, BarrenFacts DEF Fresh
  <2>2. CASE loc \in Files(objs) /\ par = Barren
    BY <2>2, FilesFacts, BarrenFacts DEF Fresh
  <2> QED  BY <2>1, <2>2 DEF Init
<1>3. call \in CallType
  BY <1>1, RefFacts DEF CallType, NoCall
<1>4. TypeOK
  BY <1>1, <1>2, <1>3, RefFacts DEF TypeOK, CallType
<1>5. UsersExact
  BY <1>1 DEF UsersExact
<1>6. Trees
  BY <1>1, <1>2 DEF Trees, RefusedIsBroken
<1> QED  BY <1>4, <1>5, <1>6 DEF IInv

LEMMA NextIInv == IInv /\ [Next]_vars => IInv'
<1> SUFFICES ASSUME IInv, [Next]_vars  PROVE IInv'
  OBVIOUS
<1>1. CASE Load
  BY <1>1, LoadStep
<1>2. CASE Create
  BY <1>2, CreateStep
<1>3. CASE Chparent
  BY <1>3, ChparentStep
<1>4. CASE Renumber
  BY <1>4, RenumberStep
<1>5. CASE ResetMaxObject
  BY <1>5, ResetMaxObjectStep
<1>6. CASE SetPlayerFlag
  BY <1>6, SetPlayerFlagStep
<1>7. CASE Move \/ MoveCallsAccept \/ MoveAccepted
  BY <1>7, MoveSteps
<1>8. CASE Recycle \/ RecycleCallsVerb \/ RecycleGoesOn
  BY <1>8, RecycleSteps
<1>9. CASE VerbFails
  BY <1>9, VerbFailsStep
<1>10. CASE UNCHANGED vars
  <2>1. TypeOK' /\ UsersExact'
    BY <1>10 DEF vars, IInv, TypeOK, UsersExact
  <2>2. Trees'
    BY <1>10 DEF vars, IInv, Trees, Fresh, RefusedIsBroken, WellFormed, Acyclic, Lists, Kids
  <2> QED  BY <2>1, <2>2 DEF IInv
<1> QED  BY <1>1, <1>2, <1>3, <1>4, <1>5, <1>6, <1>7, <1>8, <1>9, <1>10 DEF Next

\* The inductive invariant.
THEOREM Invariance == Spec => []IInv
<1>1. Init => IInv
  BY InitIInv
<1>2. IInv /\ [Next]_vars => IInv'
  BY NextIInv
<1> QED  BY <1>1, <1>2, PTL DEF Spec

\* The state has its types: every valid object has a number below num_objects,
\* which db_create_object() therefore never finds in use, and only valid objects
\* are players.
THEOREM TypeCorrect == Spec => []TypeOK
<1>1. IInv => TypeOK
  BY DEF IInv
<1> QED  BY <1>1, Invariance, PTL

\* From the moment validate_hierarchies() has accepted a database, whatever the
\* file said, both hierarchies are forests whose linked lists hold exactly the
\* objects below, each once: create(), chparent(), move(), recycle() and
\* renumber() keep them so, also when the verbs that move() and recycle() call
\* change everything before they return.
THEOREM HierarchiesStayWellFormed == Spec => []HierarchiesWellFormed
<1>1. IInv => HierarchiesWellFormed
  BY GoodIsWellFormed DEF IInv, Trees, HierarchiesWellFormed
<1> QED  BY <1>1, Invariance, PTL

\* A database validate_hierarchies() refuses has a hierarchy that is not
\* well-formed: the tortoise and the hare, and the two tests of phase 3, stop no
\* sound database.
THEOREM RefusedAreBroken == Spec => []RefusedIsBroken
<1>1. IInv => RefusedIsBroken
  BY DEF IInv, Trees
<1> QED  BY <1>1, Invariance, PTL

\* set_player_flag(), recycle() and renumber() keep the list players() returns
\* equal to the set of objects with the flag.
THEOREM PlayersAreExact == Spec => []UsersExact
<1>1. IInv => UsersExact
  BY DEF IInv
<1> QED  BY <1>1, Invariance, PTL
=============================================================================
