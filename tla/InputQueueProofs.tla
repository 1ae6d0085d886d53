-------------------------- MODULE InputQueueProofs --------------------------
(***************************************************************************)
(* Proofs about module InputQueue, for any number of addresses, kinds and   *)
(* lengths of lines, and any high-water mark.                               *)
(***************************************************************************)
EXTENDS InputQueue, InductionFacts, SequenceTheorems

USE AddrAssumption

-----------------------------------------------------------------------------
(* The two lists, without the variables *)

Cells == Addr \cup {TQ}

\* s is the list of n lines, behind the slot of its head.
Chain(n, s) ==
  /\ n \in Nat /\ s \in [0 .. n -> Cells] /\ s[0] = TQ
  /\ \A i \in 1 .. n : s[i] \in Addr
  /\ \A i, j \in 0 .. n : s[i] = s[j] => i = j

\* The fields of the tasks.
Fields(kd, nx, ni) ==
  /\ kd \in [Addr -> Kinds \cup {"NONE"}]
  /\ nx \in [Cells -> Addr \cup {NULL}]
  /\ ni \in [Cells -> Addr \cup {NULL}]

\* The list of the lines, whose last slot is li.
Linked(n, s, nx, li) ==
  /\ \A i \in 1 .. n : nx[s[i - 1]] = s[i]
  /\ nx[s[n]] = NULL /\ li = s[n]

\* The other addresses hold no task.
Blank(n, s, kd, nx, ni) ==
  \A a \in Addr : \/ kd[a] # "NONE" /\ \E i \in 1 .. n : s[i] = a
                  \/ /\ kd[a] = "NONE" /\ nx[a] = NULL /\ ni[a] = NULL
                     /\ \A i \in 1 .. n : s[i] # a

\* j comes next after i in E.
Succ(E, i, j) == i < j /\ \A m \in E : m < j => m <= i

\* The list of those lines whose positions are in E; la is its slot before
\* the last.
Threaded(E, n, s, ni, la) ==
  /\ ni[s[n]] = NULL
  /\ \A i \in {0} \cup E, j \in E : Succ(E, i, j) => ni[s[i]] = s[j]
  /\ \E l \in {0} \cup E : la = s[l] /\ IF n = 0 THEN l = 0 ELSE Succ(E, l, n)

\* The end that last points at closes the run before the last one.
LEMMA LastLink ==
  ASSUME NEW E, NEW n, NEW s, NEW ni, NEW la, Threaded(E, n, s, ni, la), n # 0
  PROVE  \E l \in {0} \cup E : la = s[l] /\ Succ(E, l, n)
  BY DEF Threaded

\* Positions of the last line, and of others.
Marks(E, n) == E \in SUBSET (1 .. n) /\ (n > 0 => n \in E)

PushBack(n, s, t) == [i \in 0 .. n + 1 |-> IF i = n + 1 THEN t ELSE s[i]]
PushFront(n, s, t) ==
  [i \in 0 .. n + 1 |-> IF i = 0 THEN s[0] ELSE IF i = 1 THEN t ELSE s[i - 1]]
Cut(n, s, p) == [i \in 0 .. n - 1 |-> IF i < p THEN s[i] ELSE s[i + 1]]

\* A line behind the others.
LEMMA BackIs ==
  ASSUME NEW n, NEW s, NEW t \in Addr, Chain(n, s),
         \A i \in 1 .. n : s[i] # t
  PROVE  /\ Chain(n + 1, PushBack(n, s, t))
         /\ PushBack(n, s, t)[n + 1] = t
         /\ \A i \in 0 .. n : PushBack(n, s, t)[i] = s[i] /\ s[i] # t
<1> DEFINE r == PushBack(n, s, t)
<1>1. /\ n + 1 \in Nat /\ r \in [0 .. n + 1 -> Cells] /\ r[n + 1] = t
      /\ \A i \in 0 .. n : r[i] = s[i] /\ s[i] # t /\ i \in 0 .. n + 1
  BY DEF Chain, PushBack, Cells
<1>2. \A i \in 0 .. n + 1 : i = n + 1 \/ i \in 0 .. n
  BY DEF Chain
<1> HIDE DEF r
<1>3. \A i, j \in 0 .. n + 1 : r[i] = r[j] => i = j
  BY <1>1, <1>2 DEF Chain
<1>4. r[0] = TQ /\ \A i \in 1 .. n + 1 : r[i] \in Addr
  BY <1>1, <1>2 DEF Chain
<1> QED  BY <1>1, <1>3, <1>4 DEF Chain, r

\* A line before the others.
LEMMA FrontIs ==
  ASSUME NEW n, NEW s, NEW t \in Addr, Chain(n, s),
         \A i \in 1 .. n : s[i] # t
  PROVE  /\ Chain(n + 1, PushFront(n, s, t))
         /\ PushFront(n, s, t)[1] = t /\ PushFront(n, s, t)[0] = TQ
         /\ \A i \in 0 .. n : s[i] # t
         /\ \A i \in 1 .. n : PushFront(n, s, t)[i + 1] = s[i]
<1> DEFINE r == PushFront(n, s, t)
<1>1. /\ n + 1 \in Nat /\ r \in [0 .. n + 1 -> Cells]
      /\ r[1] = t /\ r[0] = TQ
      /\ \A i \in 0 .. n : s[i] # t
      /\ \A i \in 1 .. n : r[i + 1] = s[i]
  BY DEF Chain, PushFront, Cells
<1>2. \A i \in 0 .. n + 1 : i = 0 \/ i = 1 \/ \E j \in 1 .. n : i = j + 1
  <2> SUFFICES ASSUME NEW i \in 0 .. n + 1, i # 0, i # 1
               PROVE  i - 1 \in 1 .. n /\ i = (i - 1) + 1
    OBVIOUS
  <2> QED  BY DEF Chain
<1> HIDE DEF r
<1>3. \A i, j \in 0 .. n + 1 : r[i] = r[j] => i = j
  <2>0. \A i \in 1 .. n : r[i + 1] = s[i] /\ i \in 0 .. n
    BY <1>1
  <2>1. \A i \in 1 .. n : r[i + 1] # t /\ r[i + 1] # TQ
    <3>1. \A i \in 1 .. n : s[i] # TQ /\ s[i] # t
      BY <1>1, <2>0 DEF Chain
    <3> QED  BY <2>0, <3>1
  <2>2. \A i, j \in 1 .. n : r[i + 1] = r[j + 1] => i = j
    BY <2>0 DEF Chain
  <2> QED  BY <1>1, <1>2, <2>1, <2>2
<1>4. \A i \in 1 .. n + 1 : r[i] \in Addr
  <2>1. \A i \in 1 .. n + 1 : i = 1 \/ \E j \in 1 .. n : i = j + 1
    BY <1>2 DEF Chain
  <2> QED  BY <1>1, <2>1 DEF Chain
<1> QED  BY <1>1, <1>3, <1>4 DEF Chain, r

\* A list without its p-th line.
LEMMA CutIs ==
  ASSUME NEW n, NEW s, NEW p \in 1 .. n, Chain(n, s)
  PROVE  /\ n - 1 \in Nat /\ Chain(n - 1, Cut(n, s, p))
         /\ \A i \in 0 .. n - 1 :
              Cut(n, s, p)[i] = IF i < p THEN s[i] ELSE s[i + 1]
         /\ \A i \in 0 .. n - 1 : Cut(n, s, p)[i] # s[p]
<1> DEFINE r == Cut(n, s, p)
<1>1. /\ n - 1 \in Nat /\ n \in Nat /\ p \in Nat
      /\ \A i \in 0 .. n - 1 : i \in 0 .. n /\ i + 1 \in 0 .. n
      /\ \A i \in 1 .. n - 1 : i \in 1 .. n /\ i + 1 \in 1 .. n
  BY DEF Chain
<1>2. /\ r \in [0 .. n - 1 -> Cells]
      /\ \A i \in 0 .. n - 1 : r[i] = IF i < p THEN s[i] ELSE s[i + 1]
  BY <1>1 DEF Chain, Cut
<1> HIDE DEF r
<1>3. r[0] = TQ /\ \A i \in 1 .. n - 1 : r[i] \in Addr
  BY <1>1, <1>2 DEF Chain
<1>4. \A i, j \in 0 .. n - 1 : r[i] = r[j] => i = j
  BY <1>1, <1>2 DEF Chain
<1>5. \A i \in 0 .. n - 1 : r[i] # s[p]
  BY <1>1, <1>2 DEF Chain
<1> QED  BY <1>1, <1>2, <1>3, <1>4, <1>5 DEF Chain, r

\* After any slot but the last there is a next marked line.
LEMMA SuccExists ==
  ASSUME NEW n \in Nat, NEW E, Marks(E, n), NEW i \in 0 .. n - 1
  PROVE  \E j \in E : Succ(E, i, j)
<1> DEFINE T == {m \in E : m > i}
<1>1. T \in SUBSET Nat /\ n \in T
  <2>1. E \in SUBSET (1 .. n) /\ n \in E /\ n > i
    BY DEF Marks
  <2>2. \A m \in E : m \in Nat
    BY <2>1
  <2> QED  BY <2>1, <2>2
<1>2. PICK j \in T : \A m \in T : j <= m
  <2> HIDE DEF T
  <2> QED  BY <1>1, Least
<1>3. \A m \in E : m < j => m <= i
  BY <1>2 DEF Marks
<1> QED  BY <1>2, <1>3 DEF Succ

\* No two slots come before one line.
LEMMA SuccOnce ==
  ASSUME NEW n \in Nat, NEW E, Marks(E, n), NEW j \in 1 .. n,
         NEW i \in {0} \cup E, NEW m \in {0} \cup E, Succ(E, i, j), Succ(E, m, j)
  PROVE  i = m
  BY DEF Succ, Marks

-----------------------------------------------------------------------------
(* The itail list when a line comes or goes *)

\* A line that starts a run of its own at the rear.
LEMMA ThreadBackNew ==
  ASSUME NEW n, NEW s, NEW E, NEW ni \in [Cells -> Addr \cup {NULL}], NEW la,
         NEW t \in Addr, Chain(n, s), Marks(E, n), Threaded(E, n, s, ni, la),
         \A i \in 1 .. n : s[i] # t, ni[t] = NULL
  PROVE  Threaded(E \cup {n + 1}, n + 1, PushBack(n, s, t),
                  [ni EXCEPT ![s[n]] = t], s[n])
<1> DEFINE r == PushBack(n, s, t)
           F == E \cup {n + 1}
           nj == [ni EXCEPT ![s[n]] = t]
<1>1. /\ r[n + 1] = t /\ \A i \in 0 .. n : r[i] = s[i] /\ s[i] # t
  BY BackIs
<1>2. n \in Nat /\ E \in SUBSET (1 .. n) /\ (n = 0 \/ n \in E)
  BY DEF Chain, Marks
<1>3. /\ nj[s[n]] = t /\ nj[t] = NULL
      /\ \A i \in 0 .. n : i # n => nj[s[i]] = ni[s[i]]
  BY <1>1, <1>2 DEF Chain
<1> HIDE DEF r, nj
<1>4. ASSUME NEW i \in {0} \cup F, NEW j \in F, Succ(F, i, j)
      PROVE  nj[r[i]] = r[j]
  <2>1. CASE j = n + 1
    <3>1. i = n
      BY <1>2, <1>4, <2>1 DEF Succ
    <3> QED  BY <1>1, <1>2, <1>3, <2>1, <3>1
  <2>2. CASE j # n + 1
    <3>1. j \in E /\ i \in {0} \cup E /\ i < j /\ Succ(E, i, j)
      BY <1>2, <1>4, <2>2 DEF Succ
    <3>2. ni[s[i]] = s[j]
      BY <3>1 DEF Threaded
    <3>3. i \in 0 .. n /\ j \in 0 .. n /\ i # n
      BY <1>2, <3>1
    <3> QED  BY <1>1, <1>3, <3>2, <3>3
  <2> QED  BY <2>1, <2>2
<1>5. n \in {0} \cup F /\ s[n] = r[n] /\ Succ(F, n, n + 1)
  BY <1>1, <1>2 DEF Succ
<1>6. nj[r[n + 1]] = NULL /\ n + 1 # 0
  BY <1>1, <1>2, <1>3
<1> HIDE DEF F
<1>7. Threaded(F, n + 1, r, nj, s[n])
  BY <1>4, <1>5, <1>6 DEF Threaded
<1> QED  BY <1>7 DEF F, r, nj

\* A line that prolongs the last run.
LEMMA ThreadBackSame ==
  ASSUME NEW n, NEW s, NEW E, NEW ni \in [Cells -> Addr \cup {NULL}], NEW la,
         NEW t \in Addr, Chain(n, s), Marks(E, n), Threaded(E, n, s, ni, la),
         n > 0, \A i \in 1 .. n : s[i] # t, ni[t] = NULL
  PROVE  Threaded((E \ {n}) \cup {n + 1}, n + 1, PushBack(n, s, t),
                  [ni EXCEPT ![la] = t], la)
<1> DEFINE r == PushBack(n, s, t)
           F == (E \ {n}) \cup {n + 1}
           nj == [ni EXCEPT ![la] = t]
<1>1. /\ r[n + 1] = t /\ \A i \in 0 .. n : r[i] = s[i] /\ s[i] # t
  BY BackIs
<1>2. n \in Nat /\ E \in SUBSET (1 .. n) /\ n \in E
  BY DEF Chain, Marks
<1>3. PICK l \in {0} \cup E : la = s[l] /\ Succ(E, l, n)
  BY <1>2 DEF Threaded
<1>4. /\ nj[s[l]] = t /\ nj[t] = NULL
      /\ \A i \in 0 .. n : i # l => nj[s[i]] = ni[s[i]]
  BY <1>1, <1>2, <1>3 DEF Chain
<1>5. l < n /\ \A m \in E : m < n => m <= l
  BY <1>3 DEF Succ
<1> HIDE DEF r, nj
<1>6. ASSUME NEW i \in {0} \cup F, NEW j \in F, Succ(F, i, j)
      PROVE  nj[r[i]] = r[j]
  <2>1. CASE j = n + 1
    <3>1. i = l
      BY <1>2, <1>5, <1>6, <2>1 DEF Succ
    <3>2. r[l] = s[l]
      BY <1>1, <1>2
    <3> QED  BY <1>1, <1>4, <2>1, <3>1, <3>2
  <2>2. CASE j # n + 1
    <3>1. j \in E /\ j < n /\ i \in {0} \cup E /\ i < j /\ Succ(E, i, j)
      BY <1>2, <1>6, <2>2 DEF Succ
    <3>2. ni[s[i]] = s[j]
      BY <3>1 DEF Threaded
    <3>3. i \in 0 .. n /\ j \in 0 .. n /\ i # l
      BY <1>2, <1>5, <3>1
    <3> QED  BY <1>1, <1>4, <3>2, <3>3
  <2> QED  BY <2>1, <2>2
<1>7. l \in {0} \cup F /\ s[l] = r[l] /\ Succ(F, l, n + 1)
  BY <1>1, <1>2, <1>5 DEF Succ
<1>8. nj[r[n + 1]] = NULL /\ n + 1 # 0
  BY <1>1, <1>2, <1>4
<1> HIDE DEF F
<1>9. Threaded(F, n + 1, r, nj, la)
  BY <1>3, <1>6, <1>7, <1>8 DEF Threaded
<1> QED  BY <1>9 DEF F, r, nj

\* E with every position one further.
Shifted(E) == {i + 1 : i \in E}

\* A line that starts a run of its own in front.
LEMMA ThreadFrontNew ==
  ASSUME NEW n, NEW s, NEW E, NEW ni \in [Cells -> Addr \cup {NULL}], NEW la,
         NEW t \in Addr, Chain(n, s), Marks(E, n), Threaded(E, n, s, ni, la),
         n > 0, \A i \in 1 .. n : s[i] # t
  PROVE  Threaded({1} \cup Shifted(E), n + 1, PushFront(n, s, t),
                  [ni EXCEPT ![t] = ni[TQ], ![TQ] = t],
                  IF la = TQ THEN t ELSE la)
<1> DEFINE r == PushFront(n, s, t)
           F == {1} \cup Shifted(E)
           nj == [ni EXCEPT ![t] = ni[TQ], ![TQ] = t]
<1>1. /\ r[1] = t /\ r[0] = TQ /\ \A i \in 0 .. n : s[i] # t
      /\ \A i \in 1 .. n : r[i + 1] = s[i]
  BY FrontIs
<1>2. n \in Nat /\ E \in SUBSET (1 .. n) /\ n \in E
  BY DEF Chain, Marks
<1>3. PICK l \in {0} \cup E : la = s[l] /\ Succ(E, l, n)
  BY <1>2 DEF Threaded
<1>4. /\ nj[TQ] = t /\ nj[t] = ni[TQ]
      /\ \A i \in 1 .. n : nj[s[i]] = ni[s[i]] /\ s[i] # TQ
  BY <1>1, <1>2 DEF Chain, Cells
<1>5. /\ \A i \in E : i + 1 \in F
      /\ \A i \in F : i = 1 \/ \E m \in E : i = m + 1
  BY DEF Shifted
<1>6. ni[s[n]] = NULL /\ s[0] = TQ
      /\ \A i \in {0} \cup E, j \in E : Succ(E, i, j) => ni[s[i]] = s[j]
  BY DEF Threaded, Chain
<1> HIDE DEF r, nj, F
<1>7. ASSUME NEW i \in {0} \cup F, NEW j \in F, Succ(F, i, j)
      PROVE  nj[r[i]] = r[j]
  <2>1. 1 \in F /\ i < j /\ \A m \in F : m < j => m <= i
    BY <1>7 DEF Succ, F
  <2>2. CASE j = 1
    <3>1. i = 0
      BY <1>2, <1>5, <2>1, <2>2
    <3> QED  BY <1>1, <1>4, <2>2, <3>1
  <2>3. CASE j # 1
    <3>1. PICK k \in E : j = k + 1
      BY <1>5, <2>3
    <3>2. i # 0 /\ i \in F
      BY <1>2, <2>1, <3>1
    <3>3. \A m \in E : m < k => m + 1 <= i
      BY <1>2, <1>5, <2>1, <3>1
    <3>4. CASE i = 1
      <4>1. Succ(E, 0, k)
        BY <1>2, <3>1, <3>3, <3>4 DEF Succ
      <4> QED  BY <1>1, <1>2, <1>4, <1>6, <3>1, <3>4, <4>1
    <3>5. CASE i # 1
      <4>1. PICK h \in E : i = h + 1
        BY <1>5, <3>2, <3>5
      <4>2. Succ(E, h, k)
        BY <1>2, <2>1, <3>1, <3>3, <4>1 DEF Succ
      <4> QED  BY <1>1, <1>2, <1>4, <1>6, <3>1, <4>1, <4>2
    <3> QED  BY <3>4, <3>5
  <2> QED  BY <2>2, <2>3
<1>8. \E k \in {0} \cup F : /\ (IF la = TQ THEN t ELSE la) = r[k]
                            /\ Succ(F, k, n + 1)
  <2>1. l + 1 \in F /\ Succ(F, l + 1, n + 1)
    BY <1>2, <1>3, <1>5 DEF Succ, F
  <2>2. (IF la = TQ THEN t ELSE la) = r[l + 1]
    BY <1>1, <1>2, <1>3, <1>4, <1>6
  <2> QED  BY <2>1, <2>2
<1>9. nj[r[n + 1]] = NULL /\ n + 1 # 0
  BY <1>1, <1>2, <1>4, <1>6
<1>10. Threaded(F, n + 1, r, nj, IF la = TQ THEN t ELSE la)
  BY <1>7, <1>8, <1>9 DEF Threaded
<1> QED  BY <1>10 DEF F, r, nj

\* A line that prolongs the first run.
LEMMA ThreadFrontSame ==
  ASSUME NEW n, NEW s, NEW E, NEW ni \in [Cells -> Addr \cup {NULL}], NEW la,
         NEW t \in Addr, Chain(n, s), Marks(E, n), Threaded(E, n, s, ni, la),
         n > 0, \A i \in 1 .. n : s[i] # t
  PROVE  Threaded(Shifted(E), n + 1, PushFront(n, s, t), ni, la)
<1> DEFINE r == PushFront(n, s, t)
           F == Shifted(E)
<1>1. /\ r[0] = TQ /\ \A i \in 1 .. n : r[i + 1] = s[i]
  BY FrontIs
<1>2. n \in Nat /\ E \in SUBSET (1 .. n) /\ n \in E /\ s[0] = TQ
  BY DEF Chain, Marks
<1>3. PICK l \in {0} \cup E : la = s[l] /\ Succ(E, l, n)
  BY <1>2 DEF Threaded
<1>4. /\ \A i \in E : i + 1 \in F
      /\ \A i \in F : \E m \in E : i = m + 1
  BY DEF Shifted
<1>5. ni[s[n]] = NULL
      /\ \A i \in {0} \cup E, j \in E : Succ(E, i, j) => ni[s[i]] = s[j]
  BY DEF Threaded
<1> HIDE DEF r, F
<1>6. ASSUME NEW i \in {0} \cup F, NEW j \in F, Succ(F, i, j)
      PROVE  ni[r[i]] = r[j]
  <2>1. i < j /\ \A m \in F : m < j => m <= i
    BY <1>6 DEF Succ
  <2>2. PICK k \in E : j = k + 1
    BY <1>4
  <2>3. \A m \in E : m < k => m + 1 <= i
    BY <1>2, <1>4, <2>1, <2>2
  <2>4. CASE i = 0
    <3>1. Succ(E, 0, k)
      BY <1>2, <2>2, <2>3, <2>4 DEF Succ
    <3> QED  BY <1>1, <1>2, <1>5, <2>2, <2>4, <3>1
  <2>5. CASE i # 0
    <3>1. PICK h \in E : i = h + 1
      BY <1>4, <2>5
    <3>2. Succ(E, h, k)
      BY <1>2, <2>1, <2>2, <2>3, <3>1 DEF Succ
    <3> QED  BY <1>1, <1>2, <1>5, <2>2, <3>1, <3>2
  <2> QED  BY <2>4, <2>5
<1>7. \E k \in {0} \cup F : la = r[k] /\ Succ(F, k, n + 1)
  <2>1. CASE l = 0
    <3>1. Succ(F, 0, n + 1)
      BY <1>2, <1>3, <1>4, <2>1 DEF Succ
    <3> QED  BY <1>1, <1>2, <1>3, <2>1, <3>1
  <2>2. CASE l # 0
    <3>1. l + 1 \in F /\ Succ(F, l + 1, n + 1)
      BY <1>2, <1>3, <1>4, <2>2 DEF Succ
    <3> QED  BY <1>1, <1>2, <1>3, <2>2, <3>1
  <2> QED  BY <2>1, <2>2
<1>8. ni[r[n + 1]] = NULL /\ n + 1 # 0
  BY <1>1, <1>2, <1>5
<1>9. Threaded(F, n + 1, r, ni, la)
  BY <1>6, <1>7, <1>8 DEF Threaded
<1> QED  BY <1>9 DEF F, r

\* A line inside a run goes.
LEMMA ThreadCutInner ==
  ASSUME NEW n, NEW s, NEW E, NEW ni \in [Cells -> Addr \cup {NULL}], NEW la,
         NEW p \in 1 .. n, Chain(n, s), Marks(E, n), Threaded(E, n, s, ni, la),
         p \notin E
  PROVE  Threaded({i \in 0 .. n - 1 : IF i < p THEN i \in E ELSE i + 1 \in E},
                  n - 1, Cut(n, s, p), [ni EXCEPT ![s[p]] = NULL], la)
<1> DEFINE r == Cut(n, s, p)
           F == {i \in 0 .. n - 1 : IF i < p THEN i \in E ELSE i + 1 \in E}
           nj == [ni EXCEPT ![s[p]] = NULL]
           Old(i) == IF i < p THEN i ELSE i + 1
<1>1. /\ n - 1 \in Nat
      /\ \A i \in 0 .. n - 1 : r[i] = s[Old(i)] /\ s[Old(i)] # s[p]
  BY CutIs
<1>2. n \in Nat /\ n > 0 /\ E \in SUBSET (1 .. n) /\ n \in E /\ p # n
  BY DEF Chain, Marks
<1>3. \A i \in 0 .. n - 1 : nj[r[i]] = ni[s[Old(i)]]
  BY <1>1, <1>2 DEF Chain
<1>4. /\ \A i \in F : i \in 0 .. n - 1 /\ Old(i) \in E
      /\ \A m \in E : (m < p /\ m \in F) \/ (m > p /\ m - 1 \in F)
  BY <1>2
<1>5. 0 \in 0 .. n - 1 /\ Old(0) = 0
  BY <1>1, <1>2
<1>6. n - 1 \in F /\ Old(n - 1) = n
  BY <1>2
<1> HIDE DEF r, nj, F
<1>7. ASSUME NEW i \in {0} \cup F, NEW j \in F
      PROVE  Succ(F, i, j) <=> Succ(E, Old(i), Old(j))
  <2>1. i \in 0 .. n - 1 /\ j \in 0 .. n - 1
    BY <1>4, <1>5
  <2>2. i < j <=> Old(i) < Old(j)
    BY <1>2, <2>1
  <2>3. ASSUME \A m \in F : m < j => m <= i, NEW m \in E, m < Old(j)
        PROVE  m <= Old(i)
    <3>1. CASE m < p /\ m \in F
      BY <1>2, <2>1, <2>3, <3>1
    <3>2. CASE m > p /\ m - 1 \in F
      BY <1>2, <2>1, <2>3, <3>2
    <3> QED  BY <1>4, <3>1, <3>2
  <2>4. ASSUME \A m \in E : m < Old(j) => m <= Old(i), NEW m \in F, m < j
        PROVE  m <= i
    <3>1. m \in 0 .. n - 1 /\ Old(m) \in E
      BY <1>4
    <3>2. Old(m) < Old(j)
      BY <1>2, <2>1, <2>4, <3>1
    <3>3. Old(m) <= Old(i)
      BY <2>4, <3>1, <3>2
    <3> QED  BY <1>2, <2>1, <3>1, <3>3
  <2> QED  BY <2>2, <2>3, <2>4 DEF Succ
<1>8. \A i \in {0} \cup F : i \in 0 .. n - 1 /\ Old(i) \in {0} \cup E
  BY <1>4, <1>5
<1>9. ASSUME NEW i \in {0} \cup F, NEW j \in F, Succ(F, i, j)
      PROVE  nj[r[i]] = r[j]
  <2>1. Succ(E, Old(i), Old(j)) /\ Old(i) \in {0} \cup E /\ Old(j) \in E
    BY <1>4, <1>7, <1>8, <1>9
  <2>2. ni[s[Old(i)]] = s[Old(j)]
    <3> HIDE DEF Old
    <3> QED  BY <2>1 DEF Threaded
  <2> QED  BY <1>1, <1>3, <1>8, <2>2
<1>10. \E k \in {0} \cup F : la = r[k]
         /\ IF n - 1 = 0 THEN k = 0 ELSE Succ(F, k, n - 1)
  <2>1. PICK l \in {0} \cup E : la = s[l] /\ Succ(E, l, n)
    <3>1. n # 0
      BY <1>2
    <3>2. \E l \in {0} \cup E : la = s[l] /\ Succ(E, l, n)
      BY ONLY <3>1, Threaded(E, n, s, ni, la), LastLink
    <3> QED  BY ONLY <3>2
  <2>2. PICK k \in {0} \cup F : Old(k) = l
    <3>1. CASE l = 0
      BY <1>5, <3>1
    <3>2. CASE l \in E /\ l < p
      BY <1>2, <1>4, <3>2
    <3>3. CASE l \in E /\ l > p
      <4>1. l - 1 \in F /\ Old(l - 1) = l
        BY <1>2, <1>4, <3>3
      <4> QED  BY <4>1
    <3> QED  BY <1>2, <1>4, <3>1, <3>2, <3>3
  <2>3. Succ(F, k, n - 1)
    BY <1>6, <1>7, <2>1, <2>2
  <2>4. n - 1 # 0
    BY <1>4, <1>6, <1>2
  <2> QED  BY <1>1, <1>8, <2>1, <2>2, <2>3, <2>4
<1>11. nj[r[n - 1]] = NULL
  <2>1. ni[s[n]] = NULL
    BY DEF Threaded
  <2> QED  BY <1>1, <1>3, <1>6, <2>1
<1>12. Threaded(F, n - 1, r, nj, la)
  BY <1>9, <1>10, <1>11 DEF Threaded
<1> QED  BY <1>12 DEF F, r, nj

\* What last_itail becomes.
Retreat(ni, la) == IF ni[la] = NULL THEN TQ ELSE la

\* A run of one line goes, with another run behind it: the run before it and
\* the run behind it become one.
LEMMA ThreadCutRun ==
  ASSUME NEW n, NEW s, NEW E, NEW ni \in [Cells -> Addr \cup {NULL}], NEW la,
         NEW p \in 1 .. n, Chain(n, s), Marks(E, n), Threaded(E, n, s, ni, la),
         p \in E, p < n, \A m \in E : m < p => m = p - 1,
         NEW nj, nj = [ni EXCEPT ![s[p - 1]] = NULL, ![TQ] = ni[s[p]],
                                 ![s[p]] = NULL]
  PROVE  Threaded({i \in p .. n - 1 : i + 1 \in E}, n - 1, Cut(n, s, p), nj,
                  Retreat(nj, la))
<1> DEFINE r == Cut(n, s, p)
           F == {i \in p .. n - 1 : i + 1 \in E}
<1>1. /\ n - 1 \in Nat
      /\ \A i \in p .. n - 1 : r[i] = s[i + 1]
      /\ r[0] = TQ
  BY CutIs DEF Chain
<1>2. /\ n \in Nat /\ E \in SUBSET (1 .. n) /\ n \in E /\ p \in Nat
      /\ s[0] = TQ /\ n - 1 >= p
  BY DEF Chain, Marks
<1>3. /\ nj[TQ] = ni[s[p]] /\ nj[s[p]] = NULL
      /\ \A i \in p + 1 .. n : nj[s[i]] = ni[s[i]]
  BY <1>2 DEF Chain
<1>4. /\ \A i \in F : i >= p /\ i \in Nat /\ i + 1 \in E
      /\ \A m \in E : m > p => m - 1 \in F
      /\ n - 1 \in F
  BY <1>2
<1>5. /\ ni[s[n]] = NULL
      /\ \A i \in {0} \cup E, j \in E : Succ(E, i, j) => ni[s[i]] = s[j]
  BY DEF Threaded
<1> HIDE DEF r, F
<1>6. ASSUME NEW i \in {0} \cup F, NEW j \in F, Succ(F, i, j)
      PROVE  nj[r[i]] = r[j]
  <2>1. i < j /\ \A m \in F : m < j => m <= i
    BY <1>6 DEF Succ
  <2>2. \A m \in E : m > p /\ m < j + 1 => m - 1 <= i
    BY <1>2, <1>4, <2>1
  <2>3. j + 1 \in E /\ j \in p .. n - 1 /\ r[j] = s[j + 1]
    BY <1>1, <1>2, <1>4 DEF F
  <2>4. CASE i = 0
    <3>1. Succ(E, p, j + 1)
      BY <1>2, <2>2, <2>3, <2>4 DEF Succ
    <3>2. ni[s[p]] = s[j + 1]
      BY <1>5, <2>3, <3>1
    <3> QED  BY <1>1, <1>3, <2>3, <2>4, <3>2
  <2>5. CASE i \in F
    <3>1. i + 1 \in E /\ i \in p .. n - 1 /\ r[i] = s[i + 1]
      BY <1>1, <1>2, <1>4, <2>5 DEF F
    <3>2. Succ(E, i + 1, j + 1)
      BY <1>2, <2>1, <2>2, <2>3, <3>1 DEF Succ
    <3>3. ni[s[i + 1]] = s[j + 1]
      BY <1>5, <2>3, <3>1, <3>2
    <3>4. nj[s[i + 1]] = ni[s[i + 1]]
      <4>1. i + 1 \in p + 1 .. n
        BY <1>2, <3>1
      <4> QED  BY <1>3, <4>1
    <3> QED  BY <2>3, <3>1, <3>3, <3>4
  <2> QED  BY <2>4, <2>5
<1>7. \E k \in {0} \cup F : Retreat(nj, la) = r[k] /\ Succ(F, k, n - 1)
  <2>1. PICK l \in {0} \cup E : la = s[l] /\ Succ(E, l, n)
    BY <1>2 DEF Threaded
  <2>2. l >= p /\ l < n /\ l \in E /\ \A m \in E : m < n => m <= l
    BY <1>2, <2>1 DEF Succ
  <2>3. CASE l = p
    <3>1. Retreat(nj, la) = TQ
      BY <1>3, <2>1, <2>3 DEF Retreat
    <3>2. Succ(F, 0, n - 1)
      BY <1>2, <1>4, <2>2, <2>3 DEF Succ
    <3> QED  BY <1>1, <3>1, <3>2
  <2>4. CASE l > p
    <3>1. l \in p + 1 .. n /\ l - 1 \in p .. n - 1
      BY <1>2, <2>2, <2>4
    <3>2. ni[s[l]] = s[n]
      BY <1>2, <1>5, <2>1, <2>2
    <3>3. s[n] # NULL
      BY <1>2 DEF Chain
    <3>4. Retreat(nj, la) = s[l]
      BY <1>3, <2>1, <3>1, <3>2, <3>3 DEF Retreat
    <3>5. r[l - 1] = s[l]
      BY <1>1, <1>2, <3>1
    <3>6. l - 1 \in F /\ Succ(F, l - 1, n - 1)
      BY <1>2, <1>4, <2>2, <2>4 DEF Succ
    <3> QED  BY <3>4, <3>5, <3>6
  <2>5. l \in 1 .. n
    BY <1>2, <2>2
  <2>6. l = p \/ l > p
    BY <1>2, <2>2, <2>5
  <2> QED  BY <2>3, <2>4, <2>6
<1>8. nj[r[n - 1]] = NULL /\ n - 1 # 0
  <2>0. n \in p + 1 .. n /\ n - 1 \in p .. n - 1 /\ (n - 1) + 1 = n
    BY <1>2
  <2>1. r[n - 1] = s[n] /\ nj[s[n]] = ni[s[n]]
    BY <1>1, <1>3, <2>0
  <2> QED  BY <1>2, <1>5, <2>1
<1>9. Threaded(F, n - 1, r, nj, Retreat(nj, la))
  BY <1>6, <1>7, <1>8 DEF Threaded
<1> QED  BY <1>9 DEF F, r

\* A run of one line goes that is the last of at most two.
LEMMA ThreadCutLast ==
  ASSUME NEW n, NEW s, NEW E, NEW ni \in [Cells -> Addr \cup {NULL}], NEW la,
         Chain(n, s), Marks(E, n), Threaded(E, n, s, ni, la),
         n > 0, n > 1 => n - 1 \in E, \A m \in E : m < n => m = n - 1,
         NEW nj, nj = [ni EXCEPT ![s[n - 1]] = NULL]
  PROVE  Threaded({i \in 1 .. n - 1 : i = n - 1}, n - 1, Cut(n, s, n), nj,
                  Retreat(nj, la))
<1> DEFINE r == Cut(n, s, n)
           F == {i \in 1 .. n - 1 : i = n - 1}
<1>1. n \in Nat /\ E \in SUBSET (1 .. n) /\ n \in E /\ s[0] = TQ
  BY DEF Chain, Marks
<1>2. n - 1 \in Nat /\ \A i \in 0 .. n - 1 : r[i] = s[i]
  BY <1>1, CutIs
<1>3. nj[s[n - 1]] = NULL /\ nj[r[n - 1]] = NULL
  BY <1>1, <1>2 DEF Chain
<1>4. PICK l \in {0} \cup E : la = s[l] /\ Succ(E, l, n)
  BY <1>1 DEF Threaded
<1>5. l = n - 1
  BY <1>1, <1>4 DEF Succ
<1>6. Retreat(nj, la) = TQ
  BY <1>3, <1>4, <1>5 DEF Retreat
<1>7. ASSUME NEW i \in {0} \cup F, NEW j \in F, Succ(F, i, j)
      PROVE  nj[r[i]] = r[j]
  <2>1. i = 0 /\ j = n - 1 /\ n > 1
    BY <1>1, <1>7 DEF Succ
  <2>2. Succ(E, 0, n - 1) /\ n - 1 \in E
    BY <1>1, <2>1 DEF Succ
  <2>3. ni[TQ] = s[n - 1]
    BY <1>1, <2>2 DEF Threaded
  <2>4. s[n - 1] # TQ
    BY <1>1, <2>1 DEF Chain
  <2> QED  BY <1>1, <1>2, <2>1, <2>3, <2>4
<1>8. \E k \in {0} \cup F : TQ = r[k] /\ IF n - 1 = 0 THEN k = 0
                                         ELSE Succ(F, k, n - 1)
  BY <1>1, <1>2 DEF Succ
<1> HIDE DEF r, F
<1>9. Threaded(F, n - 1, r, nj, Retreat(nj, la))
  BY <1>3, <1>6, <1>7, <1>8 DEF Threaded
<1> QED  BY <1>9 DEF F, r

-----------------------------------------------------------------------------
(* The ends of the runs when a line comes or goes *)

Oob(kd, a) == kd[a] = "OOB"
Alike(kd, a, jd, b) == Oob(kd, a) <=> Oob(jd, b)
Differs(kd, a, k) == ~(Oob(kd, a) <=> k = "OOB")

Ends(n, s, kd) ==
  {i \in 1 .. n : i = n \/ ~(Oob(kd, s[i]) <=> Oob(kd, s[i + 1]))}

\* The last line ends a run.
LEMMA EndsAre ==
  ASSUME NEW n \in Nat, NEW s, NEW kd
  PROVE  Marks(Ends(n, s, kd), n)
  BY DEF Marks, Ends

\* Ends when t comes last.
LEMMA EndsBack ==
  ASSUME NEW n, NEW s, NEW kd, NEW jd, NEW t \in Addr, Chain(n, s),
         \A i \in 1 .. n : s[i] # t, \A a \in Addr : a # t => jd[a] = kd[a]
  PROVE  /\ n > 0 /\ Alike(kd, s[n], jd, t)
              => Ends(n + 1, PushBack(n, s, t), jd)
                   = (Ends(n, s, kd) \ {n}) \cup {n + 1}
         /\ ~(n > 0 /\ Alike(kd, s[n], jd, t))
              => Ends(n + 1, PushBack(n, s, t), jd)
                   = Ends(n, s, kd) \cup {n + 1}
<1> DEFINE r == PushBack(n, s, t)
<1>1. /\ n \in Nat /\ r[n + 1] = t /\ \A i \in 0 .. n : r[i] = s[i]
      /\ \A i \in 1 .. n : s[i] \in Addr
  BY BackIs DEF Chain
<1>2. \A i \in 1 .. n : Oob(jd, r[i]) <=> Oob(kd, s[i])
  BY <1>1 DEF Oob
<1> HIDE DEF r
<1>3. ASSUME NEW i \in 1 .. n, i # n
      PROVE  i \in Ends(n + 1, r, jd) <=> i \in Ends(n, s, kd)
  <2>1. i + 1 \in 1 .. n /\ i \in 1 .. n + 1 /\ i # n + 1
    BY <1>1, <1>3
  <2>2. /\ Oob(jd, r[i]) <=> Oob(kd, s[i])
        /\ Oob(jd, r[i + 1]) <=> Oob(kd, s[i + 1])
    BY <1>2, <2>1
  <2> QED  BY <1>3, <2>1, <2>2 DEF Ends
<1>4. n > 0 => n \in 1 .. n /\ n \in 1 .. n + 1 /\ n # n + 1
               /\ n \in Ends(n, s, kd)
  BY <1>1 DEF Ends
<1>5. n > 0 => (n \in Ends(n + 1, r, jd)
                  <=> ~Alike(kd, s[n], jd, t))
  BY <1>1, <1>2, <1>4 DEF Ends, Alike
<1>6. n + 1 \in Ends(n + 1, r, jd)
  BY <1>1 DEF Ends
<1>7. /\ Ends(n + 1, r, jd) \subseteq 1 .. n + 1
      /\ Ends(n, s, kd) \subseteq 1 .. n
      /\ \A i \in 1 .. n + 1 : i = n + 1 \/ i \in 1 .. n
  BY <1>1 DEF Ends
<1>8. \A i : i \in 1 .. n => i # n + 1
  BY <1>1
<1>9. CASE n > 0 /\ Alike(kd, s[n], jd, t)
  <2>1. \A i : i \in Ends(n + 1, r, jd)
                 <=> i \in (Ends(n, s, kd) \ {n}) \cup {n + 1}
    BY <1>3, <1>4, <1>5, <1>6, <1>7, <1>8, <1>9
  <2> QED  BY <1>9, <2>1 DEF r
<1>10. CASE ~(n > 0 /\ Alike(kd, s[n], jd, t))
  <2>1. ASSUME NEW i \in 1 .. n
        PROVE  i \in Ends(n + 1, r, jd) <=> i \in Ends(n, s, kd)
    <3>1. n > 0
      BY <1>1
    <3>2. n \in Ends(n + 1, r, jd)
      BY <1>5, <1>10, <3>1
    <3> QED  BY <1>3, <1>4, <3>1, <3>2
  <2>2. \A i : i \in Ends(n + 1, r, jd)
                 <=> i \in Ends(n, s, kd) \cup {n + 1}
    BY <1>6, <1>7, <1>8, <2>1
  <2> QED  BY <1>10, <2>2 DEF r
<1> QED  BY <1>9, <1>10

\* Ends when t comes first.
LEMMA EndsFront ==
  ASSUME NEW n, NEW s, NEW kd, NEW jd, NEW t \in Addr, Chain(n, s), n > 0,
         \A i \in 1 .. n : s[i] # t, \A a \in Addr : a # t => jd[a] = kd[a]
  PROVE  /\ Alike(kd, s[1], jd, t)
              => Ends(n + 1, PushFront(n, s, t), jd) = Shifted(Ends(n, s, kd))
         /\ ~Alike(kd, s[1], jd, t)
              => Ends(n + 1, PushFront(n, s, t), jd)
                   = {1} \cup Shifted(Ends(n, s, kd))
<1> DEFINE r == PushFront(n, s, t)
           F == Ends(n + 1, r, jd)
           E == Ends(n, s, kd)
<1>1. /\ n \in Nat /\ r[1] = t /\ \A i \in 1 .. n : r[i + 1] = s[i]
      /\ \A i \in 1 .. n : s[i] \in Addr
  <2>1. r[1] = t /\ \A i \in 1 .. n : r[i + 1] = s[i]
    BY FrontIs
  <2> QED  BY <2>1 DEF Chain
<1>2. \A i \in 1 .. n : Oob(jd, r[i + 1]) <=> Oob(kd, s[i])
  BY <1>1 DEF Oob
<1> HIDE DEF r
<1>3. ASSUME NEW i \in 1 .. n PROVE i + 1 \in F <=> i \in E
  <2>1. i + 1 \in 1 .. n + 1 /\ (i + 1 = n + 1 <=> i = n)
        /\ (i # n => i + 1 \in 1 .. n)
    BY <1>1
  <2>2. CASE i = n
    BY <2>1, <2>2 DEF Ends
  <2>3. CASE i # n
    <3>1. /\ Oob(jd, r[i + 1]) <=> Oob(kd, s[i])
          /\ Oob(jd, r[(i + 1) + 1]) <=> Oob(kd, s[i + 1])
      BY <1>2, <2>1, <2>3
    <3> QED  BY <2>1, <2>3, <3>1 DEF Ends
  <2> QED  BY <2>2, <2>3
<1>4. 1 \in F <=> ~Alike(kd, s[1], jd, t)
  <2>1. 1 \in 1 .. n /\ 1 \in 1 .. n + 1 /\ 1 # n + 1 /\ 1 + 1 = 2
    BY <1>1
  <2>2. Oob(jd, r[1 + 1]) <=> Oob(kd, s[1])
    BY <1>2, <2>1
  <2>3. 1 \in F <=> ~(Oob(jd, r[1]) <=> Oob(jd, r[1 + 1]))
    BY <2>1 DEF Ends
  <2> QED  BY <1>1, <2>2, <2>3 DEF Alike
<1>5. /\ F \subseteq 1 .. n + 1 /\ E \subseteq 1 .. n
      /\ \A i \in 1 .. n + 1 : i = 1 \/ \E j \in 1 .. n : i = j + 1
  <2>1. ASSUME NEW i \in 1 .. n + 1, i # 1
        PROVE  i - 1 \in 1 .. n /\ i = (i - 1) + 1
    BY <1>1, <2>1
  <2>2. \A i \in 1 .. n + 1 : i = 1 \/ \E j \in 1 .. n : i = j + 1
    BY <2>1
  <2> QED  BY <2>2 DEF Ends
<1>6. \A i \in 1 .. n : i + 1 # 1
  BY <1>1
<1> HIDE DEF E, F
<1>7. \A i : i # 1 => (i \in F <=> i \in Shifted(E))
  BY <1>3, <1>5, <1>6 DEF Shifted
<1>8. 1 \notin Shifted(E)
  BY <1>5, <1>6 DEF Shifted
<1>9. /\ Alike(kd, s[1], jd, t) => F = Shifted(E)
      /\ ~Alike(kd, s[1], jd, t) => F = {1} \cup Shifted(E)
  BY <1>4, <1>7, <1>8
<1> QED  BY <1>9 DEF E, F, r

\* The lanes of a list without its p-th line.
LEMMA LanesCut ==
  ASSUME NEW n, NEW s, NEW kd, NEW jd, NEW p \in 1 .. n, Chain(n, s),
         \A a \in Addr : a # s[p] => jd[a] = kd[a]
  PROVE  \A i \in 1 .. n - 1 :
           Oob(jd, Cut(n, s, p)[i])
             <=> Oob(kd, IF i < p THEN s[i] ELSE s[i + 1])
<1>1. /\ \A i \in 0 .. n - 1 :
           /\ Cut(n, s, p)[i] = IF i < p THEN s[i] ELSE s[i + 1]
           /\ Cut(n, s, p)[i] # s[p]
      /\ Chain(n - 1, Cut(n, s, p))
  BY CutIs
<1>2. \A i \in 1 .. n - 1 : Cut(n, s, p)[i] \in Addr /\ i \in 0 .. n - 1
  BY <1>1 DEF Chain
<1> QED  BY <1>1, <1>2 DEF Oob

\* Ends when a line inside a run goes.
LEMMA EndsCutInner ==
  ASSUME NEW n, NEW s, NEW kd, NEW jd, NEW p \in 1 .. n, Chain(n, s),
         \A a \in Addr : a # s[p] => jd[a] = kd[a], p \notin Ends(n, s, kd)
  PROVE  Ends(n - 1, Cut(n, s, p), jd)
           = {i \in 0 .. n - 1 : IF i < p THEN i \in Ends(n, s, kd)
                                 ELSE i + 1 \in Ends(n, s, kd)}
<1> DEFINE r == Cut(n, s, p)
           E == Ends(n, s, kd)
<1>1. /\ n \in Nat /\ p \in Nat /\ p < n
      /\ Oob(kd, s[p]) <=> Oob(kd, s[p + 1])
  BY DEF Chain, Ends
<1>2. \A i \in 1 .. n - 1 :
        Oob(jd, r[i]) <=> Oob(kd, IF i < p THEN s[i] ELSE s[i + 1])
  BY LanesCut
<1> HIDE DEF r
<1>3. ASSUME NEW i \in 1 .. n - 1
      PROVE  i \in Ends(n - 1, r, jd)
               <=> IF i < p THEN i \in E ELSE i + 1 \in E
  <2>1. CASE i = n - 1
    BY <1>1, <2>1 DEF Ends
  <2>2. CASE i # n - 1
    <3>1. i + 1 \in 1 .. n - 1 /\ i \in 1 .. n /\ i # n
          /\ i + 1 \in 1 .. n /\ i + 1 # n
      BY <1>1, <2>2
    <3>2. i \in Ends(n - 1, r, jd)
            <=> ~(Oob(jd, r[i]) <=> Oob(jd, r[i + 1]))
      BY <2>2 DEF Ends
    <3>3. /\ Oob(jd, r[i]) <=> Oob(kd, IF i < p THEN s[i] ELSE s[i + 1])
          /\ Oob(jd, r[i + 1])
               <=> Oob(kd, IF i + 1 < p THEN s[i + 1] ELSE s[(i + 1) + 1])
      BY <1>2, <3>1
    <3>4. /\ i \in E <=> ~(Oob(kd, s[i]) <=> Oob(kd, s[i + 1]))
          /\ i + 1 \in E <=> ~(Oob(kd, s[i + 1]) <=> Oob(kd, s[(i + 1) + 1]))
      BY <3>1 DEF Ends
    <3>5. CASE i + 1 < p
      <4>1. i < p
        BY <1>1, <3>5
      <4> QED  BY <3>2, <3>3, <3>4, <3>5, <4>1
    <3>6. CASE i + 1 = p
      <4>1. i < p /\ ~(i + 1 < p) /\ (i + 1) + 1 = p + 1
        BY <1>1, <3>6
      <4>2. Oob(kd, s[i + 1]) <=> Oob(kd, s[(i + 1) + 1])
        BY <1>1, <3>6, <4>1
      <4> QED  BY <3>2, <3>3, <3>4, <4>1, <4>2
    <3>7. CASE i >= p
      <4>1. ~(i < p) /\ ~(i + 1 < p)
        BY <1>1, <3>7
      <4> QED  BY <3>2, <3>3, <3>4, <4>1
    <3>8. i + 1 < p \/ i + 1 = p \/ i >= p
      BY <1>1
    <3> QED  BY <3>5, <3>6, <3>7, <3>8
  <2> QED  BY <2>1, <2>2
<1>4. /\ 0 \notin E /\ Ends(n - 1, r, jd) \subseteq 1 .. n - 1 /\ 0 < p
      /\ \A i \in 0 .. n - 1 : i = 0 \/ i \in 1 .. n - 1
      /\ \A i \in 1 .. n - 1 : i \in 0 .. n - 1
  BY <1>1 DEF Ends
<1> HIDE DEF E
<1>5. \A i : i \in Ends(n - 1, r, jd)
               <=> i \in {m \in 0 .. n - 1 : IF m < p THEN m \in E
                                             ELSE m + 1 \in E}
  BY <1>3, <1>4
<1>6. Ends(n - 1, r, jd) = {m \in 0 .. n - 1 : IF m < p THEN m \in E
                                               ELSE m + 1 \in E}
  BY <1>5
<1> QED  BY <1>6 DEF E, r

\* Ends when a run of one line goes from between two others, of which the
\* one before it is the first of the list, or from the front.
LEMMA EndsCutRun ==
  ASSUME NEW n, NEW s, NEW kd, NEW jd, NEW p \in 1 .. n, Chain(n, s),
         \A a \in Addr : a # s[p] => jd[a] = kd[a],
         p \in Ends(n, s, kd), p < n, p = 1 \/ p - 1 \in Ends(n, s, kd),
         \A m \in Ends(n, s, kd) : m < p => m = p - 1
  PROVE  Ends(n - 1, Cut(n, s, p), jd)
           = {i \in p .. n - 1 : i + 1 \in Ends(n, s, kd)}
<1> DEFINE r == Cut(n, s, p)
           E == Ends(n, s, kd)
<1>1. /\ n \in Nat /\ p \in Nat /\ p < n /\ p >= 1
      /\ ~(Oob(kd, s[p]) <=> Oob(kd, s[p + 1]))
  BY DEF Chain, Ends
<1>2. \A i \in 1 .. n - 1 :
        Oob(jd, r[i]) <=> Oob(kd, IF i < p THEN s[i] ELSE s[i + 1])
  BY LanesCut
<1> HIDE DEF r
<1>3. ASSUME NEW i \in 1 .. n - 1
      PROVE  i \in Ends(n - 1, r, jd) <=> i >= p /\ i + 1 \in E
  <2>1. CASE i = n - 1
    BY <1>1, <2>1 DEF Ends
  <2>2. CASE i # n - 1
    <3>1. i + 1 \in 1 .. n - 1 /\ i \in 1 .. n /\ i # n
          /\ i + 1 \in 1 .. n /\ i + 1 # n
      BY <1>1, <2>2
    <3>2. i \in Ends(n - 1, r, jd)
            <=> ~(Oob(jd, r[i]) <=> Oob(jd, r[i + 1]))
      BY <2>2 DEF Ends
    <3>3. /\ Oob(jd, r[i]) <=> Oob(kd, IF i < p THEN s[i] ELSE s[i + 1])
          /\ Oob(jd, r[i + 1])
               <=> Oob(kd, IF i + 1 < p THEN s[i + 1] ELSE s[(i + 1) + 1])
      BY <1>2, <3>1
    <3>4. /\ i \in E <=> ~(Oob(kd, s[i]) <=> Oob(kd, s[i + 1]))
          /\ i + 1 \in E <=> ~(Oob(kd, s[i + 1]) <=> Oob(kd, s[(i + 1) + 1]))
      BY <3>1 DEF Ends
    <3>5. CASE i + 1 < p
      <4>1. i < p /\ ~(i >= p) /\ i # p - 1
        BY <1>1, <3>5
      <4>2. i \notin E
        BY <4>1
      <4> QED  BY <3>2, <3>3, <3>4, <3>5, <4>1, <4>2
    <3>6. CASE i + 1 = p
      <4>1. i < p /\ ~(i >= p) /\ ~(i + 1 < p) /\ (i + 1) + 1 = p + 1
            /\ i = p - 1 /\ p # 1
        BY <1>1, <3>6
      <4>2. i \in E
        BY <4>1
      <4>3. ~(Oob(kd, s[i + 1]) <=> Oob(kd, s[(i + 1) + 1]))
        BY <1>1, <3>6, <4>1
      <4> QED  BY <3>2, <3>3, <3>4, <4>1, <4>2, <4>3
    <3>7. CASE i >= p
      <4>1. ~(i < p) /\ ~(i + 1 < p)
        BY <1>1, <3>7
      <4> QED  BY <3>2, <3>3, <3>4, <3>7, <4>1
    <3>8. i + 1 < p \/ i + 1 = p \/ i >= p
      BY <1>1
    <3> QED  BY <3>5, <3>6, <3>7, <3>8
  <2> QED  BY <2>1, <2>2
<1>4. Ends(n - 1, r, jd) \subseteq 1 .. n - 1
      /\ \A i : i \in p .. n - 1 <=> i \in 1 .. n - 1 /\ i >= p
  BY <1>1 DEF Ends
<1> HIDE DEF E
<1>5. \A i : i \in Ends(n - 1, r, jd)
               <=> i \in {m \in p .. n - 1 : m + 1 \in E}
  BY <1>3, <1>4
<1>6. Ends(n - 1, r, jd) = {m \in p .. n - 1 : m + 1 \in E}
  BY <1>5
<1> QED  BY <1>6 DEF E, r

\* Ends when the last of at most two runs goes.
LEMMA EndsCutLast ==
  ASSUME NEW n, NEW s, NEW kd, NEW jd, Chain(n, s), n > 0,
         \A a \in Addr : a # s[n] => jd[a] = kd[a],
         \A m \in Ends(n, s, kd) : m < n => m = n - 1
  PROVE  Ends(n - 1, Cut(n, s, n), jd) = {i \in 1 .. n - 1 : i = n - 1}
<1> DEFINE r == Cut(n, s, n)
           E == Ends(n, s, kd)
<1>1. n \in Nat /\ n \in 1 .. n
  BY DEF Chain
<1>2. \A i \in 1 .. n - 1 :
        Oob(jd, r[i]) <=> Oob(kd, IF i < n THEN s[i] ELSE s[i + 1])
  BY <1>1, LanesCut
<1> HIDE DEF r
<1>3. ASSUME NEW i \in 1 .. n - 1
      PROVE  i \in Ends(n - 1, r, jd) <=> i = n - 1
  <2>1. CASE i = n - 1
    BY <1>1, <2>1 DEF Ends
  <2>2. CASE i # n - 1
    <3>1. i + 1 \in 1 .. n - 1 /\ i \in 1 .. n /\ i # n /\ i < n /\ i + 1 < n
      BY <1>1, <2>2
    <3>2. /\ Oob(jd, r[i]) <=> Oob(kd, s[i])
          /\ Oob(jd, r[i + 1]) <=> Oob(kd, s[i + 1])
      BY <1>2, <3>1
    <3>3. i \notin E
      BY <2>2, <3>1
    <3>4. Oob(kd, s[i]) <=> Oob(kd, s[i + 1])
      BY <3>1, <3>3 DEF Ends
    <3>5. i \in Ends(n - 1, r, jd)
            <=> ~(Oob(jd, r[i]) <=> Oob(jd, r[i + 1]))
      BY <2>2 DEF Ends
    <3> QED  BY <2>2, <3>2, <3>4, <3>5
  <2> QED  BY <2>1, <2>2
<1>4. Ends(n - 1, r, jd) \subseteq 1 .. n - 1
  BY DEF Ends
<1>5. \A i : i \in Ends(n - 1, r, jd) <=> i \in {m \in 1 .. n - 1 : m = n - 1}
  BY <1>3, <1>4
<1>6. Ends(n - 1, r, jd) = {m \in 1 .. n - 1 : m = n - 1}
  BY <1>5
<1> QED  BY <1>6 DEF r

\* Lines with no end of a run between them are of one lane.
LEMMA SameLane ==
  ASSUME NEW n \in Nat, NEW s, NEW kd, NEW i \in 1 .. n, NEW j \in i .. n,
         \A m \in Ends(n, s, kd) : ~(i <= m /\ m < j)
  PROVE  Oob(kd, s[i]) <=> Oob(kd, s[j])
<1> DEFINE T == {m \in Nat : i + m <= j
                               => (Oob(kd, s[i]) <=> Oob(kd, s[i + m]))}
<1>1. 0 \in T
  OBVIOUS
<1>2. ASSUME NEW m \in Nat, m \in T PROVE m + 1 \in T
  <2> SUFFICES ASSUME i + (m + 1) <= j
               PROVE  Oob(kd, s[i]) <=> Oob(kd, s[i + (m + 1)])
    OBVIOUS
  <2>1. i + m \in 1 .. n /\ i + m # n /\ i <= i + m /\ i + m < j
        /\ i + m <= j /\ (i + m) + 1 = i + (m + 1)
    OBVIOUS
  <2>2. i + m \notin Ends(n, s, kd)
    BY <2>1
  <2>3. Oob(kd, s[i + m]) <=> Oob(kd, s[(i + m) + 1])
    BY <2>1, <2>2 DEF Ends
  <2>4. Oob(kd, s[i]) <=> Oob(kd, s[i + m])
    BY <1>2, <2>1
  <2> QED  BY <2>1, <2>3, <2>4
<1>3. Nat \subseteq T
  <2> HIDE DEF T
  <2> QED  BY <1>1, <1>2, NatClosed
<1>4. j - i \in Nat /\ i + (j - i) = j /\ i + (j - i) <= j
  OBVIOUS
<1>5. j - i \in T
  BY <1>3, <1>4
<1> QED  BY <1>4, <1>5

-----------------------------------------------------------------------------
(* Enqueue and dequeue keep both lists *)

\* What the pointers and kinds of a queue with n lines look like.
Shape(n, s, kd, nx, ni, li, la) ==
  /\ Chain(n, s) /\ Fields(kd, nx, ni)
  /\ Linked(n, s, nx, li) /\ Blank(n, s, kd, nx, ni)
  /\ Threaded(Ends(n, s, kd), n, s, ni, la)

\* g is f but for one value, two or three.
Updated(f, a, v, g) == g = [f EXCEPT ![a] = v]
Updated2(f, a, v, b, w, g) == g = [f EXCEPT ![a] = v, ![b] = w]
Updated3(f, a, v, b, w, c, x, g) ==
  g = [f EXCEPT ![a] = v, ![b] = w, ![c] = x]

\* A free address is in neither list.
LEMMA FreeIs ==
  ASSUME NEW n, NEW s, NEW kd, NEW nx, NEW ni, Blank(n, s, kd, nx, ni),
         NEW t \in Addr, kd[t] = "NONE"
  PROVE  nx[t] = NULL /\ ni[t] = NULL /\ \A i \in 1 .. n : s[i] # t
  BY DEF Blank

\* enqueue_input_task() at the rear, or of the first line.
LEMMA ShapeBack ==
  ASSUME NEW n, NEW s, NEW kd, NEW nx, NEW ni, NEW li, NEW la,
         Shape(n, s, kd, nx, ni, li, la),
         NEW t \in Addr, kd[t] = "NONE", NEW k \in Kinds,
         NEW jd, NEW mx, NEW nj, NEW slot,
         Updated(kd, t, k, jd), Updated(nx, li, t, mx),
         nx[TQ] # NULL /\ Differs(kd, ni[la], k) => slot = ni[la],
         ~(nx[TQ] # NULL /\ Differs(kd, ni[la], k)) => slot = la,
         Updated(ni, slot, t, nj)
  PROVE  Shape(n + 1, PushBack(n, s, t), jd, mx, nj, t, slot)
<1> DEFINE r == PushBack(n, s, t)
           E == Ends(n, s, kd)
<1>1. /\ Chain(n, s) /\ Fields(kd, nx, ni) /\ Linked(n, s, nx, li)
      /\ Blank(n, s, kd, nx, ni) /\ Threaded(E, n, s, ni, la) /\ n \in Nat
  BY DEF Shape, Chain
<1>2. nx[t] = NULL /\ ni[t] = NULL /\ \A i \in 1 .. n : s[i] # t
  BY <1>1, FreeIs
<1>3. /\ Chain(n + 1, r) /\ r[n + 1] = t
      /\ \A i \in 0 .. n : r[i] = s[i] /\ s[i] # t
  BY <1>1, <1>2, BackIs
<1>4. Marks(E, n)
  BY <1>1, EndsAre
<1>5. /\ \A i \in 0 .. n : s[i] \in Cells
      /\ n > 0 => s[n] \in Addr
  BY <1>1 DEF Chain
<1>6. li = s[n] /\ nx[s[n]] = NULL /\ s[0] = TQ
      /\ \A i \in 1 .. n : nx[s[i - 1]] = s[i] /\ s[i] # NULL
  BY <1>1 DEF Linked, Chain
<1>7. /\ n > 0 => nx[TQ] # NULL /\ ni[la] = s[n]
      /\ n = 0 => nx[TQ] = NULL /\ la = s[n]
  <2>1. CASE n = 0
    BY <1>1, <1>6, <2>1 DEF Threaded, Linked
  <2>2. CASE n > 0
    <3>1. 1 \in 1 .. n /\ 1 - 1 = 0
      BY <1>1, <2>2
    <3>2. nx[TQ] # NULL
      BY <1>6, <3>1
    <3>3. n \in E /\ n # 0
      BY <1>4, <2>2 DEF Marks
    <3>4. PICK l \in {0} \cup E : la = s[l] /\ Succ(E, l, n)
      BY <1>1, <3>3 DEF Threaded
    <3>5. ni[s[l]] = s[n]
      BY <1>1, <3>3, <3>4 DEF Threaded
    <3> QED  BY <2>2, <3>2, <3>4, <3>5
  <2> QED  BY <1>1, <2>1, <2>2
<1> HIDE DEF r, E
<1>8. Fields(jd, mx, nj)
  <2>1. kd \in [Addr -> Kinds \cup {"NONE"}]
        /\ nx \in [Cells -> Addr \cup {NULL}]
        /\ ni \in [Cells -> Addr \cup {NULL}]
    BY <1>1 DEF Fields
  <2> QED  BY <2>1 DEF Fields, Updated
<1>9. /\ jd[t] = k /\ \A a \in Addr : a # t => jd[a] = kd[a]
      /\ \A a \in Addr : Alike(kd, a, jd, t) <=> ~Differs(kd, a, k)
  BY <1>1 DEF Fields, Oob, Alike, Differs, Updated
<1>10. mx[s[n]] = t /\ \A c \in Cells : c # s[n] => mx[c] = nx[c]
  BY <1>1, <1>5, <1>6 DEF Fields, Updated
<1>11. Linked(n + 1, r, mx, t)
  <2>1. ASSUME NEW i \in 1 .. n + 1 PROVE mx[r[i - 1]] = r[i]
    <3>1. CASE i = n + 1
      BY <1>1, <1>3, <1>10, <3>1
    <3>2. CASE i # n + 1
      <4>1. i \in 1 .. n /\ i \in 0 .. n /\ i - 1 \in 0 .. n /\ i - 1 # n
            /\ n \in 0 .. n
        BY <1>1, <3>2
      <4>2. s[i - 1] # s[n] /\ s[i - 1] \in Cells
        BY <1>1, <1>5, <4>1 DEF Chain
      <4> QED  BY <1>3, <1>6, <1>10, <4>1, <4>2
    <3> QED  BY <3>1, <3>2
  <2>2. mx[t] = NULL
    BY <1>1, <1>2, <1>3, <1>10 DEF Cells
  <2> QED  BY <1>3, <2>1, <2>2 DEF Linked
<1>12. slot = s[n] \/ slot = la
  BY <1>1, <1>7
<1>13. Blank(n + 1, r, jd, mx, nj)
  <2> SUFFICES ASSUME NEW a \in Addr
               PROVE \/ jd[a] # "NONE" /\ \E i \in 1 .. n + 1 : r[i] = a
                     \/ /\ jd[a] = "NONE" /\ mx[a] = NULL /\ nj[a] = NULL
                        /\ \A i \in 1 .. n + 1 : r[i] # a
    BY DEF Blank
  <2>1. CASE a = t
    <3>1. n + 1 \in 1 .. n + 1 /\ k # "NONE"
      BY <1>1 DEF Kinds
    <3> QED  BY <1>3, <1>9, <2>1, <3>1
  <2>2. CASE a # t /\ kd[a] # "NONE"
    <3>1. PICK i \in 1 .. n : s[i] = a
      BY <1>1, <2>2 DEF Blank
    <3>2. i \in 1 .. n + 1 /\ r[i] = a
      BY <1>1, <1>3, <3>1
    <3> QED  BY <1>9, <2>2, <3>2
  <2>3. CASE a # t /\ kd[a] = "NONE"
    <3>1. nx[a] = NULL /\ ni[a] = NULL /\ \A i \in 1 .. n : s[i] # a
      BY <1>1, <2>3, FreeIs
    <3>2. \A i \in 0 .. n : s[i] # a
      BY <1>1, <1>6, <3>1
    <3>3. mx[a] = NULL
      BY <1>1, <1>10, <3>1, <3>2 DEF Cells
    <3>4. la # a
      <4>1. \E l \in {0} \cup E : la = s[l]
        BY <1>1 DEF Threaded
      <4>2. E \subseteq 1 .. n
        BY <1>4 DEF Marks
      <4> QED  BY <1>1, <3>2, <4>1, <4>2
    <3>5. nj[a] = NULL
      BY <1>1, <1>12, <3>1, <3>2, <3>4 DEF Fields, Cells, Updated
    <3>6. \A i \in 1 .. n + 1 : r[i] # a
      BY <1>1, <1>3, <2>3, <3>2
    <3> QED  BY <1>9, <2>3, <3>3, <3>5, <3>6
  <2> QED  BY <2>1, <2>2, <2>3
<1>14. Threaded(Ends(n + 1, r, jd), n + 1, r, nj, slot)
  <2>0. ni \in [Cells -> Addr \cup {NULL}]
    BY <1>1 DEF Fields
  <2>1. CASE n > 0 /\ Alike(kd, s[n], jd, t)
    <3>1. slot = la
      BY <1>5, <1>7, <1>9, <2>1
    <3>2. Ends(n + 1, r, jd) = (E \ {n}) \cup {n + 1}
      <4>1. Ends(n + 1, PushBack(n, s, t), jd)
              = (Ends(n, s, kd) \ {n}) \cup {n + 1}
        BY <1>1, <1>2, <1>9, <2>1, EndsBack
      <4> QED  BY <4>1 DEF r, E
    <3>3. Threaded((E \ {n}) \cup {n + 1}, n + 1, PushBack(n, s, t),
                   [ni EXCEPT ![la] = t], la)
      BY <1>1, <1>2, <1>4, <2>0, <2>1, ThreadBackSame
    <3> QED  BY <3>1, <3>2, <3>3 DEF r, Updated, Updated2
  <2>2. CASE ~(n > 0 /\ Alike(kd, s[n], jd, t))
    <3>1. slot = s[n]
      BY <1>1, <1>5, <1>7, <1>9, <2>2
    <3>2. Ends(n + 1, r, jd) = E \cup {n + 1}
      <4>1. Ends(n + 1, PushBack(n, s, t), jd) = Ends(n, s, kd) \cup {n + 1}
        BY <1>1, <1>2, <1>9, <2>2, EndsBack
      <4> QED  BY <4>1 DEF r, E
    <3>3. Threaded(E \cup {n + 1}, n + 1, PushBack(n, s, t),
                   [ni EXCEPT ![s[n]] = t], s[n])
      BY <1>1, <1>2, <1>4, <2>0, ThreadBackNew
    <3> QED  BY <3>1, <3>2, <3>3 DEF r, Updated, Updated2
  <2> QED  BY <2>1, <2>2
<1>15. Shape(n + 1, r, jd, mx, nj, t, slot)
  BY <1>3, <1>8, <1>11, <1>13, <1>14 DEF Shape
<1> QED  BY <1>15 DEF r

\* enqueue_input_task() in front of other lines.
LEMMA ShapeFront ==
  ASSUME NEW n, NEW s, NEW kd, NEW nx, NEW ni, NEW li, NEW la,
         Shape(n, s, kd, nx, ni, li, la), nx[TQ] # NULL,
         NEW t \in Addr, kd[t] = "NONE", NEW k \in Kinds,
         NEW jd, NEW mx, NEW nj, NEW lb,
         Updated(kd, t, k, jd), Updated2(nx, t, nx[TQ], TQ, t, mx),
         Differs(kd, nx[TQ], k) =>
            /\ Updated2(ni, t, ni[TQ], TQ, t, nj)
            /\ lb = IF la = TQ THEN t ELSE la,
         ~Differs(kd, nx[TQ], k) => nj = ni /\ lb = la
  PROVE  Shape(n + 1, PushFront(n, s, t), jd, mx, nj, li, lb)
<1> DEFINE r == PushFront(n, s, t)
           E == Ends(n, s, kd)
<1>1. /\ Chain(n, s) /\ Fields(kd, nx, ni) /\ Linked(n, s, nx, li)
      /\ Blank(n, s, kd, nx, ni) /\ Threaded(E, n, s, ni, la) /\ n \in Nat
  BY DEF Shape, Chain
<1>2. nx[t] = NULL /\ ni[t] = NULL /\ \A i \in 1 .. n : s[i] # t
  BY <1>1, FreeIs
<1>3. /\ Chain(n + 1, r) /\ r[1] = t /\ r[0] = TQ
      /\ \A i \in 0 .. n : s[i] # t
      /\ \A i \in 1 .. n : r[i + 1] = s[i]
  BY <1>1, <1>2, FrontIs
<1>4. Marks(E, n)
  BY <1>1, EndsAre
<1>5. /\ \A i \in 0 .. n : s[i] \in Cells
      /\ \A i \in 1 .. n : s[i] \in Addr
      /\ n > 0 => s[1] \in Addr
  BY <1>1 DEF Chain
<1>6. li = s[n] /\ nx[s[n]] = NULL /\ s[0] = TQ
      /\ \A i \in 1 .. n : nx[s[i - 1]] = s[i]
  BY <1>1 DEF Linked, Chain
<1>7. n > 0 /\ nx[TQ] = s[1]
  <2>1. n > 0
    BY <1>1, <1>6
  <2>2. 1 \in 1 .. n /\ 1 - 1 = 0
    BY <1>1, <2>1
  <2> QED  BY <1>6, <2>1, <2>2
<1> HIDE DEF r, E
<1>8. Fields(jd, mx, nj)
  <2>1. kd \in [Addr -> Kinds \cup {"NONE"}]
        /\ nx \in [Cells -> Addr \cup {NULL}]
        /\ ni \in [Cells -> Addr \cup {NULL}]
        /\ nx[TQ] \in Addr \cup {NULL} /\ ni[TQ] \in Addr \cup {NULL}
    BY <1>1 DEF Fields, Cells
  <2>2. nj \in [Cells -> Addr \cup {NULL}]
    <3>1. nj = ni \/ Updated2(ni, t, ni[TQ], TQ, t, nj)
      OBVIOUS
    <3>2. CASE nj = ni
      BY <2>1, <3>2
    <3>3. CASE Updated2(ni, t, ni[TQ], TQ, t, nj)
      <4>1. nj = [ni EXCEPT ![t] = ni[TQ], ![TQ] = t]
        BY <3>3 DEF Updated2
      <4> QED  BY <2>1, <4>1
    <3> QED  BY <3>1, <3>2, <3>3
  <2> QED  BY <2>1, <2>2 DEF Fields, Updated, Updated2
<1>9. /\ jd[t] = k /\ \A a \in Addr : a # t => jd[a] = kd[a]
      /\ \A a \in Addr : Alike(kd, a, jd, t) <=> ~Differs(kd, a, k)
  BY <1>1 DEF Fields, Oob, Alike, Differs, Updated
<1>10. /\ mx[TQ] = t /\ mx[t] = s[1]
       /\ \A c \in Cells : c # t /\ c # TQ => mx[c] = nx[c] /\ nj[c] = ni[c]
  BY <1>1, <1>7 DEF Fields, Cells, Updated2
<1>11. \A i \in 1 .. n : mx[s[i]] = nx[s[i]] /\ s[i] # TQ
  <2>1. \A i \in 1 .. n : s[i] \in Addr /\ s[i] # t /\ s[i] # TQ
    BY <1>2, <1>5
  <2> QED  BY <1>10, <2>1 DEF Cells
<1>12. Linked(n + 1, r, mx, li)
  <2>1. ASSUME NEW i \in 1 .. n + 1 PROVE mx[r[i - 1]] = r[i]
    <3>1. CASE i = 1
      <4>1. i - 1 = 0
        BY <3>1
      <4> QED  BY <1>3, <1>10, <3>1, <4>1
    <3>2. CASE i = 2
      <4>1. 1 \in 1 .. n /\ 1 + 1 = 2 /\ 2 - 1 = 1
        BY <1>1, <1>7
      <4> QED  BY <1>3, <1>10, <3>2, <4>1
    <3>3. CASE i > 2
      <4>1. i - 1 \in 1 .. n /\ (i - 1) - 1 \in 1 .. n
            /\ (i - 1) + 1 = i /\ ((i - 1) - 1) + 1 = i - 1
        BY <1>1, <3>3
      <4>2. r[i] = s[i - 1] /\ r[i - 1] = s[(i - 1) - 1]
        BY <1>3, <4>1
      <4> QED  BY <1>6, <1>11, <4>1, <4>2
    <3> QED  BY <1>1, <3>1, <3>2, <3>3
  <2>2. n \in 1 .. n
    BY <1>1, <1>7
  <2>3. mx[r[n + 1]] = NULL /\ li = r[n + 1]
    BY <1>3, <1>6, <1>11, <2>2
  <2> QED  BY <2>1, <2>3 DEF Linked
<1>13. Blank(n + 1, r, jd, mx, nj)
  <2> SUFFICES ASSUME NEW a \in Addr
               PROVE \/ jd[a] # "NONE" /\ \E i \in 1 .. n + 1 : r[i] = a
                     \/ /\ jd[a] = "NONE" /\ mx[a] = NULL /\ nj[a] = NULL
                        /\ \A i \in 1 .. n + 1 : r[i] # a
    BY DEF Blank
  <2>0. a \in Cells /\ a # TQ
    BY DEF Cells
  <2>1. CASE a = t
    <3>1. 1 \in 1 .. n + 1 /\ k # "NONE"
      BY <1>1 DEF Kinds
    <3> QED  BY <1>3, <1>9, <2>1, <3>1
  <2>2. CASE a # t /\ kd[a] # "NONE"
    <3>1. PICK i \in 1 .. n : s[i] = a
      BY <1>1, <2>2 DEF Blank
    <3>2. i + 1 \in 1 .. n + 1 /\ r[i + 1] = a
      BY <1>1, <1>3, <3>1
    <3> QED  BY <1>9, <2>2, <3>2
  <2>3. CASE a # t /\ kd[a] = "NONE"
    <3>1. nx[a] = NULL /\ ni[a] = NULL /\ \A i \in 1 .. n : s[i] # a
      BY <1>1, <2>3, FreeIs
    <3>2. mx[a] = NULL /\ nj[a] = NULL
      BY <1>10, <2>0, <2>3, <3>1
    <3>3. ASSUME NEW i \in 1 .. n + 1 PROVE r[i] # a
      <4>1. CASE i = 1
        BY <1>3, <2>3, <4>1
      <4>2. CASE i # 1
        <5>1. i - 1 \in 1 .. n /\ (i - 1) + 1 = i
          BY <1>1, <4>2
        <5> QED  BY <1>3, <3>1, <5>1
      <4> QED  BY <4>1, <4>2
    <3> QED  BY <1>9, <2>3, <3>2, <3>3
  <2> QED  BY <2>1, <2>2, <2>3
<1>14. Threaded(Ends(n + 1, r, jd), n + 1, r, nj, lb)
  <2>0. ni \in [Cells -> Addr \cup {NULL}] /\ n > 0
    BY <1>1, <1>7 DEF Fields
  <2>1. CASE Alike(kd, s[1], jd, t)
    <3>1. nj = ni /\ lb = la
      BY <1>5, <1>7, <1>9, <2>1
    <3>2. Ends(n + 1, r, jd) = Shifted(E)
      <4>1. /\ t \in Addr /\ Chain(n, s) /\ n > 0 /\ Alike(kd, s[1], jd, t)
            /\ \A i \in 1 .. n : s[i] # t
            /\ \A a \in Addr : a # t => jd[a] = kd[a]
        BY ONLY <1>1, <1>2, <1>5, <1>9, <2>0, <2>1
      <4>2. Ends(n + 1, PushFront(n, s, t), jd) = Shifted(Ends(n, s, kd))
        BY ONLY <4>1, EndsFront
      <4> QED  BY <4>2 DEF r, E
    <3>3. Threaded(Shifted(E), n + 1, PushFront(n, s, t), ni, la)
      BY <1>1, <1>2, <1>4, <1>7, <2>0, ThreadFrontSame
    <3> QED  BY <3>1, <3>2, <3>3 DEF r, Updated, Updated2
  <2>2. CASE ~Alike(kd, s[1], jd, t)
    <3>1. /\ Updated2(ni, t, ni[TQ], TQ, t, nj)
          /\ lb = IF la = TQ THEN t ELSE la
      BY <1>5, <1>7, <1>9, <2>2
    <3>2. Ends(n + 1, r, jd) = {1} \cup Shifted(E)
      <4>1. Ends(n + 1, PushFront(n, s, t), jd)
              = {1} \cup Shifted(Ends(n, s, kd))
        BY <1>1, <1>2, <1>9, <2>0, <2>2, EndsFront
      <4> QED  BY <4>1 DEF r, E
    <3>3. Threaded({1} \cup Shifted(E), n + 1, PushFront(n, s, t),
                   [ni EXCEPT ![t] = ni[TQ], ![TQ] = t],
                   IF la = TQ THEN t ELSE la)
      BY <1>1, <1>2, <1>4, <1>7, <2>0, ThreadFrontNew
    <3> QED  BY <3>1, <3>2, <3>3 DEF r, Updated, Updated2
  <2> QED  BY <2>1, <2>2
<1>15. Shape(n + 1, r, jd, mx, nj, li, lb)
  BY <1>3, <1>8, <1>12, <1>13, <1>14 DEF Shape
<1> QED  BY <1>15 DEF r

\* The slot p - 1 is the head of the list or the end of its first run: those
\* are the slots dequeue_input_task() looks at.
IsSlot(E, p) == p = 1 \/ (p - 1 \in E /\ Succ(E, 0, p - 1))

\* What the itail list says of the p-th line.
Reads(n, s, E, ni, p) ==
  /\ \A m \in E : m < p => m = p - 1
  /\ p > 1 => p - 1 \in E
  /\ s[p] = ni[s[p - 1]] <=> p \in E
  /\ p \in E => (ni[s[p]] = NULL <=> p = n)

\* It is seen from the slots dequeue_input_task() looks at.
LEMMA SlotReads ==
  ASSUME NEW n, NEW s, NEW E, NEW ni, NEW la, NEW p \in 1 .. n,
         Chain(n, s), Marks(E, n), Threaded(E, n, s, ni, la), IsSlot(E, p)
  PROVE  Reads(n, s, E, ni, p)
<1>1. /\ n \in Nat /\ E \in SUBSET (1 .. n) /\ p - 1 \in 0 .. n - 1
      /\ n \in E
      /\ \A i, j \in 0 .. n : s[i] = s[j] => i = j
  BY DEF Chain, Marks
<1>2. \A m \in E : m < p => m = p - 1
  BY <1>1 DEF IsSlot, Succ
<1>3. p > 1 => p - 1 \in E
  BY <1>1 DEF IsSlot
<1>4. p - 1 \in {0} \cup E
  BY <1>1, <1>3
<1>5. \A i \in {0} \cup E, j \in E : Succ(E, i, j) => ni[s[i]] = s[j]
  BY DEF Threaded
<1>6. s[p] = ni[s[p - 1]] <=> p \in E
  <2>1. PICK j \in E : Succ(E, p - 1, j)
    BY <1>1, SuccExists
  <2>2. ni[s[p - 1]] = s[j]
    BY <1>4, <1>5, <2>1
  <2>3. j \in 0 .. n /\ p \in 0 .. n
    BY <1>1
  <2>4. s[p] = s[j] <=> p = j
    BY <1>1, <2>3
  <2>5. p \in E => p = j
    BY <1>1, <2>1 DEF Succ
  <2> QED  BY <2>2, <2>4, <2>5
<1>7. ASSUME p \in E PROVE ni[s[p]] = NULL <=> p = n
  <2>1. CASE p = n
    BY <2>1 DEF Threaded
  <2>2. CASE p # n
    <3>1. p \in 0 .. n - 1
      BY <1>1, <2>2
    <3>2. PICK j \in E : Succ(E, p, j)
      BY <1>1, <3>1, SuccExists
    <3>3. ni[s[p]] = s[j]
      BY <1>5, <1>7, <3>2
    <3>4. s[j] \in Addr
      BY <1>1 DEF Chain
    <3> QED  BY <2>2, <3>3, <3>4
  <2> QED  BY <2>1, <2>2
<1> QED  BY <1>2, <1>3, <1>6, <1>7 DEF Reads

\* The list without its p-th line.
LEMMA LinkedCut ==
  ASSUME NEW n, NEW s, NEW nx \in [Cells -> Addr \cup {NULL}], NEW li,
         NEW p \in 1 .. n, Chain(n, s), Linked(n, s, nx, li),
         NEW mx, NEW lj, Updated2(nx, s[p - 1], nx[s[p]], s[p], NULL, mx),
         lj = IF nx[s[p]] = NULL THEN s[p - 1] ELSE li
  PROVE  Linked(n - 1, Cut(n, s, p), mx, lj)
<1> DEFINE r == Cut(n, s, p)
<1>1. /\ n \in Nat /\ n - 1 \in Nat
      /\ \A i \in 0 .. n : s[i] \in Cells
      /\ \A i \in 1 .. n : s[i] # NULL
      /\ \A i, j \in 0 .. n : s[i] = s[j] => i = j
  BY DEF Chain, Cells
<1>2. \A i \in 0 .. n - 1 : r[i] = IF i < p THEN s[i] ELSE s[i + 1]
  BY CutIs
<1>3. /\ \A i \in 1 .. n : nx[s[i - 1]] = s[i]
      /\ nx[s[n]] = NULL /\ li = s[n]
  BY DEF Linked
<1>4. p \in 0 .. n /\ p - 1 \in 0 .. n /\ p - 1 # p
  BY <1>1
<1>5. s[p] # s[p - 1] /\ s[p] \in Cells /\ s[p - 1] \in Cells
  BY <1>1, <1>4
<1>6. /\ mx[s[p]] = NULL /\ mx[s[p - 1]] = nx[s[p]]
      /\ \A c \in Cells : c # s[p] /\ c # s[p - 1] => mx[c] = nx[c]
  BY <1>5 DEF Updated2
<1>7. \A i \in 0 .. n : i # p /\ i # p - 1 => mx[s[i]] = nx[s[i]]
  BY <1>1, <1>4, <1>6
<1>8. p < n => nx[s[p]] = s[p + 1] /\ s[p + 1] # NULL
  <2> SUFFICES ASSUME p < n PROVE nx[s[p]] = s[p + 1] /\ s[p + 1] # NULL
    OBVIOUS
  <2>1. p + 1 \in 1 .. n /\ (p + 1) - 1 = p
    BY <1>1
  <2> QED  BY <1>1, <1>3, <2>1
<1> HIDE DEF r
<1>9. ASSUME NEW i \in 1 .. n - 1 PROVE mx[r[i - 1]] = r[i]
  <2>0. i \in 0 .. n - 1 /\ i - 1 \in 0 .. n - 1 /\ (i - 1) + 1 = i
        /\ i \in 1 .. n /\ i + 1 \in 1 .. n /\ (i + 1) - 1 = i
    BY <1>1
  <2>1. CASE i < p
    <3>1. i - 1 < p /\ i - 1 # p /\ i - 1 # p - 1 /\ i - 1 \in 0 .. n
      BY <1>1, <2>0, <2>1
    <3> QED  BY <1>2, <1>3, <1>7, <2>0, <2>1, <3>1
  <2>2. CASE i = p
    <3>1. i - 1 < p /\ ~(i < p) /\ p < n
      BY <1>1, <2>0, <2>2
    <3> QED  BY <1>2, <1>6, <1>8, <2>0, <2>2, <3>1
  <2>3. CASE i > p
    <3>1. ~(i < p) /\ ~(i - 1 < p) /\ i # p /\ i # p - 1 /\ i \in 0 .. n
      BY <1>1, <2>0, <2>3
    <3>2. r[i - 1] = s[i] /\ r[i] = s[i + 1]
      BY <1>2, <2>0, <3>1
    <3>3. nx[s[i]] = s[i + 1]
      BY <1>3, <2>0
    <3> QED  BY <1>7, <3>1, <3>2, <3>3
  <2>4. i < p \/ i = p \/ i > p
    BY <1>1
  <2> QED  BY <2>1, <2>2, <2>3, <2>4
<1>10. mx[r[n - 1]] = NULL /\ lj = r[n - 1]
  <2>1. CASE p = n
    <3>1. n - 1 \in 0 .. n - 1 /\ n - 1 < p
      BY <1>1, <2>1
    <3>2. r[n - 1] = s[p - 1]
      BY <1>2, <2>1, <3>1
    <3> QED  BY <1>3, <1>6, <2>1, <3>2
  <2>2. CASE p # n
    <3>1. n - 1 \in 0 .. n - 1 /\ ~(n - 1 < p) /\ p < n /\ n # p /\ n # p - 1
          /\ n \in 0 .. n /\ (n - 1) + 1 = n
      BY <1>1, <2>2
    <3>2. r[n - 1] = s[n]
      BY <1>2, <3>1
    <3>3. mx[s[n]] = nx[s[n]]
      BY <1>7, <3>1
    <3>4. nx[s[p]] # NULL
      BY <1>8, <3>1
    <3> QED  BY <1>3, <3>2, <3>3, <3>4
  <2> QED  BY <2>1, <2>2
<1> QED  BY <1>9, <1>10 DEF Linked, r

\* Only t holds another task than before.
Kept(kd, t, jd) == \A a \in Addr : a # t => jd[a] = kd[a]

\* The pointers f become g, t's are cleared, and c is the only other to change.
Cleared(f, c, t, g) ==
  /\ g \in [Cells -> Addr \cup {NULL}] /\ g[t] = NULL
  /\ \A a \in Addr : a # t /\ a # c => g[a] = f[a]

\* The fields of the addresses that hold no task, and of t which is taken.
LEMMA BlankCut ==
  ASSUME NEW n, NEW s, NEW kd, NEW nx, NEW ni, NEW p \in 1 .. n,
         Chain(n, s), Blank(n, s, kd, nx, ni),
         NEW jd, NEW mx, NEW nj, jd[s[p]] = "NONE", Kept(kd, s[p], jd),
         Cleared(nx, s[p - 1], s[p], mx), Cleared(ni, s[p - 1], s[p], nj)
  PROVE  Blank(n - 1, Cut(n, s, p), jd, mx, nj)
<1> DEFINE r == Cut(n, s, p)
<1>1. /\ n \in Nat /\ s[0] = TQ /\ TQ \notin Addr
      /\ \A i, j \in 0 .. n : s[i] = s[j] => i = j
      /\ p \in 0 .. n /\ p - 1 \in 0 .. n
  BY DEF Chain
<1> USE DEF Kept, Cleared
<1>2. /\ \A i \in 0 .. n - 1 : r[i] = IF i < p THEN s[i] ELSE s[i + 1]
      /\ \A i \in 0 .. n - 1 : r[i] # s[p]
  BY CutIs
<1> HIDE DEF r
<1> SUFFICES ASSUME NEW a \in Addr
             PROVE \/ jd[a] # "NONE" /\ \E i \in 1 .. n - 1 : r[i] = a
                   \/ /\ jd[a] = "NONE" /\ mx[a] = NULL /\ nj[a] = NULL
                      /\ \A i \in 1 .. n - 1 : r[i] # a
  BY DEF Blank, r
<1>3. CASE a = s[p]
  <2>1. \A i \in 1 .. n - 1 : i \in 0 .. n - 1
    OBVIOUS
  <2> QED  BY <1>2, <1>3, <2>1
<1>4. CASE a # s[p] /\ kd[a] # "NONE"
  <2>1. PICK i \in 1 .. n : s[i] = a
    BY <1>4 DEF Blank
  <2>2. CASE i < p
    <3>1. i \in 1 .. n - 1 /\ i \in 0 .. n - 1
      BY <1>1, <2>2
    <3> QED  BY <1>2, <1>4, <2>1, <2>2, <3>1
  <2>3. CASE i > p
    <3>1. i - 1 \in 1 .. n - 1 /\ i - 1 \in 0 .. n - 1 /\ ~(i - 1 < p)
          /\ (i - 1) + 1 = i
      BY <1>1, <2>3
    <3>2. r[i - 1] = a
      BY <1>2, <2>1, <3>1
    <3> QED  BY <1>4, <3>1, <3>2
  <2>4. i # p
    BY <1>4, <2>1
  <2>5. i < p \/ i > p
    BY <1>1, <2>4
  <2> QED  BY <2>2, <2>3, <2>5
<1>5. CASE a # s[p] /\ kd[a] = "NONE"
  <2>1. nx[a] = NULL /\ ni[a] = NULL /\ \A i \in 1 .. n : s[i] # a
    BY <1>5, FreeIs
  <2>2. \A i \in 0 .. n : s[i] # a
    <3>1. \A i \in 0 .. n : i = 0 \/ i \in 1 .. n
      BY <1>1
    <3> QED  BY <1>1, <2>1, <3>1
  <2>3. a # s[p - 1]
    BY <1>1, <2>2
  <2>4. ASSUME NEW i \in 1 .. n - 1 PROVE r[i] # a
    <3>1. i \in 0 .. n - 1 /\ i \in 0 .. n /\ i + 1 \in 0 .. n
      BY <1>1
    <3> QED  BY <1>2, <2>2, <3>1
  <2> QED  BY <1>5, <2>1, <2>3, <2>4
<1> QED  BY <1>3, <1>4, <1>5

\* The three ways in which dequeue_input_task() mends the itail list.
Mended(ni, la, c, t, nj, lb) ==
  /\ t # ni[c] => Updated(ni, t, NULL, nj) /\ lb = la
  /\ t = ni[c] /\ ni[t] # NULL
       => Updated3(ni, c, NULL, TQ, ni[t], t, NULL, nj) /\ lb = Retreat(nj, la)
  /\ t = ni[c] /\ ni[t] = NULL
       => Updated(ni, c, NULL, nj) /\ lb = Retreat(nj, la)

\* They keep the itail list.
LEMMA ThreadedCut ==
  ASSUME NEW n, NEW s, NEW kd, NEW ni \in [Cells -> Addr \cup {NULL}], NEW la,
         NEW p \in 1 .. n, Chain(n, s),
         Threaded(Ends(n, s, kd), n, s, ni, la), IsSlot(Ends(n, s, kd), p),
         NEW jd, NEW nj, NEW lb, Kept(kd, s[p], jd),
         Mended(ni, la, s[p - 1], s[p], nj, lb)
  PROVE  /\ Threaded(Ends(n - 1, Cut(n, s, p), jd), n - 1, Cut(n, s, p), nj, lb)
         /\ Cleared(ni, s[p - 1], s[p], nj)
<1> DEFINE E == Ends(n, s, kd)
           r == Cut(n, s, p)
<1>1. n \in Nat /\ Marks(E, n)
  BY EndsAre DEF Chain
<1>2. /\ s[p] \in Cells /\ s[p - 1] \in Cells /\ s[p] # s[p - 1] /\ TQ # s[p]
      /\ p - 1 \in 0 .. n /\ p \in 0 .. n
  BY DEF Chain, Cells
<1>3. /\ \A m \in E : m < p => m = p - 1
      /\ p > 1 => p - 1 \in E
      /\ s[p] = ni[s[p - 1]] <=> p \in E
      /\ p \in E => (ni[s[p]] = NULL <=> p = n)
  <2>1. Threaded(E, n, s, ni, la) /\ IsSlot(E, p)
    OBVIOUS
  <2> HIDE DEF E
  <2>2. Reads(n, s, E, ni, p)
    BY <1>1, <2>1, SlotReads
  <2> QED  BY <2>2 DEF Reads
<1>4. p = 1 \/ p - 1 \in E
  BY <1>1, <1>3
<1>5. CASE p \notin E
  <2>1. Updated(ni, s[p], NULL, nj) /\ lb = la
    BY <1>3, <1>5 DEF Mended
  <2>2. Ends(n - 1, r, jd)
          = {i \in 0 .. n - 1 : IF i < p THEN i \in E ELSE i + 1 \in E}
    BY <1>5, EndsCutInner DEF Kept
  <2>3. Threaded({i \in 0 .. n - 1 : IF i < p THEN i \in E ELSE i + 1 \in E},
                  n - 1, r, [ni EXCEPT ![s[p]] = NULL], la)
    <3> HIDE DEF E
    <3>1. Threaded(E, n, s, ni, la)
      BY DEF E
    <3> QED  BY <1>1, <1>5, <3>1, ThreadCutInner
  <2> HIDE DEF E, r
  <2>4. Threaded(Ends(n - 1, r, jd), n - 1, r, nj, lb)
    BY <2>1, <2>2, <2>3 DEF Updated
  <2>5. /\ nj \in [Cells -> Addr \cup {NULL}] /\ nj[s[p]] = NULL
        /\ \A a \in Addr : a # s[p] => nj[a] = ni[a]
    BY <1>2, <2>1 DEF Updated, Cells
  <2> QED  BY <2>4, <2>5 DEF r, Cleared
<1>6. CASE p \in E /\ p < n
  <2>0. p # n
    BY <1>1, <1>6
  <2>1. /\ Updated3(ni, s[p - 1], NULL, TQ, ni[s[p]], s[p], NULL, nj)
        /\ lb = Retreat(nj, la)
    BY <1>3, <1>6, <2>0 DEF Mended
  <2>2. Ends(n - 1, r, jd) = {i \in p .. n - 1 : i + 1 \in E}
    BY <1>3, <1>4, <1>6, EndsCutRun DEF Kept
  <2>3. nj = [ni EXCEPT ![s[p - 1]] = NULL, ![TQ] = ni[s[p]], ![s[p]] = NULL]
    BY <2>1 DEF Updated3
  <2>4. Threaded({i \in p .. n - 1 : i + 1 \in E}, n - 1, r, nj,
                 Retreat(nj, la))
    <3> HIDE DEF E
    <3>1. Threaded(E, n, s, ni, la)
      BY DEF E
    <3> QED  BY ONLY <1>1, <1>3, <1>6, <2>3, <3>1, Chain(n, s), p \in 1 .. n,
                ni \in [Cells -> Addr \cup {NULL}], ThreadCutRun
  <2> HIDE DEF E, r
  <2>5. Threaded(Ends(n - 1, r, jd), n - 1, r, nj, lb)
    BY <2>1, <2>2, <2>4
  <2>6. /\ nj \in [Cells -> Addr \cup {NULL}] /\ nj[s[p]] = NULL
        /\ \A a \in Addr : a # s[p] /\ a # s[p - 1] => nj[a] = ni[a]
    <3>1. ni[s[p]] \in Addr \cup {NULL}
      BY <1>2
    <3> QED  BY <1>2, <2>3, <3>1 DEF Cells
  <2> QED  BY <2>5, <2>6 DEF r, Cleared
<1>7. CASE p \in E /\ p = n
  <2>1. Updated(ni, s[p - 1], NULL, nj) /\ lb = Retreat(nj, la)
    BY <1>3, <1>7 DEF Mended
  <2>2. Ends(n - 1, r, jd) = {i \in 1 .. n - 1 : i = n - 1}
    <3>1. n > 0 /\ \A m \in E : m < n => m = n - 1
      BY <1>1, <1>3, <1>7
    <3>2. Ends(n - 1, Cut(n, s, n), jd) = {i \in 1 .. n - 1 : i = n - 1}
      BY <1>7, <3>1, EndsCutLast DEF Kept
    <3> QED  BY <1>7, <3>2
  <2>3. nj = [ni EXCEPT ![s[n - 1]] = NULL]
    BY <1>7, <2>1 DEF Updated
  <2>4. Threaded({i \in 1 .. n - 1 : i = n - 1}, n - 1, r, nj, Retreat(nj, la))
    <3>1. Threaded(E, n, s, ni, la) /\ n > 0 /\ (n > 1 => n - 1 \in E)
          /\ \A m \in E : m < n => m = n - 1
      BY <1>1, <1>3, <1>7
    <3>2. r = Cut(n, s, n)
      BY <1>7
    <3> HIDE DEF E, r
    <3> QED  BY ONLY <1>1, <2>3, <3>1, <3>2, Chain(n, s),
                ni \in [Cells -> Addr \cup {NULL}], ThreadCutLast
  <2> HIDE DEF E, r
  <2>5. Threaded(Ends(n - 1, r, jd), n - 1, r, nj, lb)
    BY <2>1, <2>2, <2>4
  <2>6. /\ nj \in [Cells -> Addr \cup {NULL}] /\ nj[s[p]] = ni[s[p]]
        /\ \A a \in Addr : a # s[p - 1] => nj[a] = ni[a]
    BY <1>2, <2>1 DEF Cells, Updated
  <2>7. ni[s[p]] = NULL
    BY <1>3, <1>7
  <2> QED  BY <2>5, <2>6, <2>7 DEF r, Cleared
<1>8. p \notin E \/ (p \in E /\ p < n) \/ (p \in E /\ p = n)
  BY <1>1
<1> QED  BY <1>5, <1>6, <1>7, <1>8

\* dequeue_input_task() of the line behind a slot it looks at.
LEMMA ShapeCut ==
  ASSUME NEW n, NEW s, NEW kd, NEW nx, NEW ni, NEW li, NEW la,
         Shape(n, s, kd, nx, ni, li, la),
         NEW p \in 1 .. n, IsSlot(Ends(n, s, kd), p),
         NEW jd, NEW mx, NEW nj, NEW lj, NEW lb,
         Updated(kd, s[p], "NONE", jd),
         Updated2(nx, s[p - 1], nx[s[p]], s[p], NULL, mx),
         lj = IF nx[s[p]] = NULL THEN s[p - 1] ELSE li,
         Mended(ni, la, s[p - 1], s[p], nj, lb)
  PROVE  Shape(n - 1, Cut(n, s, p), jd, mx, nj, lj, lb)
<1>1. /\ Chain(n, s) /\ Fields(kd, nx, ni) /\ Linked(n, s, nx, li)
      /\ Blank(n, s, kd, nx, ni) /\ Threaded(Ends(n, s, kd), n, s, ni, la)
  BY DEF Shape
<1>2. kd \in [Addr -> Kinds \cup {"NONE"}]
      /\ nx \in [Cells -> Addr \cup {NULL}]
      /\ ni \in [Cells -> Addr \cup {NULL}]
  BY <1>1 DEF Fields
<1>3. s[p] \in Addr /\ s[p - 1] \in Cells /\ s[p] # s[p - 1]
  BY <1>1 DEF Chain
<1>4. /\ jd \in [Addr -> Kinds \cup {"NONE"}] /\ jd[s[p]] = "NONE"
      /\ Kept(kd, s[p], jd)
  BY <1>2, <1>3 DEF Updated, Kept
<1>5. Cleared(nx, s[p - 1], s[p], mx)
  <2>1. nx[s[p]] \in Addr \cup {NULL}
    BY <1>2, <1>3 DEF Cells
  <2> QED  BY <1>2, <1>3, <2>1 DEF Updated2, Cells, Cleared
<1>6. Linked(n - 1, Cut(n, s, p), mx, lj)
  BY <1>1, <1>2, LinkedCut
<1>7. /\ Threaded(Ends(n - 1, Cut(n, s, p), jd), n - 1, Cut(n, s, p), nj, lb)
      /\ Cleared(ni, s[p - 1], s[p], nj)
  BY <1>1, <1>2, <1>4, ThreadedCut
<1>8. Blank(n - 1, Cut(n, s, p), jd, mx, nj)
  BY <1>1, <1>4, <1>5, <1>7, BlankCut
<1>9. Chain(n - 1, Cut(n, s, p))
  BY <1>1, CutIs
<1> QED  BY <1>4, <1>5, <1>6, <1>7, <1>8, <1>9 DEF Shape, Fields, Cleared

-----------------------------------------------------------------------------
(* The lengths of the lines *)

\* f[i] is the length of the first i lines, all of which make tot.
Lengthed(n, s, ln, f, tot) ==
  /\ ln \in [Addr -> Nat] /\ f \in [0 .. n -> Int] /\ f[0] = 0
  /\ \A i \in 1 .. n : f[i] = f[i - 1] + ln[s[i]]
  /\ f[n] = tot

\* No sum of lengths is negative.
LEMMA SumNatural ==
  ASSUME NEW n, NEW s, NEW ln, NEW f, NEW tot, Chain(n, s),
         Lengthed(n, s, ln, f, tot)
  PROVE  /\ \A i \in 0 .. n : f[i] \in Nat
         /\ tot \in Nat /\ (n = 0 => tot = 0)
<1>1. /\ n \in Nat /\ f[0] = 0 /\ f[n] = tot
      /\ \A i \in 1 .. n : f[i] = f[i - 1] + ln[s[i]]
      /\ \A i \in 1 .. n : ln[s[i]] \in Nat
  BY DEF Chain, Lengthed
<1> DEFINE T == {m \in Nat : m <= n => f[m] \in Nat}
<1>2. 0 \in T
  BY <1>1
<1>3. ASSUME NEW m \in Nat, m \in T PROVE m + 1 \in T
  <2> SUFFICES ASSUME m + 1 <= n PROVE f[m + 1] \in Nat
    OBVIOUS
  <2>1. m + 1 \in 1 .. n /\ (m + 1) - 1 = m /\ m <= n
    BY <1>1
  <2>2. f[m] \in Nat
    BY <1>3, <2>1
  <2>3. f[m + 1] = f[m] + ln[s[m + 1]] /\ ln[s[m + 1]] \in Nat
    BY <1>1, <2>1
  <2> QED  BY <2>2, <2>3
<1>4. Nat \subseteq T
  <2> HIDE DEF T
  <2> QED  BY <1>2, <1>3, NatClosed
<1>5. \A i \in 0 .. n : i \in T
  BY <1>1, <1>4
<1> QED  BY <1>1, <1>5

\* The lengths with a line behind the others.
LEMMA SumBack ==
  ASSUME NEW n, NEW s, NEW ln, NEW f, NEW tot, NEW t \in Addr, NEW l \in Nat,
         Chain(n, s), Lengthed(n, s, ln, f, tot), \A i \in 1 .. n : s[i] # t,
         NEW lo, Updated(ln, t, l, lo)
  PROVE  \E g : Lengthed(n + 1, PushBack(n, s, t), lo, g, tot + l)
<1> DEFINE r == PushBack(n, s, t)
           g == [i \in 0 .. n + 1 |-> IF i = n + 1 THEN tot + l ELSE f[i]]
<1>1. /\ n \in Nat /\ ln \in [Addr -> Nat] /\ f \in [0 .. n -> Int]
      /\ f[0] = 0 /\ f[n] = tot
      /\ \A i \in 1 .. n : f[i] = f[i - 1] + ln[s[i]] /\ s[i] \in Addr
  BY DEF Chain, Lengthed
<1>2. r[n + 1] = t /\ \A i \in 0 .. n : r[i] = s[i] /\ s[i] # t
  BY BackIs
<1>3. /\ lo \in [Addr -> Nat] /\ lo[t] = l
      /\ \A a \in Addr : a # t => lo[a] = ln[a]
  BY <1>1 DEF Updated
<1>4. tot \in Int
  BY <1>1
<1>5. g \in [0 .. n + 1 -> Int] /\ g[0] = 0 /\ g[n + 1] = tot + l
  BY <1>1, <1>4
<1>6. \A i \in 0 .. n : g[i] = f[i]
  BY <1>1
<1> HIDE DEF g, r
<1>7. ASSUME NEW i \in 1 .. n + 1 PROVE g[i] = g[i - 1] + lo[r[i]]
  <2>1. CASE i = n + 1
    <3>1. i - 1 = n /\ n \in 0 .. n
      BY <1>1, <2>1
    <3>2. g[i - 1] = tot
      BY <1>1, <1>6, <3>1
    <3> QED  BY <1>2, <1>3, <1>5, <2>1, <3>2
  <2>2. CASE i # n + 1
    <3>1. i \in 1 .. n /\ i \in 0 .. n /\ i - 1 \in 0 .. n
      BY <1>1, <2>2
    <3>2. lo[r[i]] = ln[s[i]]
      BY <1>1, <1>2, <1>3, <3>1
    <3> QED  BY <1>1, <1>6, <3>1, <3>2
  <2> QED  BY <2>1, <2>2
<1>8. Lengthed(n + 1, r, lo, g, tot + l)
  BY <1>3, <1>5, <1>7 DEF Lengthed
<1> QED  BY <1>8 DEF r

\* The lengths with a line before the others.
LEMMA SumFront ==
  ASSUME NEW n, NEW s, NEW ln, NEW f, NEW tot, NEW t \in Addr, NEW l \in Nat,
         Chain(n, s), Lengthed(n, s, ln, f, tot), \A i \in 1 .. n : s[i] # t,
         NEW lo, Updated(ln, t, l, lo)
  PROVE  \E g : Lengthed(n + 1, PushFront(n, s, t), lo, g, tot + l)
<1> DEFINE r == PushFront(n, s, t)
           g == [i \in 0 .. n + 1 |-> IF i = 0 THEN 0 ELSE f[i - 1] + l]
<1>1. /\ n \in Nat /\ ln \in [Addr -> Nat] /\ f \in [0 .. n -> Int]
      /\ f[0] = 0 /\ f[n] = tot
      /\ \A i \in 1 .. n : f[i] = f[i - 1] + ln[s[i]] /\ s[i] \in Addr
  BY DEF Chain, Lengthed
<1>2. r[1] = t /\ \A i \in 1 .. n : r[i + 1] = s[i] /\ s[i] # t
  BY FrontIs
<1>3. /\ lo \in [Addr -> Nat] /\ lo[t] = l
      /\ \A a \in Addr : a # t => lo[a] = ln[a]
  BY <1>1 DEF Updated
<1>4. \A i \in 1 .. n + 1 : i - 1 \in 0 .. n /\ i # 0
  BY <1>1
<1>5. /\ g \in [0 .. n + 1 -> Int] /\ g[0] = 0
      /\ \A i \in 1 .. n + 1 : g[i] = f[i - 1] + l
  BY <1>1, <1>4
<1> HIDE DEF g, r
<1>6. g[n + 1] = tot + l
  <2>1. n + 1 \in 1 .. n + 1 /\ (n + 1) - 1 = n
    BY <1>1
  <2> QED  BY <1>1, <1>5, <2>1
<1>7. ASSUME NEW i \in 1 .. n + 1 PROVE g[i] = g[i - 1] + lo[r[i]]
  <2>1. CASE i = 1
    <3>1. i - 1 = 0
      BY <2>1
    <3> QED  BY <1>1, <1>2, <1>3, <1>5, <2>1, <3>1
  <2>2. CASE i # 1
    <3>1. i - 1 \in 1 .. n /\ i - 1 \in 1 .. n + 1 /\ (i - 1) + 1 = i
          /\ (i - 1) - 1 \in 0 .. n
      BY <1>1, <2>2
    <3>2. lo[r[i]] = ln[s[i - 1]]
      BY <1>1, <1>2, <1>3, <3>1
    <3>3. f[i - 1] = f[(i - 1) - 1] + ln[s[i - 1]]
      BY <1>1, <3>1
    <3>4. g[i] = f[i - 1] + l /\ g[i - 1] = f[(i - 1) - 1] + l
      BY <1>5, <3>1
    <3>5. f[(i - 1) - 1] \in Int /\ ln[s[i - 1]] \in Int
      BY <1>1, <3>1
    <3> QED  BY <3>2, <3>3, <3>4, <3>5
  <2> QED  BY <2>1, <2>2
<1>8. Lengthed(n + 1, r, lo, g, tot + l)
  BY <1>3, <1>5, <1>6, <1>7 DEF Lengthed
<1> QED  BY <1>8 DEF r

\* The lengths without the p-th line.
LEMMA SumCut ==
  ASSUME NEW n, NEW s, NEW ln, NEW f, NEW tot, NEW p \in 1 .. n,
         Chain(n, s), Lengthed(n, s, ln, f, tot),
         NEW lo, Updated(ln, s[p], 0, lo)
  PROVE  \E g : Lengthed(n - 1, Cut(n, s, p), lo, g, tot - ln[s[p]])
<1> DEFINE r == Cut(n, s, p)
           l == ln[s[p]]
           g == [i \in 0 .. n - 1 |-> IF i < p THEN f[i] ELSE f[i + 1] - l]
<1>1. /\ n \in Nat /\ ln \in [Addr -> Nat] /\ f \in [0 .. n -> Int]
      /\ f[0] = 0 /\ f[n] = tot
      /\ \A i \in 1 .. n : f[i] = f[i - 1] + ln[s[i]] /\ s[i] \in Addr
  BY DEF Chain, Lengthed
<1>2. /\ \A i \in 0 .. n - 1 : r[i] = IF i < p THEN s[i] ELSE s[i + 1]
      /\ \A i \in 0 .. n - 1 : r[i] # s[p]
      /\ Chain(n - 1, r)
  BY CutIs
<1>3. /\ lo \in [Addr -> Nat] /\ \A a \in Addr : a # s[p] => lo[a] = ln[a]
  BY <1>1 DEF Updated
<1>4. /\ p \in Nat /\ l \in Nat /\ f[p] = f[p - 1] + l
      /\ \A i \in 0 .. n - 1 : i \in 0 .. n /\ i + 1 \in 0 .. n
      /\ \A i \in 0 .. n : f[i] \in Int
  BY <1>1
<1>5. /\ g \in [0 .. n - 1 -> Int]
      /\ \A i \in 0 .. n - 1 : g[i] = IF i < p THEN f[i] ELSE f[i + 1] - l
  BY <1>1, <1>4
<1>6. \A i \in 1 .. n - 1 : r[i] \in Addr
  BY <1>2 DEF Chain
<1> HIDE DEF g, r, l
<1>7. g[0] = 0
  <2>1. 0 \in 0 .. n - 1 /\ 0 < p
    BY <1>1
  <2> QED  BY <1>1, <1>5, <2>1
<1>8. g[n - 1] = tot - l
  <2>0. n - 1 \in 0 .. n - 1 /\ (n - 1) + 1 = n
    BY <1>1
  <2>1. CASE p = n
    <3>1. n - 1 < p
      BY <1>1, <2>1
    <3>2. g[n - 1] = f[p - 1] /\ f[p - 1] \in Int
      BY <1>4, <1>5, <2>0, <2>1, <3>1
    <3> QED  BY <1>1, <1>4, <2>1, <3>2
  <2>2. CASE p # n
    <3>1. ~(n - 1 < p)
      BY <1>1, <2>2
    <3> QED  BY <1>1, <1>5, <2>0, <3>1
  <2> QED  BY <2>1, <2>2
<1>9. ASSUME NEW i \in 1 .. n - 1 PROVE g[i] = g[i - 1] + lo[r[i]]
  <2>0. i \in 0 .. n - 1 /\ i - 1 \in 0 .. n - 1 /\ (i - 1) + 1 = i
        /\ i \in 1 .. n /\ i + 1 \in 1 .. n /\ (i + 1) - 1 = i
        /\ i \in 0 .. n /\ i - 1 \in 0 .. n /\ i + 1 \in 0 .. n
    BY <1>1
  <2>1. lo[r[i]] = ln[r[i]]
    BY <1>2, <1>3, <1>6, <2>0
  <2>2. CASE i < p
    <3>1. i - 1 < p
      BY <1>4, <2>2
    <3>2. g[i] = f[i] /\ g[i - 1] = f[i - 1] /\ r[i] = s[i]
      BY <1>2, <1>5, <2>0, <2>2, <3>1
    <3> QED  BY <1>1, <2>0, <2>1, <3>2
  <2>3. CASE i = p
    <3>1. i - 1 < p /\ ~(i < p)
      BY <1>4, <2>3
    <3>2. g[i] = f[i + 1] - l /\ g[i - 1] = f[i - 1] /\ r[i] = s[i + 1]
      BY <1>2, <1>5, <2>0, <3>1
    <3>3. f[i + 1] = f[i] + ln[s[i + 1]] /\ f[i] = f[i - 1] + l
      BY <1>1, <1>4, <2>0, <2>3
    <3>4. /\ f[i - 1] \in Int /\ l \in Int /\ f[i] \in Int
          /\ ln[s[i + 1]] \in Int
      BY <1>1, <1>4, <2>0
    <3> QED  BY <2>1, <3>2, <3>3, <3>4
  <2>4. CASE i > p
    <3>1. ~(i - 1 < p) /\ ~(i < p)
      BY <1>4, <2>4
    <3>2. g[i] = f[i + 1] - l /\ g[i - 1] = f[i] - l /\ r[i] = s[i + 1]
      BY <1>2, <1>5, <2>0, <3>1
    <3>3. f[i + 1] = f[i] + ln[s[i + 1]]
      BY <1>1, <2>0
    <3>4. f[i] \in Int /\ l \in Int /\ ln[s[i + 1]] \in Int
      BY <1>1, <1>4, <2>0
    <3> QED  BY <2>1, <3>2, <3>3, <3>4
  <2>5. i < p \/ i = p \/ i > p
    BY <1>4
  <2> QED  BY <2>2, <2>3, <2>4, <2>5
<1>10. Lengthed(n - 1, r, lo, g, tot - l)
  BY <1>3, <1>5, <1>7, <1>8, <1>9 DEF Lengthed
<1> QED  BY <1>10 DEF r, l

-----------------------------------------------------------------------------
(* The line dequeue_input_task() takes *)

\* c is the slot of the p-th line, and one of those looked at.
SlotOf(n, s, kd, nx, p, c) ==
  p \in 1 .. n /\ c = s[p - 1] /\ nx[c] = s[p] /\ IsSlot(Ends(n, s, kd), p)

\* The list is empty when its head says so.
LEMMA EmptyIs ==
  ASSUME NEW n, NEW s, NEW kd, NEW nx, NEW ni, NEW li, NEW la,
         Shape(n, s, kd, nx, ni, li, la)
  PROVE  nx[TQ] = NULL <=> n = 0
<1>1. /\ n \in Nat /\ s[0] = TQ /\ nx[s[n]] = NULL
      /\ \A i \in 1 .. n : s[i] \in Addr /\ nx[s[i - 1]] = s[i]
  BY DEF Shape, Chain, Linked
<1>2. CASE n = 0
  BY <1>1, <1>2
<1>3. CASE n # 0
  <2>1. 1 \in 1 .. n /\ 1 - 1 = 0
    BY <1>1, <1>3
  <2>2. nx[TQ] \in Addr
    BY <1>1, <2>1
  <2> QED  BY <1>3, <2>2
<1> QED  BY <1>2, <1>3

\* The head of the list is the slot of the first line.
LEMMA HeadSlot ==
  ASSUME NEW n, NEW s, NEW kd, NEW nx, NEW ni, NEW li, NEW la,
         Shape(n, s, kd, nx, ni, li, la), nx[TQ] # NULL
  PROVE  \E p : SlotOf(n, s, kd, nx, p, TQ)
<1>1. n # 0
  BY EmptyIs
<1>2. n \in Nat /\ s[0] = TQ /\ \A i \in 1 .. n : nx[s[i - 1]] = s[i]
  BY DEF Shape, Chain, Linked
<1>3. 1 \in 1 .. n /\ 1 - 1 = 0
  BY <1>1, <1>2
<1>4. SlotOf(n, s, kd, nx, 1, TQ)
  BY <1>2, <1>3 DEF SlotOf, IsSlot
<1> QED  BY <1>4

\* The first itail is the last line of the first run.
LEMMA FirstItail ==
  ASSUME NEW n, NEW s, NEW kd, NEW nx, NEW ni, NEW li, NEW la,
         Shape(n, s, kd, nx, ni, li, la), n > 0
  PROVE  \E j \in Ends(n, s, kd) : ni[TQ] = s[j] /\ Succ(Ends(n, s, kd), 0, j)
<1>1. n \in Nat /\ s[0] = TQ /\ Threaded(Ends(n, s, kd), n, s, ni, la)
  BY DEF Shape, Chain
<1>2. Marks(Ends(n, s, kd), n)
  BY <1>1, EndsAre
<1>3. 0 \in 0 .. n - 1
  BY <1>1
<1>4. PICK j \in Ends(n, s, kd) : Succ(Ends(n, s, kd), 0, j)
  BY <1>1, <1>2, <1>3, SuccExists
<1>5. ni[TQ] = s[j]
  BY <1>1, <1>4 DEF Threaded
<1> QED  BY <1>4, <1>5

\* The first itail is the slot of the first line of the other lane.
LEMMA ItailSlot ==
  ASSUME NEW n, NEW s, NEW kd, NEW nx, NEW ni, NEW li, NEW la,
         Shape(n, s, kd, nx, ni, li, la), nx[TQ] # NULL, nx[ni[TQ]] # NULL
  PROVE  \E p : SlotOf(n, s, kd, nx, p, ni[TQ])
<1>1. n # 0
  BY EmptyIs
<1>2. /\ n \in Nat /\ nx[s[n]] = NULL
      /\ \A i \in 1 .. n : nx[s[i - 1]] = s[i]
  BY DEF Shape, Chain, Linked
<1>3. n > 0
  BY <1>1, <1>2
<1>4. PICK j \in Ends(n, s, kd) : /\ ni[TQ] = s[j]
                                  /\ Succ(Ends(n, s, kd), 0, j)
  BY <1>3, FirstItail
<1>5. j \in 1 .. n /\ j # n
  BY <1>2, <1>4 DEF Ends
<1>6. j + 1 \in 1 .. n /\ (j + 1) - 1 = j
  BY <1>2, <1>5
<1>7. nx[s[j]] = s[j + 1]
  BY <1>2, <1>6
<1>8. SlotOf(n, s, kd, nx, j + 1, ni[TQ])
  BY <1>4, <1>6, <1>7 DEF SlotOf, IsSlot
<1> QED  BY <1>8

\* An out-of-band line, as the pointers show it, and as it is.
ShowsOob(kd, nx, ni) ==
  nx[TQ] # NULL /\ (Oob(kd, nx[TQ]) \/ (ni[TQ] # NULL /\ nx[ni[TQ]] # NULL))
HasOob(n, s, kd) == \E i \in 1 .. n : Oob(kd, s[i])

\* They agree.
LEMMA OobSeen ==
  ASSUME NEW n, NEW s, NEW kd, NEW nx, NEW ni, NEW li, NEW la,
         Shape(n, s, kd, nx, ni, li, la)
  PROVE  ShowsOob(kd, nx, ni) <=> HasOob(n, s, kd)
<1>1. /\ n \in Nat /\ nx[s[n]] = NULL /\ s[0] = TQ
      /\ \A i \in 1 .. n : s[i] \in Addr /\ nx[s[i - 1]] = s[i]
  BY DEF Shape, Chain, Linked
<1>2. CASE n = 0
  <2>1. nx[TQ] = NULL /\ ~HasOob(n, s, kd)
    BY <1>1, <1>2 DEF HasOob
  <2> QED  BY <2>1 DEF ShowsOob
<1>3. CASE n > 0
  <2>1. 1 \in 1 .. n /\ 1 - 1 = 0
    BY <1>1, <1>3
  <2>2. nx[TQ] = s[1] /\ s[1] # NULL
    BY <1>1, <2>1
  <2>3. PICK j \in Ends(n, s, kd) : /\ ni[TQ] = s[j]
                                    /\ Succ(Ends(n, s, kd), 0, j)
    BY <1>3, FirstItail
  <2>4. j \in 1 .. n /\ ni[TQ] # NULL
    BY <1>1, <2>3 DEF Ends
  <2>5. ASSUME NEW i \in 1 .. n, i <= j
        PROVE  Oob(kd, s[1]) <=> Oob(kd, s[i])
    <3>1. i \in 1 .. n /\ \A m \in Ends(n, s, kd) : ~(1 <= m /\ m < i)
      <4> SUFFICES ASSUME NEW m \in Ends(n, s, kd), 1 <= m, m < i PROVE FALSE
        OBVIOUS
      <4>1. m \in 1 .. n /\ m < j
        BY <1>1, <2>4, <2>5 DEF Ends
      <4>2. m <= 0
        BY <2>3, <4>1 DEF Succ
      <4> QED  BY <4>1, <4>2
    <3> QED  BY <1>1, <2>1, <3>1, SameLane
  <2>6. CASE j = n
    <3>1. \A i \in 1 .. n : i <= j
      BY <1>1, <2>6
    <3>2. HasOob(n, s, kd) <=> Oob(kd, s[1])
      BY <2>1, <2>5, <3>1 DEF HasOob
    <3>3. nx[ni[TQ]] = NULL
      BY <1>1, <2>3, <2>6
    <3> QED  BY <2>2, <3>2, <3>3 DEF ShowsOob
  <2>7. CASE j # n
    <3>1. j + 1 \in 1 .. n /\ (j + 1) - 1 = j /\ j <= j
      BY <1>1, <2>4, <2>7
    <3>2. nx[ni[TQ]] # NULL
      BY <1>1, <2>3, <3>1
    <3>3. ~(Oob(kd, s[j]) <=> Oob(kd, s[j + 1]))
      BY <2>3, <2>7 DEF Ends
    <3>4. HasOob(n, s, kd)
      BY <2>4, <3>1, <3>3 DEF HasOob
    <3> QED  BY <2>2, <2>4, <3>2, <3>4 DEF ShowsOob
  <2> QED  BY <2>6, <2>7
<1> QED  BY <1>1, <1>2, <1>3

\* What run_ready_tasks() finds to run in a queue.
Due(kd, nx, ni, hold, rd, dis) ==
  /\ nx[TQ] # NULL
  /\ hold /\ ~rd => ~dis /\ ShowsOob(kd, nx, ni)

\* HasTask() for the turn of the queue.
LEMMA TurnIsDue ==
  HasTask(TurnHow) <=> Due(kind, next, next_itail, hold_input, reading,
                           disable_oob)
<1>1. CASE hold_input /\ ~reading
  <2>1. TurnHow = "DQ_OOB"
    BY <1>1 DEF TurnHow
  <2>2. CASE IsOob(next[TQ])
    BY <1>1, <2>1, <2>2
    DEF HasTask, Slot, first_input, first_itail, IsOob, Due, ShowsOob, Oob
  <2>3. CASE ~IsOob(next[TQ])
    BY <1>1, <2>1, <2>3
    DEF HasTask, Slot, first_input, first_itail, IsOob, Due, ShowsOob, Oob
  <2> QED  BY <2>2, <2>3
<1>2. CASE ~(hold_input /\ ~reading)
  <2>1. TurnHow = "DQ_FIRST"
    BY <1>2 DEF TurnHow
  <2> QED  BY <1>2, <2>1 DEF HasTask, Slot, first_input, Due
<1> QED  BY <1>1, <1>2

\* The same in the next state.
LEMMA TurnIsDueNext ==
  HasTask(TurnHow)' <=> Due(kind', next', next_itail', hold_input', reading',
                            disable_oob')
<1>1. (HasTask(TurnHow) <=> Due(kind, next, next_itail, hold_input, reading,
                                disable_oob))'
  BY TurnIsDue, PTL
<1> QED  BY <1>1

-----------------------------------------------------------------------------
(* Both lists and the lengths, after enqueue and dequeue *)

\* Some n lines are in the queue.
Queue(n, kd, nx, ni, li, la, ln, tot) ==
  \E s, f : Shape(n, s, kd, nx, ni, li, la) /\ Lengthed(n, s, ln, f, tot)

\* The pointers that enqueue_input_task() sets, for a line in front of others.
InFront(k, t, kd, nx, ni, li, la, mx, nj, lj, lb) ==
  /\ Updated2(nx, t, nx[TQ], TQ, t, mx) /\ lj = li
  /\ Differs(kd, nx[TQ], k) =>
       /\ Updated2(ni, t, ni[TQ], TQ, t, nj)
       /\ lb = IF la = TQ THEN t ELSE la
  /\ ~Differs(kd, nx[TQ], k) => nj = ni /\ lb = la

\* The same for a line at the rear.
AtRear(k, t, kd, nx, ni, li, la, mx, nj, lj, lb) ==
  /\ Updated(nx, li, t, mx) /\ lj = t
  /\ nx[TQ] # NULL /\ Differs(kd, ni[la], k) => lb = ni[la]
  /\ ~(nx[TQ] # NULL /\ Differs(kd, ni[la], k)) => lb = la
  /\ Updated(ni, lb, t, nj)

\* The lines of r are t, or other lines of s.
From(m, r, n, s, t) ==
  \A j \in 1 .. m : r[j] = t \/ \E i \in 1 .. n : r[j] = s[i] /\ s[i] # t

\* An out-of-band line is the new one, or was there before.
LEMMA OobFrom ==
  ASSUME NEW n, NEW s, NEW m, NEW r, NEW kd, NEW jd, NEW t \in Addr,
         NEW k \in Kinds \cup {"NONE"}, Chain(n, s), From(m, r, n, s, t),
         kd \in [Addr -> Kinds \cup {"NONE"}], Updated(kd, t, k, jd),
         HasOob(m, r, jd)
  PROVE  k = "OOB" \/ HasOob(n, s, kd)
<1>1. PICK j \in 1 .. m : jd[r[j]] = "OOB"
  BY DEF HasOob, Oob
<1>2. jd[t] = k /\ \A a \in Addr : a # t => jd[a] = kd[a]
  BY DEF Updated
<1>3. CASE r[j] = t
  BY <1>1, <1>2, <1>3
<1>4. CASE r[j] # t
  <2>1. PICK i \in 1 .. n : r[j] = s[i]
    BY <1>4 DEF From
  <2>2. s[i] \in Addr
    BY DEF Chain
  <2>3. kd[s[i]] = "OOB"
    BY <1>1, <1>2, <1>4, <2>1, <2>2
  <2> QED  BY <2>3 DEF HasOob, Oob
<1> QED  BY <1>3, <1>4

\* enqueue_input_task() keeps the queue, in front.
LEMMA QueueFront ==
  ASSUME NEW n \in Nat, NEW kd, NEW nx, NEW ni, NEW li, NEW la, NEW ln,
         NEW tot, Queue(n, kd, nx, ni, li, la, ln, tot),
         NEW t \in Addr, kd[t] = "NONE", NEW k \in Kinds, NEW l \in Nat,
         NEW jd, NEW mx, NEW nj, NEW lj, NEW lb, NEW lo,
         Updated(kd, t, k, jd), Updated(ln, t, l, lo), nx[TQ] # NULL,
         InFront(k, t, kd, nx, ni, li, la, mx, nj, lj, lb)
  PROVE  /\ Queue(n + 1, jd, mx, nj, lj, lb, lo, tot + l)
         /\ ShowsOob(jd, mx, nj) => (k = "OOB" \/ ShowsOob(kd, nx, ni))
<1>1. PICK s, f : Shape(n, s, kd, nx, ni, li, la) /\ Lengthed(n, s, ln, f, tot)
  BY DEF Queue
<1>2. Chain(n, s) /\ Blank(n, s, kd, nx, ni)
      /\ kd \in [Addr -> Kinds \cup {"NONE"}]
  BY <1>1 DEF Shape, Fields
<1>3. \A i \in 1 .. n : s[i] # t
  BY <1>2, FreeIs
<1> DEFINE r == PushFront(n, s, t)
<1>4. lj = li /\ Shape(n + 1, r, jd, mx, nj, li, lb)
  <2>1. lj = li /\ Updated2(nx, t, nx[TQ], TQ, t, mx)
        /\ (Differs(kd, nx[TQ], k) =>
             /\ Updated2(ni, t, ni[TQ], TQ, t, nj)
             /\ lb = IF la = TQ THEN t ELSE la)
        /\ (~Differs(kd, nx[TQ], k) => nj = ni /\ lb = la)
    BY DEF InFront
  <2> QED  BY <1>1, <2>1, ShapeFront
<1>5. PICK g : Lengthed(n + 1, r, lo, g, tot + l)
  BY <1>1, <1>2, <1>3, SumFront
<1>6. From(n + 1, r, n, s, t)
  <2>1. r[1] = t /\ \A i \in 1 .. n : r[i + 1] = s[i]
    BY <1>2, <1>3, FrontIs
  <2> HIDE DEF r
  <2>2. ASSUME NEW j \in 1 .. n + 1, j # 1
        PROVE  \E i \in 1 .. n : r[j] = s[i] /\ s[i] # t
    <3>1. j - 1 \in 1 .. n /\ (j - 1) + 1 = j
      BY <2>2
    <3>2. r[j] = s[j - 1]
      BY <2>1, <3>1
    <3> QED  BY <1>3, <3>1, <3>2
  <2> QED  BY <2>1, <2>2 DEF From
<1> HIDE DEF r
<1>7. Queue(n + 1, jd, mx, nj, lj, lb, lo, tot + l)
  BY <1>4, <1>5 DEF Queue
<1>8. ASSUME ShowsOob(jd, mx, nj) PROVE k = "OOB" \/ ShowsOob(kd, nx, ni)
  <2>1. HasOob(n + 1, r, jd)
    BY <1>4, <1>8, OobSeen
  <2>2. k = "OOB" \/ HasOob(n, s, kd)
    BY <1>2, <1>6, <2>1, OobFrom
  <2> QED  BY <1>1, <2>2, OobSeen
<1> QED  BY <1>7, <1>8

\* enqueue_input_task() keeps the queue, at the rear.
LEMMA QueueRear ==
  ASSUME NEW n \in Nat, NEW kd, NEW nx, NEW ni, NEW li, NEW la, NEW ln,
         NEW tot, Queue(n, kd, nx, ni, li, la, ln, tot),
         NEW t \in Addr, kd[t] = "NONE", NEW k \in Kinds, NEW l \in Nat,
         NEW jd, NEW mx, NEW nj, NEW lj, NEW lb, NEW lo,
         Updated(kd, t, k, jd), Updated(ln, t, l, lo),
         AtRear(k, t, kd, nx, ni, li, la, mx, nj, lj, lb)
  PROVE  /\ Queue(n + 1, jd, mx, nj, lj, lb, lo, tot + l)
         /\ ShowsOob(jd, mx, nj) => (k = "OOB" \/ ShowsOob(kd, nx, ni))
<1>1. PICK s, f : Shape(n, s, kd, nx, ni, li, la) /\ Lengthed(n, s, ln, f, tot)
  BY DEF Queue
<1>2. Chain(n, s) /\ Blank(n, s, kd, nx, ni)
      /\ kd \in [Addr -> Kinds \cup {"NONE"}]
  BY <1>1 DEF Shape, Fields
<1>3. \A i \in 1 .. n : s[i] # t
  BY <1>2, FreeIs
<1> DEFINE r == PushBack(n, s, t)
<1>4. lj = t /\ Shape(n + 1, r, jd, mx, nj, t, lb)
  <2>1. lj = t /\ Updated(nx, li, t, mx) /\ Updated(ni, lb, t, nj)
        /\ (nx[TQ] # NULL /\ Differs(kd, ni[la], k) => lb = ni[la])
        /\ (~(nx[TQ] # NULL /\ Differs(kd, ni[la], k)) => lb = la)
    BY DEF AtRear
  <2> QED  BY <1>1, <2>1, ShapeBack
<1>5. PICK g : Lengthed(n + 1, r, lo, g, tot + l)
  BY <1>1, <1>2, <1>3, SumBack
<1>6. From(n + 1, r, n, s, t)
  <2>1. r[n + 1] = t /\ \A i \in 0 .. n : r[i] = s[i] /\ s[i] # t
    BY <1>2, <1>3, BackIs
  <2> HIDE DEF r
  <2>2. \A j \in 1 .. n + 1 : j = n + 1 \/ (j \in 1 .. n /\ j \in 0 .. n)
    OBVIOUS
  <2> QED  BY <2>1, <2>2 DEF From
<1> HIDE DEF r
<1>7. Queue(n + 1, jd, mx, nj, lj, lb, lo, tot + l)
  BY <1>4, <1>5 DEF Queue
<1>8. ASSUME ShowsOob(jd, mx, nj) PROVE k = "OOB" \/ ShowsOob(kd, nx, ni)
  <2>1. HasOob(n + 1, r, jd)
    BY <1>4, <1>8, OobSeen
  <2>2. k = "OOB" \/ HasOob(n, s, kd)
    BY <1>2, <1>6, <2>1, OobFrom
  <2> QED  BY <1>1, <2>2, OobSeen
<1> QED  BY <1>7, <1>8

\* The pointers that dequeue_input_task() sets when it takes t at slot c.
Taken(c, t, nx, ni, li, la, mx, nj, lj, lb) ==
  /\ Updated2(nx, c, nx[t], t, NULL, mx)
  /\ lj = IF nx[t] = NULL THEN c ELSE li
  /\ Mended(ni, la, c, t, nj, lb)

\* The slots that Slot() may name.
IsLooked(c, nx, ni) ==
  /\ nx[TQ] # NULL /\ nx[c] # NULL
  /\ (c = TQ \/ c = ni[TQ])

\* dequeue_input_task() keeps the queue.
LEMMA QueueCut ==
  ASSUME NEW n \in Nat, NEW kd, NEW nx, NEW ni, NEW li, NEW la, NEW ln,
         NEW tot, Queue(n, kd, nx, ni, li, la, ln, tot),
         NEW c, IsLooked(c, nx, ni),
         NEW jd, NEW mx, NEW nj, NEW lj, NEW lb, NEW lo,
         Updated(kd, nx[c], "NONE", jd), Updated(ln, nx[c], 0, lo),
         Taken(c, nx[c], nx, ni, li, la, mx, nj, lj, lb)
  PROVE  /\ n - 1 \in Nat
         /\ Queue(n - 1, jd, mx, nj, lj, lb, lo, tot - ln[nx[c]])
         /\ ShowsOob(jd, mx, nj) => ShowsOob(kd, nx, ni)
<1>1. PICK s, f : Shape(n, s, kd, nx, ni, li, la) /\ Lengthed(n, s, ln, f, tot)
  BY DEF Queue
<1>2. Chain(n, s) /\ kd \in [Addr -> Kinds \cup {"NONE"}]
  BY <1>1 DEF Shape, Fields
<1>3. PICK p : SlotOf(n, s, kd, nx, p, c)
  <2>1. CASE c = TQ
    BY <1>1, <2>1, HeadSlot DEF IsLooked
  <2>2. CASE c = ni[TQ]
    <3>1. nx[TQ] # NULL /\ nx[ni[TQ]] # NULL
      BY <2>2 DEF IsLooked
    <3>2. \E p : SlotOf(n, s, kd, nx, p, ni[TQ])
      BY <1>1, <3>1, ItailSlot
    <3> QED  BY <2>2, <3>2
  <2> QED  BY <2>1, <2>2 DEF IsLooked
<1>4. /\ p \in 1 .. n /\ c = s[p - 1] /\ nx[c] = s[p]
      /\ IsSlot(Ends(n, s, kd), p)
  BY <1>3 DEF SlotOf
<1> DEFINE r == Cut(n, s, p)
<1>5. Shape(n - 1, r, jd, mx, nj, lj, lb)
  <2>1. /\ Updated(kd, s[p], "NONE", jd)
        /\ Updated2(nx, s[p - 1], nx[s[p]], s[p], NULL, mx)
        /\ lj = IF nx[s[p]] = NULL THEN s[p - 1] ELSE li
        /\ Mended(ni, la, s[p - 1], s[p], nj, lb)
    BY <1>4 DEF Taken
  <2> QED  BY <1>1, <1>4, <2>1, ShapeCut
<1>6. PICK g : Lengthed(n - 1, r, lo, g, tot - ln[nx[c]])
  <2>1. Updated(ln, s[p], 0, lo) /\ ln[nx[c]] = ln[s[p]]
    BY <1>4
  <2>2. \E g : Lengthed(n - 1, r, lo, g, tot - ln[s[p]])
    BY <1>1, <1>2, <1>4, <2>1, SumCut
  <2> QED  BY <2>1, <2>2
<1>7. n - 1 \in Nat
  BY <1>4
<1>8. From(n - 1, r, n, s, s[p])
  <2>1. \A i \in 0 .. n - 1 : /\ r[i] = IF i < p THEN s[i] ELSE s[i + 1]
                              /\ r[i] # s[p]
    BY <1>2, <1>4, CutIs
  <2> HIDE DEF r
  <2>2. \A i \in 1 .. n - 1 : i \in 1 .. n /\ i + 1 \in 1 .. n
                              /\ i \in 0 .. n - 1
    BY <1>4
  <2> QED  BY <2>1, <2>2 DEF From
<1> HIDE DEF r
<1>9. Queue(n - 1, jd, mx, nj, lj, lb, lo, tot - ln[nx[c]])
  BY <1>5, <1>6 DEF Queue
<1>10. ASSUME ShowsOob(jd, mx, nj) PROVE ShowsOob(kd, nx, ni)
  <2>1. HasOob(n - 1, r, jd)
    BY <1>5, <1>10, OobSeen
  <2>2. s[p] \in Addr /\ Updated(kd, s[p], "NONE", jd)
    BY <1>2, <1>4 DEF Chain
  <2>3. HasOob(n, s, kd)
    BY <1>2, <1>8, <2>1, <2>2, OobFrom
  <2> QED  BY <1>1, <2>3, OobSeen
<1> QED  BY <1>7, <1>9, <1>10

\* What a queue says of the types.
LEMMA QueueTypes ==
  ASSUME NEW n \in Nat, NEW kd, NEW nx, NEW ni, NEW li, NEW la, NEW ln,
         NEW tot, Queue(n, kd, nx, ni, li, la, ln, tot)
  PROVE  /\ Fields(kd, nx, ni) /\ ln \in [Addr -> Nat] /\ tot \in Nat
         /\ li \in Cells /\ la \in Cells
         /\ nx[TQ] = NULL <=> n = 0
         /\ n = 0 => tot = 0
<1>1. PICK s, f : Shape(n, s, kd, nx, ni, li, la) /\ Lengthed(n, s, ln, f, tot)
  BY DEF Queue
<1>2. /\ Fields(kd, nx, ni) /\ Chain(n, s) /\ li = s[n]
      /\ Threaded(Ends(n, s, kd), n, s, ni, la)
  BY <1>1 DEF Shape, Linked
<1>3. tot \in Nat /\ (n = 0 => tot = 0)
  BY <1>1, <1>2, SumNatural
<1>4. li \in Cells /\ la \in Cells
  <2>1. s \in [0 .. n -> Cells] /\ Ends(n, s, kd) \subseteq 1 .. n
    BY <1>2 DEF Chain, Ends
  <2> QED  BY <1>2, <2>1 DEF Threaded
<1>5. ln \in [Addr -> Nat]
  BY <1>1 DEF Lengthed
<1>6. nx[TQ] = NULL <=> n = 0
  BY <1>1, EmptyIs
<1> QED  BY <1>2, <1>3, <1>4, <1>5, <1>6

-----------------------------------------------------------------------------
(* The invariant *)

Lists(n) == Queue(n, kind, next, next_itail, last_input, last_itail, length,
                  total_input_length)
Switches ==
  /\ input_suspended \in BOOLEAN /\ hold_input \in BOOLEAN
  /\ disable_oob \in BOOLEAN /\ reading \in BOOLEAN
  /\ connected \in BOOLEAN /\ active \in BOOLEAN /\ flushing \in BOOLEAN
Resumable == connected /\ input_suspended => first_input # NULL

\* Both lists are in order, suspended input is resumed, and nothing is left
\* waiting.
IInv ==
  /\ \E n \in Nat : Lists(n)
  /\ Switches /\ Resumable /\ IdleHasNothingToRun

\* A new queue holds one empty line.
LEMMA Starts == Init => IInv
<1> SUFFICES ASSUME Init PROVE IInv
  OBVIOUS
<1>1. PICK t \in Addr :
        /\ kind = [a \in Addr |-> IF a = t THEN "INBAND" ELSE "NONE"]
        /\ length = [a \in Addr |-> 0]
        /\ next = [a \in Addr \cup {TQ} |-> IF a = TQ THEN t ELSE NULL]
        /\ next_itail = [a \in Addr \cup {TQ} |-> IF a = TQ THEN t ELSE NULL]
        /\ last_input = t /\ last_itail = TQ
        /\ total_input_length = 0
  BY DEF Init
<1> DEFINE s == [i \in 0 .. 1 |-> IF i = 0 THEN TQ ELSE t]
           f == [i \in 0 .. 1 |-> 0]
<1>2. /\ s[0] = TQ /\ s[1] = t /\ TQ # t /\ s \in [0 .. 1 -> Cells]
      /\ \A i \in 0 .. 1 : i = 0 \/ i = 1
      /\ \A i \in 1 .. 1 : i = 1 /\ i - 1 = 0
  BY DEF Cells
<1> HIDE DEF s
<1>3. Chain(1, s)
  BY <1>2 DEF Chain
<1>4. Fields(kind, next, next_itail)
  BY <1>1 DEF Fields, Kinds, Cells
<1>5. /\ next[TQ] = t /\ next[t] = NULL
      /\ next_itail[TQ] = t /\ next_itail[t] = NULL
      /\ kind[t] = "INBAND"
      /\ \A a \in Addr : a # t => /\ kind[a] = "NONE"
                                  /\ next[a] = NULL /\ next_itail[a] = NULL
  BY <1>1
<1>6. Linked(1, s, next, last_input)
  BY <1>1, <1>2, <1>5 DEF Linked
<1>7. Blank(1, s, kind, next, next_itail)
  <2>1. 1 \in 1 .. 1
    OBVIOUS
  <2> QED  BY <1>2, <1>5, <2>1 DEF Blank
<1>8. Ends(1, s, kind) = {1}
  BY <1>2 DEF Ends
<1>9. Threaded({1}, 1, s, next_itail, last_itail)
  <2>1. Succ({1}, 0, 1) /\ ~Succ({1}, 1, 1)
    BY DEF Succ
  <2> QED  BY <1>1, <1>2, <1>5, <2>1 DEF Threaded
<1>10. Shape(1, s, kind, next, next_itail, last_input, last_itail)
  BY <1>3, <1>4, <1>6, <1>7, <1>8, <1>9 DEF Shape
<1>11. Lengthed(1, s, length, f, 0)
  <2>1. length \in [Addr -> Nat] /\ length[t] = 0
    BY <1>1
  <2>2. f \in [0 .. 1 -> Int] /\ f[0] = 0 /\ f[1] = 0
    OBVIOUS
  <2> HIDE DEF f
  <2> QED  BY <1>2, <2>1, <2>2 DEF Lengthed
<1>12. Lists(1)
  <2> HIDE DEF f
  <2> QED  BY <1>1, <1>10, <1>11 DEF Queue, Lists
<1>13. Switches /\ Resumable /\ IdleHasNothingToRun
  <2>1. /\ input_suspended = TRUE /\ hold_input = FALSE /\ disable_oob = FALSE
        /\ reading = FALSE /\ connected = TRUE /\ active = TRUE
        /\ flushing = FALSE
    BY DEF Init
  <2>2. first_input # NULL
    BY <1>5 DEF first_input
  <2> QED  BY <2>1, <2>2 DEF Switches, Resumable, IdleHasNothingToRun
<1> QED  BY <1>12, <1>13 DEF IInv

\* What enqueue_input_task() does with a free address t.
Arrives(t, k, len, at_front) ==
  /\ kind[t] = "NONE"
  /\ Updated(kind, t, k, kind') /\ Updated(length, t, len, length')
  /\ IF at_front /\ next[TQ] # NULL
     THEN InFront(k, t, kind, next, next_itail, last_input, last_itail, next',
                  next_itail', last_input', last_itail')
     ELSE AtRear(k, t, kind, next, next_itail, last_input, last_itail, next',
                 next_itail', last_input', last_itail')

\* That is the action of the model.
LEMMA EnqueueIs ==
  ASSUME NEW k, NEW len, NEW at_front, EnqueueInputTask(k, len, at_front)
  PROVE  \E t \in Addr : Arrives(t, k, len, at_front)
<1>1. PICK t \in FreeAddr :
        /\ kind' = [kind EXCEPT ![t] = k]
        /\ length' = [length EXCEPT ![t] = len]
        /\ IF at_front /\ first_input # NULL
           THEN /\ FrontItails(t, k)
                /\ next' = [next EXCEPT ![t] = first_input, ![TQ] = t]
                /\ UNCHANGED last_input
           ELSE /\ RearItails(t, k)
                /\ next' = [next EXCEPT ![last_input] = t]
                /\ last_input' = t
  BY DEF EnqueueInputTask
<1>2. t \in Addr /\ kind[t] = "NONE"
  BY DEF FreeAddr
<1>3. Updated(kind, t, k, kind') /\ Updated(length, t, len, length')
  BY <1>1 DEF Updated
<1>4. \A a : (IsOob(a) # (k = "OOB")) <=> Differs(kind, a, k)
  BY DEF IsOob, Differs, Oob
<1>5. ASSUME at_front /\ next[TQ] # NULL
      PROVE  InFront(k, t, kind, next, next_itail, last_input, last_itail,
                     next', next_itail', last_input', last_itail')
  <2>1. CASE IsOob(first_input) # (k = "OOB")
    BY <1>1, <1>4, <1>5, <2>1
    DEF FrontItails, InFront, first_input, first_itail, Updated2
  <2>2. CASE ~(IsOob(first_input) # (k = "OOB"))
    BY <1>1, <1>4, <1>5, <2>2
    DEF FrontItails, InFront, first_input, first_itail, Updated2
  <2> QED  BY <2>1, <2>2
<1>6. ASSUME ~(at_front /\ next[TQ] # NULL)
      PROVE  AtRear(k, t, kind, next, next_itail, last_input, last_itail,
                    next', next_itail', last_input', last_itail')
  BY <1>1, <1>4, <1>6 DEF RearItails, AtRear, first_input, Updated
<1>7. Arrives(t, k, len, at_front)
  BY <1>2, <1>3, <1>5, <1>6 DEF Arrives
<1> QED  BY <1>2, <1>7

\* enqueue_input_task() keeps the invariant.
LEMMA EnqueueKeeps ==
  ASSUME IInv, NEW k \in Kinds, NEW len \in Nat, NEW at_front \in BOOLEAN,
         EnqueueInputTask(k, len, at_front),
         UNCHANGED <<hold_input, disable_oob, reading, connected, flushing>>
  PROVE  IInv'
<1>1. PICK n \in Nat : Lists(n)
  BY DEF IInv
<1>2. PICK t \in Addr : Arrives(t, k, len, at_front)
  BY EnqueueIs
<1>3. /\ total_input_length' = total_input_length + len
      /\ active' = (active \/ ~hold_input \/ reading
                    \/ (~disable_oob /\ k = "OOB"))
      /\ input_suspended' = (input_suspended
                             \/ (connected /\ total_input_length' > INPUT_HIWAT))
  BY DEF EnqueueInputTask
<1>4. /\ Lists(n + 1)'
      /\ ShowsOob(kind', next', next_itail')
           => (k = "OOB" \/ ShowsOob(kind, next, next_itail))
  <2>1. CASE at_front /\ next[TQ] # NULL
    BY <1>1, <1>2, <1>3, <2>1, QueueFront DEF Lists, Arrives
  <2>2. CASE ~(at_front /\ next[TQ] # NULL)
    BY <1>1, <1>2, <1>3, <2>2, QueueRear DEF Lists, Arrives
  <2> QED  BY <2>1, <2>2
<1>5. Switches'
  BY <1>3 DEF IInv, Switches
<1>6. Resumable'
  <2>1. n + 1 \in Nat /\ n + 1 # 0
    OBVIOUS
  <2>2. next'[TQ] # NULL
    BY <1>4, <2>1, QueueTypes DEF Lists
  <2> QED  BY <2>2 DEF Resumable, first_input
<1>7. IdleHasNothingToRun'
  <2> SUFFICES ASSUME ~active'
               PROVE  ~HasTask(TurnHow)' /\ ~reading'
    BY DEF IdleHasNothingToRun
  <2>1. ~active /\ hold_input /\ ~reading /\ ~(~disable_oob /\ k = "OOB")
    BY <1>3
  <2>2. ~Due(kind, next, next_itail, hold_input, reading, disable_oob)
    BY <2>1, TurnIsDue DEF IInv, IdleHasNothingToRun
  <2>3. disable_oob \/ ~ShowsOob(kind, next, next_itail)
    BY <2>1, <2>2 DEF Due, ShowsOob
  <2>4. ~Due(kind', next', next_itail', hold_input', reading', disable_oob')
    BY <1>4, <2>1, <2>3 DEF Due
  <2> QED  BY <2>1, <2>4, TurnIsDueNext
<1> QED  BY <1>4, <1>5, <1>6, <1>7 DEF IInv

\* What dequeue_input_task() does with the line behind slot c.
Leaves(c) ==
  /\ IsLooked(c, next, next_itail)
  /\ Updated(kind, next[c], "NONE", kind')
  /\ Updated(length, next[c], 0, length')
  /\ Taken(c, next[c], next, next_itail, last_input, last_itail, next',
           next_itail', last_input', last_itail')
  /\ total_input_length' = total_input_length - length[next[c]]

\* That is the action of the model.
LEMMA DequeueIs ==
  ASSUME NEW how, DequeueInputTask(how)
  PROVE  Leaves(Slot(how))
<1> DEFINE c == Slot(how)
           t == next[c]
<1>1. /\ next' = [next EXCEPT ![c] = next[t], ![t] = NULL]
      /\ last_input' = IF next[t] = NULL THEN c ELSE last_input
      /\ DequeueItails(c, t)
      /\ total_input_length' = total_input_length - length[t]
      /\ kind' = [kind EXCEPT ![t] = "NONE"]
      /\ length' = [length EXCEPT ![t] = 0]
  BY DEF DequeueInputTask, Remaining
<1>2. IsLooked(c, next, next_itail)
  BY DEF DequeueInputTask, HasTask, Slot, IsLooked, first_input, first_itail
<1> HIDE DEF c, t
<1>3. Updated(kind, t, "NONE", kind') /\ Updated(length, t, 0, length')
  BY <1>1 DEF Updated
<1>4. Taken(c, t, next, next_itail, last_input, last_itail, next', next_itail',
            last_input', last_itail')
  <2>1. Updated2(next, c, next[t], t, NULL, next')
    BY <1>1 DEF Updated2
  <2>2. Mended(next_itail, last_itail, c, t, next_itail', last_itail')
    <3>1. CASE t # next_itail[c]
      BY <1>1, <3>1 DEF DequeueItails, Mended, Updated
    <3>2. CASE t = next_itail[c] /\ next_itail[t] # NULL
      <4>1. /\ next_itail' = [next_itail EXCEPT ![c] = NULL,
                                ![TQ] = next_itail[t], ![t] = NULL]
            /\ last_itail' = IF next_itail'[last_itail] = NULL THEN TQ
                             ELSE last_itail
        BY <1>1, <3>2 DEF DequeueItails
      <4>2. Updated3(next_itail, c, NULL, TQ, next_itail[t], t, NULL,
                     next_itail')
        BY <4>1 DEF Updated3
      <4>3. last_itail' = Retreat(next_itail', last_itail)
        BY <4>1 DEF Retreat
      <4> QED  BY <3>2, <4>2, <4>3 DEF Mended
    <3>3. CASE t = next_itail[c] /\ next_itail[t] = NULL
      <4>1. /\ next_itail' = [next_itail EXCEPT ![c] = NULL]
            /\ last_itail' = IF next_itail'[last_itail] = NULL THEN TQ
                             ELSE last_itail
        BY <1>1, <3>3 DEF DequeueItails
      <4>2. Updated(next_itail, c, NULL, next_itail')
        BY <4>1 DEF Updated
      <4>3. last_itail' = Retreat(next_itail', last_itail)
        BY <4>1 DEF Retreat
      <4> QED  BY <3>3, <4>2, <4>3 DEF Mended
    <3> QED  BY <3>1, <3>2, <3>3
  <2> QED  BY <1>1, <2>1, <2>2 DEF Taken
<1> QED  BY <1>1, <1>2, <1>3, <1>4 DEF Leaves, c, t

\* dequeue_input_task() keeps the invariant, whatever the caller does to a
\* blocked reading task of an active queue.
LEMMA DequeueKeeps ==
  ASSUME IInv, NEW how, DequeueInputTask(how), reading' \in BOOLEAN,
         active \/ UNCHANGED reading,
         UNCHANGED <<hold_input, disable_oob, connected, active, flushing>>
  PROVE  IInv'
<1>1. PICK n \in Nat : Lists(n)
  BY DEF IInv
<1>2. PICK c : c = Slot(how) /\ Leaves(c)
  BY DequeueIs
<1>3. input_suspended' = (input_suspended
                          /\ ~(connected /\ total_input_length' < INPUT_LOWAT))
  BY DEF DequeueInputTask
<1>4. IsLooked(c, next, next_itail)
  BY <1>2 DEF Leaves
<1>5. /\ n - 1 \in Nat
      /\ Lists(n - 1)'
      /\ ShowsOob(kind', next', next_itail')
           => ShowsOob(kind, next, next_itail)
  <2>1. Queue(n, kind, next, next_itail, last_input, last_itail, length,
              total_input_length)
    BY <1>1 DEF Lists
  <2>2. /\ n - 1 \in Nat
        /\ Queue(n - 1, kind', next', next_itail', last_input', last_itail',
                 length', total_input_length - length[next[c]])
        /\ ShowsOob(kind', next', next_itail')
             => ShowsOob(kind, next, next_itail)
    BY <1>2, <2>1, QueueCut DEF Leaves
  <2> QED  BY <1>2, <2>2 DEF Lists, Leaves
<1>6. Switches'
  BY <1>3 DEF IInv, Switches
<1>7. Resumable'
  <2>1. /\ next'[TQ] = NULL <=> n - 1 = 0
        /\ n - 1 = 0 => total_input_length' = 0
    BY <1>5, QueueTypes DEF Lists
  <2>2. 0 < INPUT_LOWAT
    BY WatermarkAssumption DEF INPUT_LOWAT
  <2>3. next'[TQ] = NULL => ~(connected /\ input_suspended')
    BY <1>3, <2>1, <2>2
  <2> QED  BY <2>3 DEF Resumable, first_input
<1>8. IdleHasNothingToRun'
  <2> SUFFICES ASSUME ~active'
               PROVE  ~HasTask(TurnHow)' /\ ~reading'
    BY DEF IdleHasNothingToRun
  <2>1. ~active /\ ~Due(kind, next, next_itail, hold_input, reading, disable_oob)
    BY TurnIsDue DEF IInv, IdleHasNothingToRun
  <2>2. hold_input /\ ~reading
    BY <1>4, <2>1 DEF Due, IsLooked
  <2>3. disable_oob \/ ~ShowsOob(kind, next, next_itail)
    BY <1>4, <2>1, <2>2 DEF Due, IsLooked
  <2>4. reading' = reading
    BY <2>1
  <2>5. ~Due(kind', next', next_itail', hold_input', reading', disable_oob')
    BY <1>5, <2>2, <2>3, <2>4 DEF Due
  <2> QED  BY <2>2, <2>4, <2>5, TurnIsDueNext
<1> QED  BY <1>5, <1>6, <1>7, <1>8 DEF IInv

\* The other steps leave the lists alone.
LEMMA OthersKeep ==
  ASSUME IInv, UNCHANGED list, Switches',
         connected' => connected, IdleHasNothingToRun'
  PROVE  IInv'
<1>1. \A n : Lists(n)' <=> Lists(n)
  BY DEF Lists, list, heap
<1>2. Resumable'
  BY DEF IInv, Resumable, first_input, list, heap
<1> QED  BY <1>1, <1>2 DEF IInv

\* Every step keeps it.
LEMMA Steps ==
  ASSUME IInv, [Next]_vars
  PROVE  IInv'
<1> DEFINE now == Due(kind, next, next_itail, hold_input, reading, disable_oob)
<1>1. /\ Switches
      /\ ~active => ~now /\ ~(reading /\ OutOfInput)
  BY TurnIsDue DEF IInv, IdleHasNothingToRun
<1>2. \A k \in LineKinds, len \in Lengths : k \in Kinds /\ len \in Nat
  BY LinesAssumption
<1>3. ASSUME NEW k \in LineKinds, NEW len \in Lengths, NewInputTask(k, len)
      PROVE  IInv'
  BY <1>2, <1>3, EnqueueKeeps DEF NewInputTask
<1>4. ASSUME NEW k \in LineKinds, NEW len \in Lengths, NEW f \in BOOLEAN,
             ForceInput(k, len, f)
      PROVE  IInv'
  BY <1>2, <1>4, EnqueueKeeps DEF ForceInput
<1>5. ASSUME UNCHANGED <<kind, next, next_itail, hold_input, reading,
                         disable_oob, connected, active>>
      PROVE  IdleHasNothingToRun'
  <2>1. ~active' => ~HasTask(TurnHow)' /\ ~(reading /\ OutOfInput)'
    BY <1>1, <1>5, TurnIsDueNext DEF OutOfInput, first_input
  <2> QED  BY <2>1 DEF IdleHasNothingToRun
<1>6. CASE StartFlush
  <2>1. UNCHANGED list /\ Switches' /\ (connected' => connected)
    BY <1>1, <1>6 DEF StartFlush, Switches, list
  <2>2. IdleHasNothingToRun'
    BY <1>5, <1>6 DEF StartFlush, list, heap
  <2> QED  BY <2>1, <2>2, OthersKeep
<1>7. CASE FlushOne
  <2>1. CASE first_input = NULL
    <3>1. /\ flushing' = FALSE
          /\ UNCHANGED <<list, hold_input, disable_oob, reading, connected,
                         active>>
      BY <1>7, <2>1 DEF FlushOne
    <3>2. UNCHANGED list /\ Switches' /\ (connected' => connected)
      BY <1>1, <3>1 DEF Switches, list
    <3>3. IdleHasNothingToRun'
      BY <1>5, <3>1 DEF list, heap
    <3> QED  BY <3>2, <3>3, OthersKeep
  <2>2. CASE first_input # NULL
    <3>1. /\ DequeueInputTask("DQ_FIRST") /\ reading' \in BOOLEAN
          /\ UNCHANGED <<hold_input, disable_oob, reading, connected, active,
                         flushing>>
      BY <1>1, <1>7, <2>2 DEF FlushOne, Switches
    <3> QED  BY <3>1, DequeueKeeps
  <2> QED  BY <2>1, <2>2
<1>8. ASSUME NEW b \in BOOLEAN, SetHoldInput(b) PROVE IInv'
  <2>1. UNCHANGED list /\ Switches' /\ (connected' => connected)
    BY <1>1, <1>8 DEF SetHoldInput, Switches, list
  <2>2. /\ hold_input' = b /\ active' = (active \/ (~b /\ next[TQ] # NULL))
        /\ UNCHANGED <<kind, next, next_itail, disable_oob, reading, connected>>
    BY <1>8 DEF SetHoldInput, list, heap, first_input
  <2>3. ~active' => ~Due(kind', next', next_itail', hold_input', reading',
                         disable_oob')
    BY <1>1, <2>2 DEF Due
  <2>4. ~active' => ~(reading /\ OutOfInput)'
    BY <1>1, <2>2 DEF OutOfInput, first_input
  <2>5. IdleHasNothingToRun'
    BY <2>3, <2>4, TurnIsDueNext DEF IdleHasNothingToRun
  <2> QED  BY <2>1, <2>5, OthersKeep
<1>9. ASSUME NEW b \in BOOLEAN, SetDisableOob(b) PROVE IInv'
  <2>1. UNCHANGED list /\ Switches' /\ (connected' => connected)
    BY <1>1, <1>9 DEF SetDisableOob, Switches, list
  <2>2. /\ disable_oob' = b
        /\ active' = (active \/ /\ ~b /\ next[TQ] # NULL
                                /\ \/ next[next_itail[TQ]] # NULL
                                   \/ Oob(kind, next[TQ]))
        /\ UNCHANGED <<kind, next, next_itail, hold_input, reading, connected>>
    BY <1>9
    DEF SetDisableOob, list, heap, first_input, first_itail, IsOob, Oob
  <2>3. ~active' => ~Due(kind', next', next_itail', hold_input', reading',
                         disable_oob')
    BY <1>1, <2>2 DEF Due, ShowsOob
  <2>4. ~active' => ~(reading /\ OutOfInput)'
    BY <1>1, <2>2 DEF OutOfInput, first_input
  <2>5. IdleHasNothingToRun'
    BY <2>3, <2>4, TurnIsDueNext DEF IdleHasNothingToRun
  <2> QED  BY <2>1, <2>5, OthersKeep
<1>10. CASE MakeReadingTask
  <2>1. UNCHANGED list /\ Switches' /\ (connected' => connected)
    BY <1>1, <1>10 DEF MakeReadingTask, Switches, list
  <2>2. /\ ~OutOfInput /\ active' = (active \/ next[TQ] # NULL)
        /\ UNCHANGED <<next, connected>>
    BY <1>10 DEF MakeReadingTask, list, heap, first_input
  <2>3. ~active' => ~Due(kind', next', next_itail', hold_input', reading',
                         disable_oob')
    BY <2>2 DEF Due
  <2>4. ~OutOfInput'
    BY <2>2 DEF OutOfInput, first_input
  <2>5. IdleHasNothingToRun'
    BY <2>3, <2>4, TurnIsDueNext DEF IdleHasNothingToRun
  <2> QED  BY <2>1, <2>5, OthersKeep
<1>11. CASE ReadInputNow
  <2>1. /\ DequeueInputTask("DQ_INBAND") /\ reading' \in BOOLEAN
        /\ UNCHANGED <<hold_input, disable_oob, reading, connected, active,
                       flushing>>
    BY <1>1, <1>11 DEF ReadInputNow, Switches
  <2> QED  BY <2>1, DequeueKeeps
<1>12. CASE KillReading
  <2>1. UNCHANGED list /\ Switches' /\ (connected' => connected)
    BY <1>1, <1>12 DEF KillReading, Switches, list
  <2>2. /\ reading /\ ~reading'
        /\ UNCHANGED <<kind, next, next_itail, hold_input, disable_oob, active>>
    BY <1>12 DEF KillReading, list, heap
  <2>3. ~active' => ~Due(kind', next', next_itail', hold_input', reading',
                         disable_oob')
    BY <1>1, <2>2 DEF Due
  <2>4. IdleHasNothingToRun'
    BY <2>2, <2>3, TurnIsDueNext DEF IdleHasNothingToRun
  <2> QED  BY <2>1, <2>4, OthersKeep
<1>13. CASE Disconnect
  <2>1. UNCHANGED list /\ Switches' /\ (connected' => connected)
    BY <1>1, <1>13 DEF Disconnect, Switches, list
  <2>2. /\ active' = (active \/ reading)
        /\ UNCHANGED <<kind, next, next_itail, hold_input, disable_oob, reading>>
    BY <1>13 DEF Disconnect, list, heap
  <2>3. ~active' => ~Due(kind', next', next_itail', hold_input', reading',
                         disable_oob')
    BY <1>1, <2>2 DEF Due
  <2>4. IdleHasNothingToRun'
    BY <2>2, <2>3, TurnIsDueNext DEF IdleHasNothingToRun
  <2> QED  BY <2>1, <2>4, OthersKeep
<1>14. CASE TurnOutOfInput
  <2>1. UNCHANGED list /\ Switches' /\ (connected' => connected)
    BY <1>1, <1>14 DEF TurnOutOfInput, Switches, list
  <2>2. IdleHasNothingToRun'
    BY <1>14 DEF TurnOutOfInput, IdleHasNothingToRun
  <2> QED  BY <2>1, <2>2, OthersKeep
<1>15. CASE TurnInput
  <2>1. /\ DequeueInputTask(TurnHow) /\ reading' \in BOOLEAN /\ active
        /\ UNCHANGED <<hold_input, disable_oob, connected, active, flushing>>
    BY <1>15 DEF TurnInput
  <2> QED  BY <2>1, DequeueKeeps
<1>16. CASE TurnNothing
  <2>1. UNCHANGED list /\ Switches' /\ (connected' => connected)
    BY <1>1, <1>16 DEF TurnNothing, Switches, list
  <2>2. /\ ~now /\ ~(reading /\ OutOfInput)
        /\ UNCHANGED <<kind, next, next_itail, hold_input, disable_oob, reading,
                       connected>>
    BY <1>16, TurnIsDue DEF TurnNothing, list, heap
  <2>3. ~Due(kind', next', next_itail', hold_input', reading', disable_oob')
    BY <2>2
  <2>4. ~(reading /\ OutOfInput)'
    BY <2>2 DEF OutOfInput, first_input
  <2>5. IdleHasNothingToRun'
    BY <2>3, <2>4, TurnIsDueNext DEF IdleHasNothingToRun
  <2> QED  BY <2>1, <2>5, OthersKeep
<1>17. CASE UNCHANGED vars
  <2>1. UNCHANGED list /\ Switches' /\ (connected' => connected)
    BY <1>1, <1>17 DEF vars, list, Switches
  <2>2. IdleHasNothingToRun'
    BY <1>5, <1>17 DEF vars, heap
  <2> QED  BY <2>1, <2>2, OthersKeep
<1> QED
  BY <1>3, <1>4, <1>6, <1>7, <1>8, <1>9, <1>10, <1>11, <1>12, <1>13, <1>14,
     <1>15, <1>16, <1>17 DEF Next, Turn

\* The invariant holds throughout.
THEOREM Invariant == Spec => []IInv
<1>1. Init => IInv
  BY Starts
<1>2. IInv /\ [Next]_vars => IInv'
  BY Steps
<1> QED  BY <1>1, <1>2, PTL DEF Spec

\* ensure_usage() and deactivate_tqueue(): a queue that is off the list of
\* active queues has nothing to run, whatever the order in which lines arrive,
\* are taken, options change and tasks read.
THEOREM NothingLeftWaiting == Spec => []IdleHasNothingToRun
<1>1. IInv => IdleHasNothingToRun
  BY DEF IInv
<1> QED  BY <1>1, Invariant, PTL

-----------------------------------------------------------------------------
(* The list as the properties of InputQueue walk it *)

\* The walk along the list is well defined.
LEMMA AtIs ==
  ASSUME next \in [Cells -> Addr \cup {NULL}]
  PROVE  /\ Cardinality(Addr) \in Nat /\ At[0] = TQ
         /\ \A i \in 1 .. Cardinality(Addr) :
              At[i] = IF At[i - 1] = NULL THEN NULL ELSE next[At[i - 1]]
<1> DEFINE S == Cells \cup {NULL}
           N == Cardinality(Addr)
           g == [x \in S \X (1 .. N) |->
                   IF x[1] = NULL THEN NULL ELSE next[x[1]]]
           Walk(h) == h = [i \in 0 .. N |->
                             IF i = 0 THEN TQ
                             ELSE IF h[i - 1] = NULL THEN NULL
                             ELSE next[h[i - 1]]]
<1>1. N \in Nat
  BY FS_CardinalityType
<1>2. IsStep(g, S, N) /\ TQ \in S
  BY DEF IsStep, Cells
<1>3. PICK h : IsRun(h, S, TQ, N, g)
  <2> HIDE DEF g, S, N
  <2> QED  BY <1>1, <1>2, Recursion
<1>4. /\ h \in [0 .. N -> S] /\ h[0] = TQ
      /\ \A i \in 1 .. N : h[i] = g[<<h[i - 1], i>>]
  BY <1>3 DEF IsRun
<1>5. \A i \in 1 .. N : i - 1 \in 0 .. N /\ h[i - 1] \in S
  BY <1>1, <1>4
<1>6. \A i \in 1 .. N :
        h[i] = IF h[i - 1] = NULL THEN NULL ELSE next[h[i - 1]]
  BY <1>4, <1>5
<1>7. \A i \in 0 .. N : i = 0 \/ i \in 1 .. N
  BY <1>1
<1> HIDE DEF g, S, N
<1>8. Walk(h)
  BY <1>4, <1>6, <1>7
<1>9. At = CHOOSE a : Walk(a)
  BY DEF At, N
<1>10. Walk(At)
  <2> HIDE DEF Walk
  <2> QED  BY <1>8, <1>9
<1>11. At[0] = TQ
  BY <1>1, <1>10
<1>12. \A i \in 1 .. N :
         At[i] = IF At[i - 1] = NULL THEN NULL ELSE next[At[i - 1]]
  <2> SUFFICES ASSUME NEW i \in 1 .. N
               PROVE At[i] = IF At[i - 1] = NULL THEN NULL ELSE next[At[i - 1]]
    OBVIOUS
  <2>1. i \in 0 .. N /\ i # 0
    BY <1>1
  <2> QED  BY <1>10, <2>1
<1> QED  BY <1>1, <1>11, <1>12 DEF N

\* There are no more lines than addresses.
LEMMA NoMoreLines ==
  ASSUME NEW n, NEW s, Chain(n, s)
  PROVE  n \in Nat /\ n <= Cardinality(Addr)
<1> DEFINE f == [i \in 1 .. n |-> s[i]]
<1>1. /\ n \in Nat /\ \A i \in 1 .. n : s[i] \in Addr
      /\ \A i, j \in 1 .. n : s[i] = s[j] => i = j
  BY DEF Chain
<1>2. f \in Injection(1 .. n, Addr)
  BY <1>1 DEF Injection, IsInjective
<1>3. Cardinality(1 .. n) = n
  BY <1>1, FS_Interval
<1> QED  BY <1>1, <1>2, <1>3, FS_Injection

\* The walk meets the lines in their order, and nothing else.
LEMMA WalkIs ==
  ASSUME NEW n, NEW s, Chain(n, s), Linked(n, s, next, last_input),
         next \in [Cells -> Addr \cup {NULL}]
  PROVE  /\ \A i \in 0 .. n : At[i] = s[i]
         /\ InList = {s[i] : i \in 1 .. n}
         /\ Pending = n
<1> DEFINE N == Cardinality(Addr)
<1>1. /\ N \in Nat /\ At[0] = TQ
      /\ \A i \in 1 .. N :
           At[i] = IF At[i - 1] = NULL THEN NULL ELSE next[At[i - 1]]
  BY AtIs
<1>2. n \in Nat /\ n <= N
  BY NoMoreLines
<1>3. /\ s[0] = TQ /\ \A i \in 0 .. n : s[i] # NULL
      /\ \A i \in 1 .. n : next[s[i - 1]] = s[i] /\ s[i] \in Addr
      /\ next[s[n]] = NULL
      /\ \A i, j \in 1 .. n : s[i] = s[j] => i = j
  BY DEF Chain, Linked, Cells
<1> HIDE DEF N
<1>4. \A i \in 0 .. n : At[i] = s[i]
  <2> DEFINE T == {m \in Nat : m <= n => At[m] = s[m]}
  <2>1. 0 \in T
    BY <1>1, <1>3
  <2>2. ASSUME NEW m \in Nat, m \in T PROVE m + 1 \in T
    <3> SUFFICES ASSUME m + 1 <= n PROVE At[m + 1] = s[m + 1]
      OBVIOUS
    <3>1. m + 1 \in 1 .. n /\ m + 1 \in 1 .. N /\ (m + 1) - 1 = m
          /\ m \in 0 .. n
      BY <1>1, <1>2
    <3>2. At[m] = s[m]
      BY <1>2, <2>2, <3>1
    <3> QED  BY <1>1, <1>3, <3>1, <3>2
  <2>3. Nat \subseteq T
    <3> HIDE DEF T
    <3> QED  BY <2>1, <2>2, NatClosed
  <2> QED  BY <1>2, <2>3
<1>5. \A i \in n + 1 .. N : At[i] = NULL
  <2> DEFINE T == {m \in Nat : n + (m + 1) <= N => At[n + (m + 1)] = NULL}
  <2>1. 0 \in T
    <3> SUFFICES ASSUME n + 1 <= N PROVE At[n + 1] = NULL
      BY <1>2
    <3>1. n + 1 \in 1 .. N /\ (n + 1) - 1 = n /\ n \in 0 .. n
      BY <1>1, <1>2
    <3> QED  BY <1>1, <1>3, <1>4, <3>1
  <2>2. ASSUME NEW m \in Nat, m \in T PROVE m + 1 \in T
    <3> SUFFICES ASSUME n + ((m + 1) + 1) <= N
                 PROVE  At[n + ((m + 1) + 1)] = NULL
      OBVIOUS
    <3>1. /\ n + ((m + 1) + 1) \in 1 .. N /\ n + (m + 1) <= N
          /\ (n + ((m + 1) + 1)) - 1 = n + (m + 1)
      BY <1>1, <1>2
    <3>2. At[n + (m + 1)] = NULL
      BY <2>2, <3>1
    <3> QED  BY <1>1, <3>1, <3>2
  <2>3. Nat \subseteq T
    <3> HIDE DEF T
    <3> QED  BY <2>1, <2>2, NatClosed
  <2> SUFFICES ASSUME NEW i \in n + 1 .. N PROVE At[i] = NULL
    OBVIOUS
  <2>4. i - (n + 1) \in Nat /\ n + ((i - (n + 1)) + 1) = i /\ i <= N
    BY <1>1, <1>2
  <2>5. i - (n + 1) \in T
    BY <2>3, <2>4
  <2> QED  BY <2>4, <2>5
<1>6. InList = {s[i] : i \in 1 .. n}
  <2>1. ASSUME NEW a \in Addr, NEW i \in 1 .. N, At[i] = a
        PROVE  i \in 1 .. n /\ s[i] = a
    <3>1. i \in 1 .. n \/ i \in n + 1 .. N
      BY <1>1, <1>2
    <3>2. i \in 1 .. n
      BY <1>5, <2>1, <3>1
    <3>3. i \in 0 .. n
      BY <3>2
    <3> QED  BY <1>4, <2>1, <3>2, <3>3
  <2>2. \A i \in 1 .. n : i \in 1 .. N /\ At[i] = s[i] /\ s[i] \in Addr
    <3>1. \A i \in 1 .. n : i \in 1 .. N /\ i \in 0 .. n
      BY <1>1, <1>2
    <3> QED  BY <1>3, <1>4, <3>1
  <2>3. \A a : a \in InList <=> a \in {s[i] : i \in 1 .. n}
    BY <2>1, <2>2 DEF InList, N
  <2> QED  BY <2>3
<1>7. Pending = n
  <2> DEFINE f == [i \in 1 .. n |-> s[i]]
             L == {s[i] : i \in 1 .. n}
  <2>1. f \in Bijection(1 .. n, L)
    BY <1>3 DEF Bijection, Injection, Surjection, IsInjective
  <2>2. Cardinality(1 .. n) = n /\ IsFiniteSet(1 .. n)
    BY <1>2, FS_Interval
  <2>3. ExistsBijection(1 .. n, L)
    BY <2>1 DEF ExistsBijection
  <2> HIDE DEF L
  <2>4. Cardinality(L) = n
    BY <2>2, <2>3, FS_Bijection
  <2> QED  BY <1>6, <2>4 DEF Pending, L
<1> QED  BY <1>4, <1>6, <1>7

\* The characters of the lines are the sums of their lengths.
LEMMA CharactersAre ==
  ASSUME NEW n, NEW s, NEW f, Chain(n, s), Linked(n, s, next, last_input),
         next \in [Cells -> Addr \cup {NULL}],
         Lengthed(n, s, length, f, total_input_length)
  PROVE  Characters[Pending] = total_input_length
<1> DEFINE Walk(h) == h = [i \in 0 .. n |->
                             IF i = 0 THEN 0 ELSE h[i - 1] + length[At[i]]]
<1>1. Pending = n /\ \A i \in 0 .. n : At[i] = s[i]
  BY WalkIs
<1>2. /\ n \in Nat /\ f \in [0 .. n -> Int] /\ f[0] = 0
      /\ \A i \in 1 .. n : f[i] = f[i - 1] + length[s[i]]
      /\ f[n] = total_input_length
  BY DEF Chain, Lengthed
<1>3. \A i \in 0 .. n : i = 0 \/ i \in 1 .. n
  BY <1>2
<1>4. Walk(f)
  BY <1>1, <1>2, <1>3
<1>5. Characters = CHOOSE h : Walk(h)
  BY <1>1 DEF Characters
<1>6. Walk(Characters)
  <2> HIDE DEF Walk
  <2> QED  BY <1>4, <1>5
<1> DEFINE T == {m \in Nat : m <= n => Characters[m] = f[m]}
<1>7. 0 \in T
  BY <1>2, <1>6
<1>8. ASSUME NEW m \in Nat, m \in T PROVE m + 1 \in T
  <2> SUFFICES ASSUME m + 1 <= n PROVE Characters[m + 1] = f[m + 1]
    OBVIOUS
  <2>1. m + 1 \in 1 .. n /\ m + 1 \in 0 .. n /\ (m + 1) - 1 = m /\ m + 1 # 0
    BY <1>2
  <2>2. Characters[m] = f[m]
    BY <1>2, <1>8, <2>1
  <2>3. Characters[m + 1] = Characters[(m + 1) - 1] + length[At[m + 1]]
    BY <1>6, <2>1
  <2> QED  BY <1>1, <1>2, <2>1, <2>2, <2>3
<1>9. Nat \subseteq T
  <2> HIDE DEF T
  <2> QED  BY <1>7, <1>8, NatClosed
<1>10. n \in T
  BY <1>2, <1>9
<1> QED  BY <1>1, <1>2, <1>10

\* The ends of the runs, as the properties see them.
LEMMA RunEndsAre ==
  ASSUME NEW n, NEW s, Chain(n, s), Linked(n, s, next, last_input),
         next \in [Cells -> Addr \cup {NULL}]
  PROVE  RunEnds = Ends(n, s, kind)
<1>1. Pending = n /\ \A i \in 0 .. n : At[i] = s[i]
  BY WalkIs
<1>2. /\ n \in Nat /\ \A i \in 1 .. n : s[i] # NULL
      /\ \A i \in 1 .. n : next[s[i - 1]] = s[i]
      /\ next[s[n]] = NULL
  BY DEF Chain, Linked
<1>3. ASSUME NEW i \in 1 .. n
      PROVE  (next[At[i]] = NULL \/ IsOob(next[At[i]]) # IsOob(At[i]))
               <=> (i = n \/ ~(Oob(kind, s[i]) <=> Oob(kind, s[i + 1])))
  <2>1. At[i] = s[i]
    BY <1>1, <1>2
  <2>2. CASE i = n
    BY <1>2, <2>1, <2>2
  <2>3. CASE i # n
    <3>1. i + 1 \in 1 .. n /\ (i + 1) - 1 = i
      BY <1>2, <2>3
    <3>2. next[s[i]] = s[i + 1] /\ s[i + 1] # NULL
      BY <1>2, <3>1
    <3> QED  BY <2>1, <2>3, <3>2 DEF IsOob, Oob
  <2> QED  BY <2>2, <2>3
<1>4. RunEnds = {i \in 1 .. n : next[At[i]] = NULL
                                \/ IsOob(next[At[i]]) # IsOob(At[i])}
  BY <1>1 DEF RunEnds
<1> QED  BY <1>3, <1>4 DEF Ends

\* The comment on tqueue.first_itail: the itail list threads the ends of the
\* runs, last_input is the slot holding the final null and last_itail the
\* penultimate slot of the itail list, whatever lines come, go first or last,
\* and are taken from either lane.
THEOREM ItailsInOrder == Spec => []ItailListCorrect
<1>1. IInv => ItailListCorrect
  <2> SUFFICES ASSUME IInv PROVE ItailListCorrect
    OBVIOUS
  <2>1. PICK n \in Nat : Lists(n)
    BY DEF IInv
  <2>2. PICK s : Shape(n, s, kind, next, next_itail, last_input, last_itail)
    BY <2>1 DEF Lists, Queue
  <2> DEFINE E == Ends(n, s, kind)
  <2>3. /\ Chain(n, s) /\ Linked(n, s, next, last_input)
        /\ next \in [Cells -> Addr \cup {NULL}]
        /\ Threaded(E, n, s, next_itail, last_itail)
    BY <2>2 DEF Shape, Fields
  <2>4. Pending = n /\ \A i \in 0 .. n : At[i] = s[i]
    BY <2>3, WalkIs
  <2>5. RunEnds = E
    BY <2>3, RunEndsAre
  <2>6. last_input = s[n]
    BY <2>3 DEF Linked
  <2>7. E \subseteq 1 .. n
    BY DEF Ends
  <2> HIDE DEF E
  <2>8. \A i \in {0} \cup E : i \in 0 .. n /\ At[i] = s[i]
    BY <2>4, <2>7
  <2>9. n \in 0 .. n /\ At[n] = s[n]
    BY <2>4
  <2>10. \A i, j : Follows(i, j) <=> Succ(E, i, j)
    BY <2>5 DEF Follows, Succ
  <2>11. /\ next_itail[s[n]] = NULL
         /\ \A i \in {0} \cup E, j \in E : Succ(E, i, j)
              => next_itail[s[i]] = s[j]
         /\ \E l \in {0} \cup E : last_itail = s[l]
              /\ IF n = 0 THEN l = 0 ELSE Succ(E, l, n)
    BY <2>3 DEF Threaded
  <2>12. \A i \in {0} \cup E, j \in E : Follows(i, j)
           => next_itail[At[i]] = At[j]
    BY <2>8, <2>10, <2>11
  <2>13. \E l \in {0} \cup E : last_itail = At[l]
           /\ IF n = 0 THEN l = 0 ELSE Follows(l, n)
    BY <2>8, <2>10, <2>11
  <2> QED  BY <2>4, <2>5, <2>6, <2>9, <2>11, <2>12, <2>13 DEF ItailListCorrect
<1> QED  BY <1>1, Invariant, PTL

\* enqueue_input_task() suspends and dequeue_input_task() resumes: an open
\* connection whose input is suspended has a line to take, and the counter that
\* decides about resuming it is exact.
THEOREM SuspensionEnds == Spec => []SuspendedHasInput
<1>1. IInv => SuspendedHasInput
  <2> SUFFICES ASSUME IInv PROVE SuspendedHasInput
    OBVIOUS
  <2>1. PICK n \in Nat : Lists(n)
    BY DEF IInv
  <2>2. PICK s, f :
          /\ Shape(n, s, kind, next, next_itail, last_input, last_itail)
          /\ Lengthed(n, s, length, f, total_input_length)
    BY <2>1 DEF Lists, Queue
  <2>3. /\ Chain(n, s) /\ Linked(n, s, next, last_input)
        /\ next \in [Cells -> Addr \cup {NULL}]
    BY <2>2 DEF Shape, Fields
  <2>4. Characters[Pending] = total_input_length
    BY <2>2, <2>3, CharactersAre
  <2> QED  BY <2>4 DEF SuspendedHasInput, IInv, Resumable
<1> QED  BY <1>1, Invariant, PTL

\* The fields, pointers and counters of a queue keep their types: a length
\* is never negative, and no pointer leads out of the heap.
THEOREM QueueIsTyped == Spec => []TypeOK
<1>1. IInv => TypeOK
  <2> SUFFICES ASSUME IInv PROVE TypeOK
    OBVIOUS
  <2>1. PICK n \in Nat : Lists(n)
    BY DEF IInv
  <2>2. /\ Fields(kind, next, next_itail) /\ length \in [Addr -> Nat]
        /\ total_input_length \in Nat
        /\ last_input \in Cells /\ last_itail \in Cells
    BY <2>1, QueueTypes DEF Lists
  <2>3. {input_suspended, hold_input, disable_oob, reading, connected, active,
         flushing} \subseteq BOOLEAN
    BY DEF IInv, Switches
  <2> QED  BY <2>2, <2>3 DEF TypeOK, Fields, Cells
<1> QED  BY <1>1, Invariant, PTL

-----------------------------------------------------------------------------
(* The lines without the pointers *)

Pend(n, s, kd) == [i \in 1 .. n |-> [id |-> s[i], kind |-> kd[s[i]]]]
Entries == [id : Addr, kind : Kinds \cup {"NONE"}]
Behind(q, e) == Append(q, e)

\* They are a sequence.
LEMMA PendIs ==
  ASSUME NEW n, NEW s, NEW kd \in [Addr -> Kinds \cup {"NONE"}], Chain(n, s)
  PROVE  /\ Pend(n, s, kd) \in Seq(Entries) /\ Len(Pend(n, s, kd)) = n
         /\ n \in Nat
         /\ \A i \in 1 .. n : Pend(n, s, kd)[i] = [id |-> s[i], kind |-> kd[s[i]]]
<1> DEFINE q == Pend(n, s, kd)
<1>1. n \in Nat /\ \A i \in 1 .. n : s[i] \in Addr
  BY DEF Chain
<1>2. \A i \in 1 .. n : [id |-> s[i], kind |-> kd[s[i]]] \in Entries
  BY <1>1 DEF Entries
<1>3. /\ q \in [1 .. n -> Entries]
      /\ \A i \in 1 .. n : q[i] = [id |-> s[i], kind |-> kd[s[i]]]
  <2> HIDE DEF Entries
  <2> QED  BY <1>2 DEF Pend
<1> HIDE DEF q
<1>4. q \in Seq(Entries) /\ Len(q) = n
  BY <1>1, <1>3, SeqDef
<1> QED  BY <1>1, <1>3, <1>4 DEF q

\* Same lines, same sequence.
LEMMA PendEqual ==
  ASSUME NEW n, NEW s, NEW kd \in [Addr -> Kinds \cup {"NONE"}], Chain(n, s),
         NEW q \in Seq(Entries), Len(q) = n,
         \A i \in 1 .. n : q[i] = [id |-> s[i], kind |-> kd[s[i]]]
  PROVE  q = Pend(n, s, kd)
<1>1. /\ Pend(n, s, kd) \in Seq(Entries) /\ Len(Pend(n, s, kd)) = n
      /\ \A i \in 1 .. n : Pend(n, s, kd)[i] = [id |-> s[i], kind |-> kd[s[i]]]
  BY PendIs
<1> QED  BY <1>1, SeqEqual

\* A line at the rear is appended.
LEMMA PendBack ==
  ASSUME NEW n, NEW s, NEW kd \in [Addr -> Kinds \cup {"NONE"}], Chain(n, s),
         NEW t \in Addr, NEW k \in Kinds, NEW jd, Updated(kd, t, k, jd),
         \A i \in 1 .. n : s[i] # t
  PROVE  Pend(n + 1, PushBack(n, s, t), jd)
           = Behind(Pend(n, s, kd), [id |-> t, kind |-> k])
<1> DEFINE r == PushBack(n, s, t)
           e == [id |-> t, kind |-> k]
           q == Append(Pend(n, s, kd), e)
<1>1. /\ Pend(n, s, kd) \in Seq(Entries) /\ Len(Pend(n, s, kd)) = n /\ n \in Nat
      /\ \A i \in 1 .. n : Pend(n, s, kd)[i] = [id |-> s[i], kind |-> kd[s[i]]]
  BY PendIs
<1>2. Chain(n + 1, r) /\ r[n + 1] = t /\ \A i \in 0 .. n : r[i] = s[i]
  BY BackIs
<1>3. /\ jd \in [Addr -> Kinds \cup {"NONE"}] /\ jd[t] = k
      /\ \A i \in 1 .. n : jd[s[i]] = kd[s[i]]
  <2>1. \A i \in 1 .. n : s[i] \in Addr
    BY DEF Chain
  <2> QED  BY <2>1 DEF Updated
<1>4. e \in Entries
  BY DEF Entries
<1> HIDE DEF r, Entries
<1>5. /\ q \in Seq(Entries) /\ Len(q) = n + 1 /\ q[n + 1] = e
      /\ \A i \in 1 .. n : q[i] = Pend(n, s, kd)[i]
  <2> HIDE DEF e
  <2> QED  BY <1>1, <1>4, AppendProperties
<1> HIDE DEF q
<1>6. ASSUME NEW i \in 1 .. n + 1
      PROVE  q[i] = [id |-> r[i], kind |-> jd[r[i]]]
  <2>1. CASE i = n + 1
    BY <1>2, <1>3, <1>5, <2>1
  <2>2. CASE i # n + 1
    <3>1. i \in 1 .. n /\ i \in 0 .. n
      BY <1>1, <2>2
    <3> QED  BY <1>1, <1>2, <1>3, <1>5, <3>1
  <2> QED  BY <2>1, <2>2
<1>7. q = Pend(n + 1, r, jd)
  BY <1>2, <1>3, <1>5, <1>6, PendEqual
<1> QED  BY <1>7 DEF q, r, Behind

\* A line in front comes before the others.
LEMMA PendFront ==
  ASSUME NEW n, NEW s, NEW kd \in [Addr -> Kinds \cup {"NONE"}], Chain(n, s),
         NEW t \in Addr, NEW k \in Kinds, NEW jd, Updated(kd, t, k, jd),
         \A i \in 1 .. n : s[i] # t
  PROVE  Pend(n + 1, PushFront(n, s, t), jd)
           = <<[id |-> t, kind |-> k]>> \o Pend(n, s, kd)
<1> DEFINE r == PushFront(n, s, t)
           e == [id |-> t, kind |-> k]
           q == <<e>> \o Pend(n, s, kd)
<1>1. /\ Pend(n, s, kd) \in Seq(Entries) /\ Len(Pend(n, s, kd)) = n /\ n \in Nat
      /\ \A i \in 1 .. n : Pend(n, s, kd)[i] = [id |-> s[i], kind |-> kd[s[i]]]
  BY PendIs
<1>2. Chain(n + 1, r) /\ r[1] = t /\ \A i \in 1 .. n : r[i + 1] = s[i]
  BY FrontIs
<1>3. /\ jd \in [Addr -> Kinds \cup {"NONE"}] /\ jd[t] = k
      /\ \A i \in 1 .. n : jd[s[i]] = kd[s[i]]
  <2>1. \A i \in 1 .. n : s[i] \in Addr
    BY DEF Chain
  <2> QED  BY <2>1 DEF Updated
<1>4. e \in Entries
  BY DEF Entries
<1> HIDE DEF r, Entries
<1>5. /\ q \in Seq(Entries) /\ Len(q) = 1 + n
      /\ \A i \in 1 .. 1 + n : q[i] = IF i <= 1 THEN <<e>>[i]
                                      ELSE Pend(n, s, kd)[i - 1]
  <2> HIDE DEF e
  <2>1. <<e>> \in Seq(Entries) /\ Len(<<e>>) = 1
    BY <1>4
  <2> QED  BY <1>1, <2>1, ConcatProperties
<1> HIDE DEF q
<1>6. ASSUME NEW i \in 1 .. n + 1
      PROVE  q[i] = [id |-> r[i], kind |-> jd[r[i]]]
  <2>1. CASE i = 1
    <3>1. q[i] = e
      BY <1>1, <1>5, <2>1
    <3> QED  BY <1>2, <1>3, <2>1, <3>1
  <2>2. CASE i # 1
    <3>1. i - 1 \in 1 .. n /\ (i - 1) + 1 = i /\ i \in 1 .. 1 + n /\ ~(i <= 1)
      BY <1>1, <2>2
    <3>2. r[i] = s[i - 1] /\ q[i] = Pend(n, s, kd)[i - 1]
      BY <1>2, <1>5, <3>1
    <3> QED  BY <1>1, <1>3, <3>1, <3>2
  <2> QED  BY <2>1, <2>2
<1>7. Len(q) = n + 1
  BY <1>1, <1>5
<1>8. q = Pend(n + 1, r, jd)
  BY <1>2, <1>3, <1>5, <1>6, <1>7, PendEqual
<1> QED  BY <1>8 DEF q, r

\* A line that is taken is removed.
LEMMA PendCut ==
  ASSUME NEW n, NEW s, NEW kd \in [Addr -> Kinds \cup {"NONE"}], Chain(n, s),
         NEW p \in 1 .. n, NEW jd, Updated(kd, s[p], "NONE", jd)
  PROVE  Pend(n - 1, Cut(n, s, p), jd) = RemoveAt(Pend(n, s, kd), p)
<1> DEFINE r == Cut(n, s, p)
           a == Pend(n, s, kd)
           before == SubSeq(a, 1, p - 1)
           after == SubSeq(a, p + 1, n)
           q == before \o after
<1>1. /\ a \in Seq(Entries) /\ Len(a) = n /\ n \in Nat
      /\ \A i \in 1 .. n : a[i] = [id |-> s[i], kind |-> kd[s[i]]]
  BY PendIs
<1>2. /\ Chain(n - 1, r) /\ n - 1 \in Nat
      /\ \A i \in 0 .. n - 1 : r[i] = IF i < p THEN s[i] ELSE s[i + 1]
  BY CutIs
<1>3. /\ jd \in [Addr -> Kinds \cup {"NONE"}]
      /\ \A i \in 1 .. n : i # p => jd[s[i]] = kd[s[i]]
  <2>1. /\ \A i \in 1 .. n : s[i] \in Addr
        /\ \A i \in 1 .. n : i # p => s[i] # s[p]
    BY DEF Chain
  <2> QED  BY <2>1 DEF Updated
<1>4. \A i \in 1 .. n : a[i] \in Entries
  BY <1>1, ElementOfSeq
<1> HIDE DEF r, a, Entries
<1>5. /\ before \in Seq(Entries) /\ Len(before) = p - 1
      /\ \A i \in 1 .. p - 1 : before[i] = a[i]
  <2>1. /\ 1 \in Int /\ p - 1 \in Int
        /\ \A i \in 1 .. p - 1 : a[i] \in Entries
    BY <1>1, <1>4
  <2>2. /\ before \in Seq(Entries)
        /\ Len(before) = IF 1 <= p - 1 THEN (p - 1) - 1 + 1 ELSE 0
        /\ \A i \in 1 .. (p - 1) - 1 + 1 : before[i] = a[1 + i - 1]
    <3> HIDE DEF before
    <3> QED  BY <2>1, SubSeqProperties DEF before
  <2> HIDE DEF before
  <2>3. Len(before) = p - 1
    BY <1>1, <2>2
  <2>4. \A i \in 1 .. p - 1 : i \in 1 .. (p - 1) - 1 + 1 /\ 1 + i - 1 = i
    BY <1>1
  <2> QED  BY <2>2, <2>3, <2>4
<1>6. /\ after \in Seq(Entries) /\ Len(after) = n - p
      /\ \A i \in 1 .. n - p : after[i] = a[p + i]
  <2>1. /\ p + 1 \in Int /\ n \in Int
        /\ \A i \in p + 1 .. n : a[i] \in Entries
    BY <1>1, <1>4
  <2>2. /\ after \in Seq(Entries)
        /\ Len(after) = IF p + 1 <= n THEN n - (p + 1) + 1 ELSE 0
        /\ \A i \in 1 .. n - (p + 1) + 1 : after[i] = a[(p + 1) + i - 1]
    <3> HIDE DEF after
    <3> QED  BY <2>1, SubSeqProperties DEF after
  <2> HIDE DEF after
  <2>3. Len(after) = n - p
    BY <1>1, <2>2
  <2>4. \A i \in 1 .. n - p : i \in 1 .. n - (p + 1) + 1
                              /\ (p + 1) + i - 1 = p + i
    BY <1>1
  <2> QED  BY <2>2, <2>3, <2>4
<1>7. q = RemoveAt(a, p)
  BY <1>1 DEF RemoveAt
<1> HIDE DEF before, after
<1>8. /\ q \in Seq(Entries) /\ Len(q) = n - 1
      /\ \A i \in 1 .. n - 1 : q[i] = IF i < p THEN a[i] ELSE a[i + 1]
  <2>1. /\ q \in Seq(Entries) /\ Len(q) = Len(before) + Len(after)
        /\ \A i \in 1 .. Len(before) + Len(after) :
             q[i] = IF i <= Len(before) THEN before[i]
                    ELSE after[i - Len(before)]
    <3>1. before \in Seq(Entries) /\ after \in Seq(Entries)
      BY <1>5, <1>6
    <3> QED  BY ONLY <3>1, ConcatProperties DEF q
  <2>2. Len(before) + Len(after) = n - 1
    BY <1>1, <1>5, <1>6
  <2> HIDE DEF q
  <2>3. ASSUME NEW i \in 1 .. n - 1
        PROVE  q[i] = IF i < p THEN a[i] ELSE a[i + 1]
    <3>1. CASE i < p
      <4>1. i <= p - 1 /\ i \in 1 .. p - 1
        BY <1>1, <3>1
      <4> QED  BY <1>5, <2>1, <2>2, <3>1, <4>1
    <3>2. CASE ~(i < p)
      <4>1. ~(i <= p - 1) /\ i - (p - 1) \in 1 .. n - p
            /\ p + (i - (p - 1)) = i + 1
        BY <1>1, <3>2
      <4>2. q[i] = after[i - (p - 1)]
        BY <1>5, <2>1, <2>2, <4>1
      <4> QED  BY <1>6, <3>2, <4>1, <4>2
    <3> QED  BY <3>1, <3>2
  <2> QED  BY <2>1, <2>2, <2>3
<1> HIDE DEF q
<1>9. ASSUME NEW i \in 1 .. n - 1
      PROVE  q[i] = [id |-> r[i], kind |-> jd[r[i]]]
  <2>1. i \in 0 .. n - 1 /\ i \in 1 .. n /\ i + 1 \in 1 .. n
        /\ (i < p => i # p) /\ (~(i < p) => i + 1 # p)
    BY <1>1
  <2>2. CASE i < p
    BY <1>1, <1>2, <1>3, <1>8, <2>1, <2>2
  <2>3. CASE ~(i < p)
    BY <1>1, <1>2, <1>3, <1>8, <2>1, <2>3
  <2> QED  BY <2>2, <2>3
<1>10. q = Pend(n - 1, r, jd)
  <2>1. PICK m : m = n - 1
    OBVIOUS
  <2>2. /\ jd \in [Addr -> Kinds \cup {"NONE"}] /\ Chain(m, r)
        /\ q \in Seq(Entries) /\ Len(q) = m
        /\ \A i \in 1 .. m : q[i] = [id |-> r[i], kind |-> jd[r[i]]]
    BY <1>2, <1>3, <1>8, <1>9, <2>1
  <2>3. q = Pend(m, r, jd)
    BY ONLY <2>2, PendEqual
  <2> QED  BY <2>1, <2>3
<1> QED  BY <1>7, <1>10 DEF r, a

-----------------------------------------------------------------------------
(* The refinement, step by step *)

\* The pending lines as InputLanes sees them.
Bar == [i \in 1 .. Pending |-> [id |-> At[i], kind |-> kind[At[i]]]]
Shaped(n, s) == Shape(n, s, kind, next, next_itail, last_input, last_itail)

\* They are the lines of the list.
LEMMA BarIs == \A n, s : Shaped(n, s) => Bar = Pend(n, s, kind)
<1> SUFFICES ASSUME NEW n, NEW s, Shaped(n, s) PROVE Bar = Pend(n, s, kind)
  OBVIOUS
<1>1. /\ Chain(n, s) /\ Linked(n, s, next, last_input)
      /\ next \in [Cells -> Addr \cup {NULL}]
  BY DEF Shaped, Shape, Fields
<1>2. Pending = n /\ \A i \in 0 .. n : At[i] = s[i]
  BY <1>1, WalkIs
<1>3. \A i \in 1 .. n : i \in 0 .. n
  BY <1>1 DEF Chain
<1> QED  BY <1>2, <1>3 DEF Bar, Pend

\* The same in the next state.
LEMMA BarIsNext == \A n, s : Shaped(n, s)' => Bar' = Pend(n, s, kind')
<1>1. (\A n, s : Shaped(n, s) => Bar = Pend(n, s, kind))'
  BY BarIs, PTL
<1> QED  BY <1>1 DEF Pend

\* Forgetting the pointers, enqueue_input_task() is Arrive.
LEMMA EnqueueRefines ==
  ASSUME IInv, NEW k \in Kinds, NEW len \in Nat, NEW at_front \in BOOLEAN,
         EnqueueInputTask(k, len, at_front), UNCHANGED <<disable_oob, taken>>
  PROVE  Lanes!Next
<1>1. PICK n, s : Shaped(n, s) /\ n \in Nat
  BY DEF IInv, Lists, Queue, Shaped
<1>2. PICK t \in Addr : Arrives(t, k, len, at_front)
  BY EnqueueIs
<1>3. /\ Chain(n, s) /\ Blank(n, s, kind, next, next_itail)
      /\ kind \in [Addr -> Kinds \cup {"NONE"}]
  BY <1>1 DEF Shaped, Shape, Fields
<1>4. kind[t] = "NONE" /\ Updated(kind, t, k, kind')
  BY <1>2 DEF Arrives
<1>5. \A i \in 1 .. n : s[i] # t
  BY <1>3, <1>4, FreeIs
<1> DEFINE e == [id |-> t, kind |-> k]
<1>6. \E f \in BOOLEAN : /\ n + 1 <= Cardinality(Addr)
                         /\ Bar' = IF f THEN <<e>> \o Bar ELSE Append(Bar, e)
  <2>1. CASE at_front /\ next[TQ] # NULL
    <3>1. InFront(k, t, kind, next, next_itail, last_input, last_itail, next',
                  next_itail', last_input', last_itail')
      BY <1>2, <2>1 DEF Arrives
    <3> DEFINE r == PushFront(n, s, t)
    <3>2. Shape(n + 1, r, kind', next', next_itail', last_input', last_itail')
      <4>1. /\ last_input' = last_input
            /\ Updated2(next, t, next[TQ], TQ, t, next')
            /\ Differs(kind, next[TQ], k) =>
                 /\ Updated2(next_itail, t, next_itail[TQ], TQ, t, next_itail')
                 /\ last_itail' = IF last_itail = TQ THEN t ELSE last_itail
            /\ ~Differs(kind, next[TQ], k) =>
                 next_itail' = next_itail /\ last_itail' = last_itail
        BY <3>1 DEF InFront
      <4>2. Shape(n + 1, r, kind', next', next_itail', last_input, last_itail')
        BY <1>1, <1>4, <2>1, <4>1, ShapeFront DEF Shaped
      <4> QED  BY <4>1, <4>2
    <3>3. Pend(n + 1, r, kind') = <<e>> \o Pend(n, s, kind)
      <4>1. PICK jd : jd = kind'
        OBVIOUS
      <4>2. Updated(kind, t, k, jd)
        BY <1>4, <4>1
      <4>3. Pend(n + 1, r, jd) = <<e>> \o Pend(n, s, kind)
        BY ONLY <1>3, <1>5, <4>2, PendFront, t \in Addr, k \in Kinds
      <4> QED  BY <4>1, <4>3
    <3>4. Chain(n + 1, r)
      BY <3>2 DEF Shape
    <3> HIDE DEF r
    <3>5. n + 1 <= Cardinality(Addr)
      BY <3>4, NoMoreLines
    <3>6. Bar' = Pend(n + 1, r, kind') /\ Bar = Pend(n, s, kind)
      BY <1>1, <3>2, BarIs, BarIsNext DEF Shaped
    <3> QED  BY <3>3, <3>5, <3>6
  <2>2. CASE ~(at_front /\ next[TQ] # NULL)
    <3>1. AtRear(k, t, kind, next, next_itail, last_input, last_itail, next',
                 next_itail', last_input', last_itail')
      BY <1>2, <2>2 DEF Arrives
    <3> DEFINE r == PushBack(n, s, t)
    <3>2. Shape(n + 1, r, kind', next', next_itail', last_input', last_itail')
      <4>1. /\ last_input' = t /\ Updated(next, last_input, t, next')
            /\ next[TQ] # NULL /\ Differs(kind, next_itail[last_itail], k)
                 => last_itail' = next_itail[last_itail]
            /\ ~(next[TQ] # NULL /\ Differs(kind, next_itail[last_itail], k))
                 => last_itail' = last_itail
            /\ Updated(next_itail, last_itail', t, next_itail')
        BY <3>1 DEF AtRear
      <4>2. Shape(n + 1, r, kind', next', next_itail', t, last_itail')
        BY <1>1, <1>4, <4>1, ShapeBack DEF Shaped
      <4> QED  BY <4>1, <4>2
    <3>3. Pend(n + 1, r, kind') = Append(Pend(n, s, kind), e)
      <4>1. PICK jd : jd = kind'
        OBVIOUS
      <4>2. Updated(kind, t, k, jd)
        BY <1>4, <4>1
      <4>3. Pend(n + 1, r, jd) = Append(Pend(n, s, kind), e)
        <5>1. Pend(n + 1, r, jd) = Behind(Pend(n, s, kind), e)
          BY ONLY <1>3, <1>5, <4>2, PendBack, t \in Addr, k \in Kinds
        <5> QED  BY <5>1 DEF Behind
      <4> QED  BY <4>1, <4>3
    <3>4. Chain(n + 1, r)
      BY <3>2 DEF Shape
    <3> HIDE DEF r
    <3>5. n + 1 <= Cardinality(Addr)
      BY <3>4, NoMoreLines
    <3>6. Bar' = Pend(n + 1, r, kind') /\ Bar = Pend(n, s, kind)
      BY <1>1, <3>2, BarIs, BarIsNext DEF Shaped
    <3> QED  BY <3>3, <3>5, <3>6
  <2> QED  BY <2>1, <2>2
<1>7. /\ Len(Bar) = n
      /\ \A i \in 1 .. n : Bar[i] = [id |-> s[i], kind |-> kind[s[i]]]
  BY <1>1, <1>3, BarIs, PendIs
<1>8. Len(Bar) < Cardinality(Addr) /\ \A i \in 1 .. Len(Bar) : Bar[i].id # t
  <2>1. Cardinality(Addr) \in Nat
    BY AddrAssumption, FS_CardinalityType
  <2>2. n < Cardinality(Addr)
    <3>1. n + 1 <= Cardinality(Addr)
      BY <1>6
    <3> QED  BY ONLY <1>1, <2>1, <3>1
  <2> QED  BY <1>5, <1>7, <2>2
<1>9. PICK f \in BOOLEAN : Bar' = IF f THEN <<e>> \o Bar ELSE Append(Bar, e)
  BY <1>6
<1>10. Lanes!Arrive(t, k, f)
  BY <1>8, <1>9 DEF Lanes!Arrive, Bar
<1>11. k \in Lanes!Kinds
  BY DEF Kinds, Lanes!Kinds
<1> QED  BY <1>10, <1>11 DEF Lanes!Next

\* Behind the first itail the other lane begins.
LEMMA LaneChange ==
  ASSUME NEW n, NEW s, NEW kd, NEW nx, NEW ni, NEW li, NEW la,
         Shape(n, s, kd, nx, ni, li, la), nx[TQ] # NULL, nx[ni[TQ]] # NULL
  PROVE  \E p : /\ SlotOf(n, s, kd, nx, p, ni[TQ])
                /\ \A i \in 1 .. p - 1 : Oob(kd, s[i]) <=> Oob(kd, s[1])
                /\ ~(Oob(kd, s[p]) <=> Oob(kd, s[1]))
<1> DEFINE E == Ends(n, s, kd)
<1>1. PICK p : SlotOf(n, s, kd, nx, p, ni[TQ])
  BY ItailSlot
<1>2. /\ n \in Nat /\ s[0] = TQ /\ p \in 1 .. n /\ ni[TQ] = s[p - 1]
      /\ IsSlot(E, p)
      /\ \A i, j \in 0 .. n : s[i] = s[j] => i = j
      /\ \A i \in 1 .. n : s[i] \in Addr
  BY <1>1 DEF SlotOf, Shape, Chain
<1>3. p # 1
  <2>1. n > 0
    BY <1>2
  <2>2. PICK j \in E : ni[TQ] = s[j]
    BY <2>1, FirstItail
  <2>3. j \in 1 .. n
    BY <2>2 DEF Ends
  <2> SUFFICES ASSUME p = 1 PROVE FALSE
    OBVIOUS
  <2>4. s[0] = s[j] /\ 0 \in 0 .. n /\ j \in 0 .. n
    <3>1. 1 - 1 = 0
      OBVIOUS
    <3>2. s[p - 1] = s[0]
      BY <3>1
    <3>3. 0 \in 0 .. n /\ j \in 0 .. n
      BY ONLY <1>2, <2>3
    <3> QED  BY <1>2, <2>2, <3>2, <3>3
  <2>5. j = 0
    BY <1>2, <2>4
  <2> QED  BY <2>3, <2>5
<1>4. p - 1 \in E /\ Succ(E, 0, p - 1) /\ p - 1 \in 1 .. n /\ p - 1 # n
      /\ (p - 1) + 1 = p
  BY <1>2, <1>3 DEF IsSlot
<1>5. ASSUME NEW i \in 1 .. p - 1 PROVE Oob(kd, s[i]) <=> Oob(kd, s[1])
  <2>1. i \in 1 .. n /\ 1 \in 1 .. n
    BY <1>2
  <2>2. ASSUME NEW m \in E, 1 <= m, m < i PROVE FALSE
    <3>1. m \in 1 .. n /\ m < p - 1
      BY <1>2, <2>1, <2>2 DEF Ends
    <3>2. m <= 0
      BY <1>4, <3>1 DEF Succ
    <3> QED  BY <3>1, <3>2
  <2> QED  BY <1>2, <2>1, <2>2, SameLane
<1>6. ~(Oob(kd, s[p - 1]) <=> Oob(kd, s[p]))
  BY <1>4 DEF Ends
<1>7. Oob(kd, s[p - 1]) <=> Oob(kd, s[1])
  <2>1. p - 1 \in 1 .. p - 1
    BY <1>2, <1>4
  <2> QED  BY <1>5, <2>1
<1> QED  BY <1>1, <1>5, <1>6, <1>7

\* Slot() names the slot of the line asked for.
Asked(n, s, kd, dis, p, how) ==
  IF dis THEN how # "DQ_OOB" /\ p = 1
  ELSE /\ how = "DQ_FIRST" => p = 1
       /\ how = "DQ_OOB" => /\ Oob(kd, s[p])
                            /\ \A j \in 1 .. p - 1 : ~Oob(kd, s[j])
       /\ how = "DQ_INBAND" => /\ ~Oob(kd, s[p])
                               /\ \A j \in 1 .. p - 1 : Oob(kd, s[j])

\* It does so for each of the three ways of asking.
LEMMA SlotAsked ==
  ASSUME NEW n, NEW s, Shaped(n, s), disable_oob \in BOOLEAN,
         NEW how \in {"DQ_FIRST", "DQ_OOB", "DQ_INBAND"}, HasTask(how)
  PROVE  \E p : /\ SlotOf(n, s, kind, next, p, Slot(how))
                /\ Asked(n, s, kind, disable_oob, p, how)
<1>1. next[TQ] # NULL /\ Slot(how) # NULL /\ next[Slot(how)] # NULL
  BY DEF HasTask, first_input
<1>2. PICK q : SlotOf(n, s, kind, next, q, TQ)
  BY <1>1, HeadSlot DEF Shaped
<1>3. q = 1 /\ next[TQ] = s[1]
  <2>1. /\ n \in Nat /\ q \in 1 .. n /\ s[0] = TQ /\ TQ = s[q - 1]
        /\ next[TQ] = s[q]
        /\ \A i, j \in 0 .. n : s[i] = s[j] => i = j
    BY <1>2 DEF SlotOf, Shaped, Shape, Chain
  <2>2. q - 1 \in 0 .. n /\ 0 \in 0 .. n
    BY <2>1
  <2>3. q - 1 = 0
    BY <2>1, <2>2
  <2> QED  BY <2>1, <2>3
<1>4. \A j \in 1 .. 1 - 1 : FALSE
  OBVIOUS
<1>5. CASE disable_oob
  <2>1. how # "DQ_OOB" /\ Slot(how) = TQ
    BY <1>1, <1>5 DEF Slot
  <2> QED  BY <1>2, <1>3, <1>5, <2>1 DEF Asked
<1>6. CASE ~disable_oob /\ (how # "DQ_FIRST"
                            /\ ~((how = "DQ_OOB") <=> Oob(kind, next[TQ])))
  <2>1. Slot(how) = next_itail[TQ]
    BY <1>1, <1>6 DEF Slot, first_input, first_itail, IsOob, Oob
  <2>2. PICK p : /\ SlotOf(n, s, kind, next, p, next_itail[TQ])
                 /\ \A i \in 1 .. p - 1 : Oob(kind, s[i]) <=> Oob(kind, s[1])
                 /\ ~(Oob(kind, s[p]) <=> Oob(kind, s[1]))
    BY <1>1, <2>1, LaneChange DEF Shaped
  <2>3. how = "DQ_OOB" => Asked(n, s, kind, disable_oob, p, how)
    BY <1>3, <1>6, <2>2 DEF Asked
  <2>4. how = "DQ_INBAND" => Asked(n, s, kind, disable_oob, p, how)
    BY <1>3, <1>6, <2>2 DEF Asked
  <2> QED  BY <1>6, <2>1, <2>2, <2>3, <2>4
<1>7. CASE ~disable_oob /\ ~(how # "DQ_FIRST"
                             /\ ~((how = "DQ_OOB") <=> Oob(kind, next[TQ])))
  <2>1. Slot(how) = TQ
    BY <1>1, <1>7 DEF Slot, first_input, first_itail, IsOob, Oob
  <2>2. Asked(n, s, kind, disable_oob, 1, how)
    BY <1>3, <1>4, <1>7 DEF Asked
  <2> QED  BY <1>2, <1>3, <2>1, <2>2
<1> QED  BY <1>5, <1>6, <1>7

\* Forgetting the pointers, dequeue_input_task() is Take.
LEMMA DequeueRefines ==
  ASSUME IInv, NEW how \in {"DQ_FIRST", "DQ_OOB", "DQ_INBAND"},
         DequeueInputTask(how), UNCHANGED disable_oob
  PROVE  Lanes!Next
<1>1. PICK n, s : Shaped(n, s) /\ n \in Nat
  BY DEF IInv, Lists, Queue, Shaped
<1>2. PICK c : c = Slot(how) /\ Leaves(c)
  BY DequeueIs
<1>3. PICK p : /\ SlotOf(n, s, kind, next, p, c)
               /\ Asked(n, s, kind, disable_oob, p, how)
  <2>1. HasTask(how) /\ disable_oob \in BOOLEAN
    BY DEF DequeueInputTask, IInv, Switches
  <2> QED  BY <1>1, <1>2, <2>1, SlotAsked
<1>4. /\ p \in 1 .. n /\ c = s[p - 1] /\ next[c] = s[p]
      /\ IsSlot(Ends(n, s, kind), p)
  BY <1>3 DEF SlotOf
<1>5. Chain(n, s) /\ kind \in [Addr -> Kinds \cup {"NONE"}]
  BY <1>1 DEF Shaped, Shape, Fields
<1> DEFINE r == Cut(n, s, p)
<1>6. /\ Updated(kind, s[p], "NONE", kind')
      /\ Updated2(next, s[p - 1], next[s[p]], s[p], NULL, next')
      /\ last_input' = IF next[s[p]] = NULL THEN s[p - 1] ELSE last_input
      /\ Mended(next_itail, last_itail, s[p - 1], s[p], next_itail', last_itail')
  BY <1>2, <1>4 DEF Leaves, Taken
<1>7. Shape(n - 1, r, kind', next', next_itail', last_input', last_itail')
  BY <1>1, <1>4, <1>6, ShapeCut DEF Shaped
<1>8. Pend(n - 1, r, kind') = RemoveAt(Pend(n, s, kind), p)
  BY <1>4, <1>5, <1>6, PendCut
<1> HIDE DEF r
<1>9. Bar' = Pend(n - 1, r, kind') /\ Bar = Pend(n, s, kind)
  BY <1>1, <1>7, BarIs, BarIsNext DEF Shaped
<1>10. /\ Len(Bar) = n
       /\ \A i \in 1 .. n : Bar[i] = [id |-> s[i], kind |-> kind[s[i]]]
  BY <1>5, <1>9, PendIs
<1>11. Bar' = RemoveAt(Bar, p)
  BY <1>8, <1>9
<1>12. taken' = [line |-> s[p],
                 as |-> IF kind[s[p]] = "QUOTED"
                           \/ (kind[s[p]] = "OOB" /\ disable_oob)
                        THEN "INBAND" ELSE kind[s[p]],
                 stripped |-> kind[s[p]] = "QUOTED" /\ ~disable_oob]
  BY <1>2, <1>4 DEF DequeueInputTask, IsOob
<1>13. taken' = Lanes!Delivered(Bar[p])
  <2>1. Bar[p] = [id |-> s[p], kind |-> kind[s[p]]]
    BY <1>4, <1>10
  <2>2. Bar[p].id = s[p] /\ Bar[p].kind = kind[s[p]]
    BY <2>1
  <2>3. CASE kind[s[p]] = "OOB"
    BY <1>12, <2>2, <2>3 DEF Lanes!Delivered
  <2>4. CASE kind[s[p]] = "QUOTED"
    BY <1>12, <2>2, <2>4 DEF Lanes!Delivered
  <2>5. CASE kind[s[p]] # "OOB" /\ kind[s[p]] # "QUOTED"
    BY <1>12, <2>2, <2>5 DEF Lanes!Delivered
  <2> QED  BY <2>3, <2>4, <2>5
<1>14. Lanes!Eligible(p, how)
  <2>1. \A i \in 1 .. n : Lanes!IsOob(Bar[i]) <=> Oob(kind, s[i])
    BY <1>10 DEF Lanes!IsOob, Oob
  <2>2. /\ Lanes!IsOob(Bar[p]) <=> Oob(kind, s[p])
        /\ \A j \in 1 .. p - 1 : Lanes!IsOob(Bar[j]) <=> Oob(kind, s[j])
    <3>1. \A j \in 1 .. p - 1 : j \in 1 .. n
      BY ONLY <1>1, <1>4
    <3> QED  BY <1>4, <2>1, <3>1
  <2>3. CASE disable_oob
    BY <1>3, <2>3 DEF Asked, Lanes!Eligible
  <2>4. CASE ~disable_oob /\ how = "DQ_FIRST"
    BY <1>3, <2>4 DEF Asked, Lanes!Eligible
  <2>5. CASE ~disable_oob /\ how = "DQ_OOB"
    BY <1>3, <2>2, <2>5 DEF Asked, Lanes!Eligible, Bar
  <2>6. CASE ~disable_oob /\ how = "DQ_INBAND"
    BY <1>3, <2>2, <2>6 DEF Asked, Lanes!Eligible, Bar
  <2> QED  BY <2>3, <2>4, <2>5, <2>6
<1>15. Lanes!Take(how)
  <2>1. p \in 1 .. Len(Bar)
    BY <1>4, <1>10
  <2>2. RemoveAt(Bar, p) = Lanes!RemoveAt(Bar, p)
    BY DEF RemoveAt, Lanes!RemoveAt
  <2>3. \E i \in 1 .. Len(Bar) :
          /\ Lanes!Eligible(i, how)
          /\ taken' = Lanes!Delivered(Bar[i])
          /\ Bar' = Lanes!RemoveAt(Bar, i)
          /\ UNCHANGED disable_oob
    BY <1>11, <1>13, <1>14, <2>1, <2>2
  <2> QED  BY <2>3 DEF Lanes!Take, Bar
<1>16. how \in Lanes!Hows
  BY DEF Lanes!Hows
<1> QED  BY <1>15, <1>16 DEF Lanes!Next

\* What leaves the fields of the lines alone leaves the sequence alone.
LEMMA BarStays == ASSUME IInv, UNCHANGED list PROVE Bar' = Bar
<1>1. PICK n, s : Shaped(n, s)
  BY DEF IInv, Lists, Queue, Shaped
<1>2. /\ UNCHANGED <<kind, next, next_itail, last_input, last_itail>>
      /\ Shaped(n, s)'
  BY <1>1 DEF list, heap, Shaped
<1>3. Bar = Pend(n, s, kind) /\ Bar' = Pend(n, s, kind')
  BY <1>1, <1>2, BarIs, BarIsNext
<1> QED  BY <1>2, <1>3

\* The queue of a new connection is the sequence of one line.
LEMMA LanesStart == Init => Lanes!Init
<1> SUFFICES ASSUME Init PROVE Lanes!Init
  OBVIOUS
<1>1. PICK t \in Addr :
        /\ kind = [a \in Addr |-> IF a = t THEN "INBAND" ELSE "NONE"]
        /\ next = [a \in Addr \cup {TQ} |-> IF a = TQ THEN t ELSE NULL]
  BY DEF Init
<1>2. PICK n, s : Shaped(n, s)
  BY Starts DEF IInv, Lists, Queue, Shaped
<1>3. /\ Chain(n, s) /\ kind \in [Addr -> Kinds \cup {"NONE"}]
      /\ n \in Nat /\ s[0] = TQ
      /\ \A i \in 1 .. n : s[i] \in Addr /\ next[s[i - 1]] = s[i]
  BY <1>2 DEF Shaped, Shape, Fields, Chain, Linked
<1>4. next[TQ] = t /\ next[t] = NULL /\ kind[t] = "INBAND" /\ NULL \notin Addr
  BY <1>1, AddrAssumption
<1>5. 1 \in 1 .. n
  <2>1. n # 0
    BY <1>2, <1>4, EmptyIs DEF Shaped
  <2> QED  BY ONLY <1>3, <2>1
<1>6. s[1] = t
  <2>1. next[s[1 - 1]] = s[1] /\ 1 - 1 = 0
    BY <1>3, <1>5
  <2> QED  BY <1>3, <1>4, <2>1
<1>7. n = 1
  <2>1. CASE 2 \in 1 .. n
    <3>1. next[s[2 - 1]] = s[2] /\ s[2] \in Addr /\ 2 - 1 = 1
      BY <1>3, <2>1
    <3> QED  BY <1>4, <1>6, <3>1
  <2> QED  BY <1>3, <1>5, <2>1
<1> DEFINE e == [id |-> t, kind |-> "INBAND"]
<1>8. Bar = <<e>>
  <2>1. /\ <<e>> \in Seq(Entries) /\ Len(<<e>>) = n
        /\ \A i \in 1 .. n : <<e>>[i] = [id |-> s[i], kind |-> kind[s[i]]]
    <3>1. e \in Entries
      BY DEF Entries, Kinds
    <3> HIDE DEF Entries
    <3>2. <<e>> \in Seq(Entries) /\ Len(<<e>>) = 1 /\ <<e>>[1] = e
      BY <3>1
    <3> QED  BY <1>4, <1>6, <1>7, <3>2
  <2>2. <<e>> = Pend(n, s, kind)
    <3>1. PICK q : q = <<e>>
      OBVIOUS
    <3>2. /\ q \in Seq(Entries) /\ Len(q) = n
          /\ \A i \in 1 .. n : q[i] = [id |-> s[i], kind |-> kind[s[i]]]
      BY <2>1, <3>1
    <3>3. q = Pend(n, s, kind)
      BY ONLY <1>3, <3>2, PendEqual
    <3> QED  BY <3>1, <3>3
  <2>3. Bar = Pend(n, s, kind)
    BY <1>2, BarIs
  <2> QED  BY <2>2, <2>3
<1>9. disable_oob = FALSE /\ taken = NoLine
  BY DEF Init
<1> QED  BY <1>8, <1>9 DEF Lanes!Init, Lanes!NoLine, NoLine, Bar

\* Every step is one of the sequence, or leaves it and what was taken alone.
LEMMA LanesStep ==
  ASSUME IInv, [Next]_vars
  PROVE  Lanes!Next \/ (UNCHANGED <<disable_oob, taken>> /\ Bar' = Bar)
<1>1. \A k \in LineKinds, len \in Lengths : k \in Kinds /\ len \in Nat
  BY LinesAssumption
<1>2. ASSUME UNCHANGED <<list, disable_oob, taken>>
      PROVE  UNCHANGED <<disable_oob, taken>> /\ Bar' = Bar
  BY <1>2, BarStays
<1>3. ASSUME NEW k \in LineKinds, NEW len \in Lengths, NewInputTask(k, len)
      PROVE  Lanes!Next
  BY <1>1, <1>3, EnqueueRefines DEF NewInputTask
<1>4. ASSUME NEW k \in LineKinds, NEW len \in Lengths, NEW f \in BOOLEAN,
             ForceInput(k, len, f)
      PROVE  Lanes!Next
  BY <1>1, <1>4, EnqueueRefines DEF ForceInput
<1>5. CASE StartFlush
  BY <1>2, <1>5 DEF StartFlush
<1>6. CASE FlushOne
  <2>1. CASE first_input = NULL
    BY <1>2, <1>6, <2>1 DEF FlushOne
  <2>2. CASE first_input # NULL
    BY <1>6, <2>2, DequeueRefines DEF FlushOne
  <2> QED  BY <2>1, <2>2
<1>7. ASSUME NEW b \in BOOLEAN, SetHoldInput(b)
      PROVE  UNCHANGED <<disable_oob, taken>> /\ Bar' = Bar
  BY <1>2, <1>7 DEF SetHoldInput
<1>8. ASSUME NEW b \in BOOLEAN, SetDisableOob(b) PROVE Lanes!Next
  <2>1. UNCHANGED <<list, taken>> /\ disable_oob' = b
    BY <1>8 DEF SetDisableOob
  <2>2. Bar' = Bar
    BY <2>1, BarStays
  <2>3. Lanes!SetDisableOob(b)
    BY <2>1, <2>2 DEF Lanes!SetDisableOob, Bar
  <2> QED  BY <2>3 DEF Lanes!Next
<1>9. CASE MakeReadingTask
  BY <1>2, <1>9 DEF MakeReadingTask
<1>10. CASE ReadInputNow
  BY <1>10, DequeueRefines DEF ReadInputNow
<1>11. CASE KillReading
  BY <1>2, <1>11 DEF KillReading
<1>12. CASE Disconnect
  BY <1>2, <1>12 DEF Disconnect
<1>13. CASE TurnOutOfInput
  BY <1>2, <1>13 DEF TurnOutOfInput
<1>14. CASE TurnInput
  <2>1. /\ DequeueInputTask(TurnHow) /\ UNCHANGED disable_oob
        /\ TurnHow \in {"DQ_FIRST", "DQ_OOB", "DQ_INBAND"}
    BY <1>14 DEF TurnInput, TurnHow
  <2> QED  BY <2>1, DequeueRefines
<1>15. CASE TurnNothing
  BY <1>2, <1>15 DEF TurnNothing
<1>16. CASE UNCHANGED vars
  <2>1. UNCHANGED <<list, disable_oob, taken>>
    BY <1>16 DEF vars, list
  <2> QED  BY <1>2, <2>1
<1> QED
  BY <1>3, <1>4, <1>5, <1>6, <1>7, <1>8, <1>9, <1>10, <1>11, <1>12, <1>13,
     <1>14, <1>15, <1>16 DEF Next, Turn

\* The whole queue of server/tasks.c, with its two linked lists and its
\* pointers to slots, implements the sequence of lines that InputLanes
\* promises: enqueue_input_task() appends a line or puts it in front, and
\* dequeue_input_task() takes the first line, or the first one of the lane
\* asked for, and hands it over as its kind and disable-oob say.
THEOREM QueueIsLanes == Spec => LanesSpec
<1>1. Init => Lanes!Init
  BY LanesStart
<1>2. IInv /\ [Next]_vars
        => [Lanes!Next]_<<Bar, disable_oob, taken>>
  BY LanesStep
<1>3. IInv /\ [Next]_vars
        => [Lanes!Next]_<<[i \in 1 .. Pending |->
                              [id |-> At[i], kind |-> kind[At[i]]]],
                          disable_oob, taken>>
  BY <1>2 DEF Bar
<1> QED  BY <1>1, <1>3, Invariant, PTL DEF Spec, LanesSpec, Lanes!Spec
=============================================================================
