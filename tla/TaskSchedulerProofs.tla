------------------------ MODULE TaskSchedulerProofs ------------------------
(***************************************************************************)
(* Proofs about module TaskScheduler, for every value of its constants.    *)
(*                                                                         *)
(* CoreInv is inductive by itself: the types, the blank state of addresses *)
(* where no queue is allocated, the active list and its head.  That no     *)
(* player has two queues is inductive relative to it.                      *)
(***************************************************************************)
EXTENDS TaskScheduler, SequenceTheorems, TLAPS

-----------------------------------------------------------------------------
(* Sequences *)

On(s, e) == \E i \in 1 .. Len(s) : s[i] = e
NoDup(s) == \A i, j \in 1 .. Len(s) : s[i] = s[j] => i = j

\* What InsertAt, by which queues and waiting tasks are linked in, returns.
LEMMA InsertAtElements ==
  ASSUME NEW S, NEW s \in Seq(S), NEW i \in 1 .. Len(s) + 1, NEW e \in S
  PROVE  /\ InsertAt(s, i, e) \in Seq(S)
         /\ Len(InsertAt(s, i, e)) = Len(s) + 1
         /\ \A k \in 1 .. Len(s) + 1 :
              InsertAt(s, i, e)[k] =
                IF k < i THEN s[k] ELSE IF k = i THEN e ELSE s[k - 1]
<1> DEFINE a == SubSeq(s, 1, i - 1)
           b == SubSeq(s, i, Len(s))
<1>1. /\ a \in Seq(S) /\ Len(a) = i - 1
      /\ \A k \in 1 .. i - 1 : a[k] = s[k]
  BY SubSeqProperties
<1>2. /\ b \in Seq(S) /\ Len(b) = Len(s) - i + 1
      /\ \A k \in 1 .. Len(s) - i + 1 : b[k] = s[i + k - 1]
  BY SubSeqProperties
<1>3. InsertAt(s, i, e) = a \o <<e>> \o b
  BY DEF InsertAt
<1> HIDE DEF a, b
<1> DEFINE c == a \o <<e>>
<1>4. /\ c \in Seq(S) /\ Len(c) = i
      /\ \A k \in 1 .. i : c[k] = IF k < i THEN s[k] ELSE e
  BY <1>1
<1> HIDE DEF c
<1>5. /\ c \o b \in Seq(S) /\ Len(c \o b) = Len(s) + 1
      /\ \A k \in 1 .. Len(s) + 1 :
           (c \o b)[k] = IF k <= i THEN c[k] ELSE b[k - i]
  BY <1>2, <1>4, ConcatProperties
<1>6. \A k \in 1 .. Len(s) + 1 :
        (c \o b)[k] = IF k < i THEN s[k] ELSE IF k = i THEN e ELSE s[k - 1]
  BY <1>2, <1>4, <1>5
<1>7. QED
  BY <1>3, <1>5, <1>6 DEF c

\* What RemoveAt, by which kill_task() and do_resume() unlink, returns.
LEMMA RemoveAtElements ==
  ASSUME NEW S, NEW s \in Seq(S), NEW i \in 1 .. Len(s)
  PROVE  /\ RemoveAt(s, i) \in Seq(S)
         /\ Len(RemoveAt(s, i)) = Len(s) - 1
         /\ \A k \in 1 .. Len(s) - 1 :
              RemoveAt(s, i)[k] = IF k < i THEN s[k] ELSE s[k + 1]
<1> DEFINE a == SubSeq(s, 1, i - 1)
           b == SubSeq(s, i + 1, Len(s))
<1>1. /\ a \in Seq(S) /\ Len(a) = i - 1
      /\ \A k \in 1 .. i - 1 : a[k] = s[k]
  BY SubSeqProperties
<1>2. /\ b \in Seq(S) /\ Len(b) = Len(s) - i
      /\ \A k \in 1 .. Len(s) - i : b[k] = s[i + k]
  BY SubSeqProperties
<1>3. RemoveAt(s, i) = a \o b
  BY DEF RemoveAt
<1> HIDE DEF a, b
<1>4. /\ a \o b \in Seq(S)
      /\ Len(a \o b) = Len(a) + Len(b)
      /\ \A k \in 1 .. Len(a) + Len(b) :
           (a \o b)[k] = IF k <= Len(a) THEN a[k] ELSE b[k - Len(a)]
  BY <1>1, <1>2, ConcatProperties
<1>5. Len(a) + Len(b) = Len(s) - 1
  BY <1>1, <1>2
<1>6. ASSUME NEW k \in 1 .. Len(s) - 1
      PROVE  (a \o b)[k] = IF k < i THEN s[k] ELSE s[k + 1]
  <2>1. CASE k < i
    <3>1. k <= Len(a) /\ k \in 1 .. i - 1
      BY <1>1, <2>1
    <3>2. QED  BY <1>1, <1>4, <1>5, <2>1, <3>1
  <2>2. CASE ~(k < i)
    <3>1. /\ ~(k <= Len(a))
          /\ k - Len(a) \in 1 .. Len(s) - i /\ i + (k - Len(a)) = k + 1
      BY <1>1, <2>2
    <3>2. b[k - Len(a)] = s[k + 1]
      BY <1>2, <3>1
    <3>3. (a \o b)[k] = b[k - Len(a)]
      BY <1>4, <1>5, <3>1
    <3>4. QED  BY <2>2, <3>2, <3>3
  <2>3. QED  BY <2>1, <2>2
<1>7. QED
  BY <1>3, <1>4, <1>5, <1>6

\* Inserting an element adds it and keeps the others.
LEMMA InsertAtOn ==
  ASSUME NEW S, NEW s \in Seq(S), NEW i \in 1 .. Len(s) + 1, NEW e \in S
  PROVE  /\ \A x : On(InsertAt(s, i, e), x) <=> On(s, x) \/ x = e
         /\ NoDup(s) /\ ~On(s, e) => NoDup(InsertAt(s, i, e))
<1> DEFINE t == InsertAt(s, i, e)
<1>a. t \in Seq(S) /\ Len(t) = Len(s) + 1
  BY InsertAtElements
<1>b. \A k \in 1 .. Len(s) + 1 :
        t[k] = IF k < i THEN s[k] ELSE IF k = i THEN e ELSE s[k - 1]
  BY InsertAtElements
<1> HIDE DEF t
<1>1. /\ t \in Seq(S) /\ Len(t) = Len(s) + 1
      /\ \A k \in 1 .. Len(s) + 1 :
           t[k] = IF k < i THEN s[k] ELSE IF k = i THEN e ELSE s[k - 1]
  BY <1>a, <1>b
<1>2. ASSUME NEW x, On(t, x) PROVE On(s, x) \/ x = e
  <2>1. PICK k \in 1 .. Len(s) + 1 : t[k] = x
    BY <1>1, <1>2 DEF On
  <2>2. CASE k < i
    <3>1. k \in 1 .. Len(s) /\ s[k] = x
      BY <1>1, <2>1, <2>2
    <3>2. QED  BY <3>1 DEF On
  <2>3. CASE k = i
    BY <1>1, <2>1, <2>3
  <2>4. CASE k > i
    <3>1. k - 1 \in 1 .. Len(s) /\ s[k - 1] = x
      BY <1>1, <2>1, <2>4
    <3>2. QED  BY <3>1 DEF On
  <2>5. QED  BY <2>2, <2>3, <2>4
<1>3. ASSUME NEW x, On(s, x) PROVE On(t, x)
  <2>1. PICK k \in 1 .. Len(s) : s[k] = x
    BY <1>3 DEF On
  <2>2. CASE k < i
    BY <1>1, <2>1, <2>2 DEF On
  <2>3. CASE k >= i
    <3>1. k + 1 \in 1 .. Len(t) /\ t[k + 1] = x
      BY <1>1, <2>1, <2>3
    <3>2. QED  BY <3>1 DEF On
  <2>4. QED  BY <2>2, <2>3
<1>4. On(t, e)
  BY <1>1 DEF On
<1>5. ASSUME NoDup(s), ~On(s, e) PROVE NoDup(t)
  <2> SUFFICES ASSUME NEW j \in 1 .. Len(t), NEW k \in 1 .. Len(t),
                      t[j] = t[k]
               PROVE  j = k
    BY DEF NoDup
  <2>1. \A m \in 1 .. Len(s) : s[m] # e
    BY <1>5 DEF On
  <2>2. CASE j < i /\ k < i
    BY <1>1, <1>5, <2>2 DEF NoDup
  <2>3. CASE j > i /\ k > i
    <3>1. /\ j - 1 \in 1 .. Len(s) /\ k - 1 \in 1 .. Len(s)
          /\ s[j - 1] = s[k - 1]
      BY <1>1, <2>3
    <3>2. QED  BY <1>5, <3>1 DEF NoDup
  <2>4. CASE j < i /\ k > i
    <3>1. k - 1 \in 1 .. Len(s) /\ j \in 1 .. Len(s) /\ s[j] = s[k - 1]
      BY <1>1, <2>4
    <3>2. QED  BY <1>5, <2>4, <3>1 DEF NoDup
  <2>5. CASE j > i /\ k < i
    <3>1. j - 1 \in 1 .. Len(s) /\ k \in 1 .. Len(s) /\ s[k] = s[j - 1]
      BY <1>1, <2>5
    <3>2. QED  BY <1>5, <2>5, <3>1 DEF NoDup
  <2>6. CASE j = i \/ k = i
    BY <1>1, <2>1, <2>6
  <2>7. QED  BY <1>1, <2>2, <2>3, <2>4, <2>5, <2>6
<1>6. QED
  BY <1>2, <1>3, <1>4, <1>5 DEF t

-----------------------------------------------------------------------------
(* The invariant *)

\* A FREE address looks like a queue find_tqueue() has just allocated.
FreeBlank ==
  \A q \in Tqs : player[q] = FREE =>
    /\ ~connected[q] /\ input[q] = 0 /\ reading[q] = NoTask
    /\ bg[q] = << >> /\ num_bg_tasks[q] = 0

CoreInv == TypeOK /\ FreeBlank /\ ActiveListExact /\ RunningIsHead

AtRun == phase \in {"prompt", "line", "bg"}

\* activate_tqueue() adds its queue, once, and nothing else; behind the head
\* unless the head has a greater usage.
LEMMA ActivatedList ==
  ASSUME NEW old \in Seq(Tqs), NEW new, NEW q \in Tqs, NEW u \in Nat,
         NEW us \in [Tqs -> Nat \cup {NO_USAGE}],
         Activated(old, new, q, u, us)
  PROVE  /\ new \in Seq(Tqs) /\ new # << >>
         /\ \A x : On(new, x) <=> On(old, x) \/ x = q
         /\ NoDup(old) /\ ~On(old, q) => NoDup(new)
         /\ old # << >> /\ us[Head(old)] <= u => Head(new) = Head(old)
<1>1. PICK i \in 1 .. Len(old) + 1 :
        /\ \A j \in 1 .. i - 1 : us[old[j]] <= u
        /\ i <= Len(old) => u < us[old[i]]
        /\ new = InsertAt(old, i, q)
  BY DEF Activated
<1>2. /\ new \in Seq(Tqs) /\ Len(new) = Len(old) + 1
      /\ \A k \in 1 .. Len(old) + 1 :
           new[k] = IF k < i THEN old[k] ELSE IF k = i THEN q ELSE old[k - 1]
  BY <1>1, InsertAtElements
<1>3. /\ \A x : On(new, x) <=> On(old, x) \/ x = q
      /\ NoDup(old) /\ ~On(old, q) => NoDup(new)
  BY <1>1, InsertAtOn
<1>4. ASSUME old # << >>, us[Head(old)] <= u PROVE Head(new) = Head(old)
  <2>1. Len(old) >= 1 /\ Head(old) = old[1] /\ old[1] \in Tqs
    BY <1>4
  <2>2. us[old[1]] \in Int
    BY <2>1 DEF NO_USAGE
  <2>3. i # 1
    BY <1>1, <1>4, <2>1, <2>2
  <2>4. new[1] = old[1] /\ new # << >>
    BY <1>2, <2>3
  <2>5. QED  BY <1>2, <2>1, <2>4
<1>5. new # << >>
  BY <1>2
<1>6. QED
  BY <1>2, <1>3, <1>4, <1>5

\* ensure_usage() keeps the list and the NO_USAGE marks in step, leaves q on
\* the list, and does not displace the head.
LEMMA EnsureUsageList ==
  ASSUME NEW q \in Tqs, TypeOK, ActiveListExact, EnsureUsage(q)
  PROVE  /\ usage' \in [Tqs -> Nat \cup {NO_USAGE}]
         /\ active_tqueues' \in Seq(Tqs) /\ active_tqueues' # << >>
         /\ NoDup(active_tqueues')
         /\ \A r \in Tqs : On(active_tqueues', r) <=> usage'[r] # NO_USAGE
         /\ \A r \in Tqs : On(active_tqueues', r)
                             <=> On(active_tqueues, r) \/ r = q
         /\ active_tqueues # << >>
              => Head(active_tqueues') = Head(active_tqueues)
<1>1. /\ usage \in [Tqs -> Nat \cup {NO_USAGE}]
      /\ active_tqueues \in Seq(Tqs) /\ NoDup(active_tqueues)
      /\ \A r \in Tqs : On(active_tqueues, r) <=> usage[r] # NO_USAGE
  BY DEF TypeOK, ActiveListExact, OnActive, On, NoDup
<1>2. CASE usage[q] # NO_USAGE
  <2>1. UNCHANGED <<usage, active_tqueues>>
    BY <1>2 DEF EnsureUsage
  <2>2. On(active_tqueues, q)
    BY <1>1, <1>2
  <2>3. active_tqueues # << >>
    BY <1>1, <2>2 DEF On
  <2>4. QED  BY <1>1, <2>1, <2>2, <2>3
<1>3. CASE usage[q] = NO_USAGE
  <2> DEFINE u == IF active_tqueues = << >> THEN 0
                  ELSE usage[Head(active_tqueues)]
  <2>1. /\ usage' = [usage EXCEPT ![q] = u]
        /\ Activated(active_tqueues, active_tqueues', q, u, usage)
    BY <1>3 DEF EnsureUsage
  <2>2. active_tqueues # << >> =>
          Head(active_tqueues) \in Tqs /\ On(active_tqueues, Head(active_tqueues))
    BY <1>1 DEF On
  <2>3. u \in Nat /\ (active_tqueues # << >> => usage[Head(active_tqueues)] <= u)
    BY <1>1, <2>2
  <2> HIDE DEF u
  <2>4. ~On(active_tqueues, q)
    BY <1>1, <1>3
  <2>5. /\ active_tqueues' \in Seq(Tqs) /\ active_tqueues' # << >>
        /\ \A x : On(active_tqueues', x) <=> On(active_tqueues, x) \/ x = q
        /\ NoDup(active_tqueues')
        /\ active_tqueues # << >>
             => Head(active_tqueues') = Head(active_tqueues)
    BY <1>1, <2>1, <2>3, <2>4, ActivatedList
  <2>6. \A r \in Tqs : On(active_tqueues', r) <=> usage'[r] # NO_USAGE
    BY <1>1, <2>1, <2>3, <2>5 DEF NO_USAGE
  <2>7. QED
    BY <1>1, <2>1, <2>3, <2>5, <2>6
<1>4. QED
  BY <1>2, <1>3

\* A step that leaves the active list alone keeps both facts about it.
LEMMA ListKept ==
  ASSUME TypeOK, ActiveListExact, RunningIsHead,
         UNCHANGED <<usage, active_tqueues>>,
         \A r \in Tqs : player[r] # FREE => player'[r] # FREE,
         AtRun' => AtRun /\ running_tq' = running_tq
  PROVE  ActiveListExact' /\ RunningIsHead'
<1>1. ActiveListExact'
  BY DEF ActiveListExact, OnActive
<1>2. RunningIsHead'
  BY DEF RunningIsHead, AtRun
<1>3. QED  BY <1>1, <1>2

\* So does a step that calls ensure_usage() on an allocated queue.
LEMMA ListEnsured ==
  ASSUME TypeOK, ActiveListExact, RunningIsHead,
         NEW q \in Tqs, EnsureUsage(q),
         \A r \in Tqs : player[r] # FREE \/ r = q => player'[r] # FREE,
         AtRun' => AtRun /\ running_tq' = running_tq
  PROVE  /\ ActiveListExact' /\ RunningIsHead'
         /\ usage' \in [Tqs -> Nat \cup {NO_USAGE}]
         /\ active_tqueues' \in Seq(Tqs)
<1>1. /\ usage' \in [Tqs -> Nat \cup {NO_USAGE}]
      /\ active_tqueues' \in Seq(Tqs) /\ active_tqueues' # << >>
      /\ NoDup(active_tqueues')
      /\ \A r \in Tqs : On(active_tqueues', r) <=> usage'[r] # NO_USAGE
      /\ \A r \in Tqs : On(active_tqueues', r)
                          <=> On(active_tqueues, r) \/ r = q
      /\ active_tqueues # << >>
           => Head(active_tqueues') = Head(active_tqueues)
  BY EnsureUsageList
<1>2. \A r \in Tqs : On(active_tqueues, r) => player[r] # FREE
  BY DEF ActiveListExact, OnActive, On
<1>3. ActiveListExact'
  BY <1>1, <1>2 DEF ActiveListExact, OnActive, On, NoDup
<1>4. RunningIsHead'
  BY <1>1 DEF RunningIsHead, AtRun
<1>5. QED  BY <1>1, <1>3, <1>4

\* So does a step that calls ensure_usage() under a condition.
LEMMA ListMaybeEnsured ==
  ASSUME TypeOK, ActiveListExact, RunningIsHead,
         NEW q \in Tqs, player[q] # FREE,
         EnsureUsage(q) \/ UNCHANGED <<usage, active_tqueues>>,
         \A r \in Tqs : player[r] # FREE => player'[r] # FREE,
         AtRun' => AtRun /\ running_tq' = running_tq
  PROVE  /\ ActiveListExact' /\ RunningIsHead'
         /\ usage' \in [Tqs -> Nat \cup {NO_USAGE}]
         /\ active_tqueues' \in Seq(Tqs)
<1>1. CASE EnsureUsage(q)
  BY <1>1, ListEnsured
<1>2. CASE UNCHANGED <<usage, active_tqueues>>
  BY <1>2, ListKept DEF TypeOK
<1>3. QED  BY <1>1, <1>2

\* The sets a queue's player is drawn from.
LEMMA NotFree ==
  ASSUME NEW p \in Players \cup {NOTHING}
  PROVE  p # FREE
BY SetsAssumption DEF Players

\* enqueue_waiting() keeps the types and blanks nothing.
LEMMA EnqueueWaitingCore ==
  ASSUME TypeOK, FreeBlank, NEW q \in Tqs, NEW id \in Ids,
         NEW rec \in TaskRec, EnqueueWaiting(q, id, rec)
  PROVE  /\ player' \in [Tqs -> Players \cup {NOTHING, FREE}]
         /\ num_bg_tasks' \in [Tqs -> Int]
         /\ waiting_tasks' \in Seq(Ids)
         /\ task' \in [Ids -> TaskRec]
         /\ \A r \in Tqs : player[r] # FREE => player'[r] # FREE
         /\ \A r \in Tqs : player'[r] = FREE =>
              player[r] = FREE /\ num_bg_tasks'[r] = num_bg_tasks[r]
<1>1. rec.progr \in Players \cup {NOTHING} /\ rec.progr # FREE
  BY NotFree DEF TaskRec
<1>2. waiting_tasks' \in Seq(Ids)
  <2>1. PICK i \in 1 .. Len(waiting_tasks) + 1 :
          waiting_tasks' = InsertAt(waiting_tasks, i, id)
    BY DEF EnqueueWaiting, WaitingInsert
  <2>2. QED  BY <2>1, InsertAtElements DEF TypeOK
<1>3. /\ player' = [player EXCEPT ![q] = rec.progr]
      /\ num_bg_tasks' = [num_bg_tasks EXCEPT ![q] = @ + 1]
      /\ task' = [task EXCEPT ![id] = rec]
  BY DEF EnqueueWaiting
<1>4. QED
  BY <1>1, <1>2, <1>3 DEF TypeOK

-----------------------------------------------------------------------------
(* Every step keeps CoreInv *)

\* The updates of task[] the actions make keep its type.
LEMMA TaskUpdates ==
  ASSUME task \in [Ids -> TaskRec], NEW id \in Ids
  PROVE  /\ NoTaskRec \in TaskRec
         /\ [task EXCEPT ![id] = NoTaskRec] \in [Ids -> TaskRec]
         /\ \A p \in Players :
              [task EXCEPT ![id].progr = p] \in [Ids -> TaskRec]
         /\ [task EXCEPT ![id].start = 0] \in [Ids -> TaskRec]
         /\ [kind |-> "SUSPENDED", progr |-> task[id].progr, start |-> 0]
              \in TaskRec
         /\ task[id].progr \in Players \cup {NOTHING}
         /\ task[id].progr # FREE
<1>1. task[id] \in TaskRec /\ NoTaskRec \in TaskRec
  BY BoundsAssumption DEF TaskRec, NoTaskRec, Kinds
<1>2. \A p \in Players : [task[id] EXCEPT !.progr = p] \in TaskRec
  BY <1>1 DEF TaskRec
<1>3. [task[id] EXCEPT !.start = 0] \in TaskRec
  BY <1>1, BoundsAssumption DEF TaskRec
<1>4. [kind |-> "SUSPENDED", progr |-> task[id].progr, start |-> 0]
        \in TaskRec
  BY <1>1, BoundsAssumption DEF TaskRec, Kinds
<1>5. task[id].progr \in Players \cup {NOTHING}
  BY <1>1 DEF TaskRec
<1>6. task[id].progr # FREE
  BY <1>5, NotFree
<1>7. QED
  BY <1>1, <1>2, <1>3, <1>4, <1>5, <1>6

\* A step that touches no queue.
LEMMA QueuesUnchanged ==
  ASSUME CoreInv, TypeOK', UNCHANGED queues,
         AtRun' => AtRun /\ running_tq' = running_tq
  PROVE  CoreInv'
<1>1. FreeBlank'
  BY DEF CoreInv, FreeBlank, queues
<1>2. ActiveListExact' /\ RunningIsHead'
  BY ListKept DEF CoreInv, queues
<1>3. QED  BY <1>1, <1>2 DEF CoreInv

\* A step that changes queues but neither the list nor who they belong to.
LEMMA QueuesKept ==
  ASSUME CoreInv, TypeOK', FreeBlank', UNCHANGED <<usage, active_tqueues>>,
         \A r \in Tqs : player[r] # FREE => player'[r] # FREE,
         AtRun' => AtRun /\ running_tq' = running_tq
  PROVE  CoreInv'
BY ListKept DEF CoreInv

\* A step of StartServerTask keeps CoreInv.
LEMMA StartServerTaskCore ==
  ASSUME CoreInv, NEW p \in Progrs, StartServerTask(p)
  PROVE  CoreInv'
<1>1. PICK id \in Ids :
        current_task_id' = id /\ task' = [task EXCEPT ![id].progr = p]
  BY DEF StartServerTask
<1>2. task' \in [Ids -> TaskRec]
  BY <1>1, SetsAssumption, TaskUpdates DEF CoreInv, TypeOK
<1>3. TypeOK'
  BY <1>1, <1>2 DEF StartServerTask, CoreInv, TypeOK, queues
<1>4. UNCHANGED queues /\ (AtRun' => AtRun /\ running_tq' = running_tq)
  BY DEF StartServerTask, queues, sched, AtRun
<1>5. QED  BY <1>3, <1>4, QueuesUnchanged

\* A step of Tick keeps CoreInv.
LEMMA TickCore ==
  ASSUME CoreInv, Tick
  PROVE  CoreInv'
<1>1. TypeOK'
  BY BoundsAssumption DEF Tick, CoreInv, TypeOK, queues, sched
<1>2. UNCHANGED queues /\ (AtRun' => AtRun /\ running_tq' = running_tq)
  BY DEF Tick, queues, sched, AtRun, Io
<1>3. QED  BY <1>1, <1>2, QueuesUnchanged

\* A step of RunReadyTasks keeps CoreInv.
LEMMA RunReadyTasksCore ==
  ASSUME CoreInv, RunReadyTasks
  PROVE  CoreInv'
<1>1. TypeOK'
  BY DEF RunReadyTasks, CoreInv, TypeOK, queues, sched, Phases
<1>2. UNCHANGED queues /\ (AtRun' => AtRun /\ running_tq' = running_tq)
  BY DEF RunReadyTasks, queues, sched, AtRun, Io
<1>3. QED  BY <1>1, <1>2, QueuesUnchanged

\* A step of MoveDone keeps CoreInv.
LEMMA MoveDoneCore ==
  ASSUME CoreInv, MoveDone
  PROVE  CoreInv'
<1>1. TypeOK'
  BY DEF MoveDone, CoreInv, TypeOK, queues, sched, Phases
<1>2. UNCHANGED queues /\ (AtRun' => AtRun /\ running_tq' = running_tq)
  BY DEF MoveDone, queues, sched, AtRun, Io
<1>3. QED  BY <1>1, <1>2, QueuesUnchanged

\* A step of PickNone keeps CoreInv.
LEMMA PickNoneCore ==
  ASSUME CoreInv, PickNone
  PROVE  CoreInv'
<1>1. TypeOK'
  BY DEF PickNone, CoreInv, TypeOK, queues, sched, Phases
<1>2. UNCHANGED queues /\ (AtRun' => AtRun /\ running_tq' = running_tq)
  BY DEF PickNone, queues, sched, AtRun, Io
<1>3. QED  BY <1>1, <1>2, QueuesUnchanged

\* A step of EmptyCommand keeps CoreInv.
LEMMA EmptyCommandCore ==
  ASSUME CoreInv, EmptyCommand
  PROVE  CoreInv'
<1>1. TypeOK'
  BY DEF EmptyCommand, CoreInv, TypeOK, queues, sched, Phases
<1>2. UNCHANGED queues /\ (AtRun' => AtRun /\ running_tq' = running_tq)
  BY DEF EmptyCommand, queues, sched, AtRun, Io
<1>3. QED  BY <1>1, <1>2, QueuesUnchanged

\* A step of Command keeps CoreInv.
LEMMA CommandCore ==
  ASSUME CoreInv, Command
  PROVE  CoreInv'
<1>1. TypeOK'
  BY DEF Command, CoreInv, TypeOK, queues, sched, Phases
<1>2. UNCHANGED queues /\ (AtRun' => AtRun /\ running_tq' = running_tq)
  BY DEF Command, queues, sched, AtRun, Io
<1>3. QED  BY <1>1, <1>2, QueuesUnchanged

\* A step of SweepDone keeps CoreInv.
LEMMA SweepDoneCore ==
  ASSUME CoreInv, SweepDone
  PROVE  CoreInv'
<1>1. TypeOK'
  BY DEF SweepDone, CoreInv, TypeOK, queues, sched, Phases
<1>2. UNCHANGED queues /\ (AtRun' => AtRun /\ running_tq' = running_tq)
  BY DEF SweepDone, queues, sched, AtRun, Io
<1>3. QED  BY <1>1, <1>2, QueuesUnchanged

\* A step of SuspendExternally keeps CoreInv.
LEMMA SuspendExternallyCore ==
  ASSUME CoreInv, SuspendExternally
  PROVE  CoreInv'
<1>1. TypeOK'
  BY DEF SuspendExternally, CoreInv, TypeOK, queues, sched, Running
<1>2. UNCHANGED queues /\ (AtRun' => AtRun /\ running_tq' = running_tq)
  BY DEF SuspendExternally, queues, sched, AtRun, Io
<1>3. QED  BY <1>1, <1>2, QueuesUnchanged

\* A step of KillExternal keeps CoreInv.
LEMMA KillExternalCore ==
  ASSUME CoreInv, NEW id \in Ids, KillExternal(id)
  PROVE  CoreInv'
<1>1. TypeOK'
  BY TaskUpdates DEF KillExternal, CoreInv, TypeOK, queues, sched, Forget
<1>2. UNCHANGED queues /\ (AtRun' => AtRun /\ running_tq' = running_tq)
  BY DEF KillExternal, queues, sched, AtRun, Io
<1>3. QED  BY <1>1, <1>2, QueuesUnchanged

\* A step of Finish keeps CoreInv.
LEMMA FinishCore ==
  ASSUME CoreInv, Finish
  PROVE  CoreInv'
<1>1. TypeOK'
  BY TaskUpdates DEF Finish, CoreInv, TypeOK, queues, sched, Forget, Running
<1>2. UNCHANGED queues /\ (AtRun' => AtRun /\ running_tq' = running_tq)
  BY DEF Finish, queues, sched, AtRun, Io
<1>3. QED  BY <1>1, <1>2, QueuesUnchanged

\* A step of LoadDone keeps CoreInv.
LEMMA LoadDoneCore ==
  ASSUME CoreInv, LoadDone
  PROVE  CoreInv'
<1>1. TypeOK'
  BY DEF LoadDone, CoreInv, TypeOK, queues, sched, Phases
<1>2. UNCHANGED queues /\ (AtRun' => AtRun /\ running_tq' = running_tq)
  BY DEF LoadDone, queues, sched, AtRun, Io
<1>3. QED  BY <1>1, <1>2, QueuesUnchanged

\* A step of FlushCommand keeps CoreInv.
LEMMA FlushCommandCore ==
  ASSUME CoreInv, NEW q \in Tqs, FlushCommand(q)
  PROVE  CoreInv'
<1>1. TypeOK'
  BY DEF FlushCommand, CoreInv, TypeOK, sched
<1>2. FreeBlank'
  BY DEF FlushCommand, CoreInv, TypeOK, FreeBlank
<1>3. /\ UNCHANGED <<usage, active_tqueues>>
      /\ \A r \in Tqs : player[r] # FREE => player'[r] # FREE
      /\ AtRun' => AtRun /\ running_tq' = running_tq
  BY DEF FlushCommand, CoreInv, TypeOK, sched, AtRun, Io
<1>4. QED  BY <1>1, <1>2, <1>3, QueuesKept

\* A step of ReadInputNow keeps CoreInv.
LEMMA ReadInputNowCore ==
  ASSUME CoreInv, NEW p \in Users \cup opened, ReadInputNow(p)
  PROVE  CoreInv'
<1>1. TypeOK'
  BY DEF ReadInputNow, CoreInv, TypeOK, sched
<1>2. FreeBlank'
  BY SetsAssumption DEF ReadInputNow, CoreInv, TypeOK, FreeBlank, Find,
      Players
<1>3. /\ UNCHANGED <<usage, active_tqueues>>
      /\ \A r \in Tqs : player[r] # FREE => player'[r] # FREE
      /\ AtRun' => AtRun /\ running_tq' = running_tq
  BY DEF ReadInputNow, CoreInv, TypeOK, sched, AtRun
<1>4. QED  BY <1>1, <1>2, <1>3, QueuesKept

\* A step of FlushInput keeps CoreInv.
LEMMA FlushInputCore ==
  ASSUME CoreInv, NEW p \in Users \cup opened, FlushInput(p)
  PROVE  CoreInv'
<1>1. TypeOK'
  BY SetsAssumption DEF FlushInput, CoreInv, TypeOK, sched, Players
<1>2. FreeBlank'
  BY SetsAssumption DEF FlushInput, CoreInv, TypeOK, FreeBlank, FindOrCreate,
      Find, Players
<1>3. /\ UNCHANGED <<usage, active_tqueues>>
      /\ \A r \in Tqs : player[r] # FREE => player'[r] # FREE
      /\ AtRun' => AtRun /\ running_tq' = running_tq
  BY SetsAssumption DEF FlushInput, CoreInv, TypeOK, sched, AtRun, Players
<1>4. QED  BY <1>1, <1>2, <1>3, QueuesKept

\* A step of KillReading keeps CoreInv.
LEMMA KillReadingCore ==
  ASSUME CoreInv, NEW q \in Tqs, KillReading(q)
  PROVE  CoreInv'
<1>1. TypeOK'
  BY TaskUpdates DEF KillReading, CoreInv, TypeOK, sched, Forget
<1>2. FreeBlank'
  BY DEF KillReading, CoreInv, TypeOK, FreeBlank
<1>3. /\ UNCHANGED <<usage, active_tqueues>>
      /\ \A r \in Tqs : player[r] # FREE => player'[r] # FREE
      /\ AtRun' => AtRun /\ running_tq' = running_tq
  BY DEF KillReading, CoreInv, TypeOK, sched, AtRun
<1>4. QED  BY <1>1, <1>2, <1>3, QueuesKept

\* The task being interpreted, and the record fork or suspend gives a task.
LEMMA MeType ==
  ASSUME TypeOK, Running
  PROVE  current_task_id \in Ids /\ Me \in Players \cup {NOTHING}
BY TaskUpdates DEF TypeOK, Running, Me

\* The record a forked or suspended task gets is one of TaskRec.
LEMMA NewTaskRec ==
  ASSUME TypeOK, NEW k \in Kinds, NEW p \in Players \cup {NOTHING},
         NEW d \in 0 .. MaxDelay
  PROVE  [kind |-> k, progr |-> p, start |-> clock + d] \in TaskRec
<1>1. clock + d \in 0 .. MaxTime + MaxDelay
  BY BoundsAssumption DEF TypeOK
<1>2. QED  BY <1>1 DEF TaskRec

\* A step of KillWaiting keeps CoreInv.
LEMMA KillWaitingCore ==
  ASSUME CoreInv, NEW i \in 1 .. Len(waiting_tasks), KillWaiting(i)
  PROVE  CoreInv'
<1> DEFINE id == waiting_tasks[i]
           owner == task[id].progr
<1>1. /\ num_bg_tasks' = [q \in Tqs |-> IF player[q] = owner
                                        THEN num_bg_tasks[q] - 1
                                        ELSE num_bg_tasks[q]]
      /\ waiting_tasks' = RemoveAt(waiting_tasks, i)
      /\ task' = [task EXCEPT ![id] = NoTaskRec]
  BY DEF KillWaiting, Forget
<1>2. TypeOK /\ FreeBlank /\ id \in Ids
  BY DEF CoreInv, TypeOK
<1> HIDE DEF id
<1>3. task' \in [Ids -> TaskRec] /\ owner # FREE
  BY <1>1, <1>2, TaskUpdates DEF TypeOK
<1>4. waiting_tasks' \in Seq(Ids)
  BY <1>1, <1>2, RemoveAtElements DEF TypeOK
<1> HIDE DEF owner
<1>5. num_bg_tasks' \in [Tqs -> Int]
  BY <1>1, <1>2 DEF TypeOK
<1>6. TypeOK'
  BY <1>2, <1>3, <1>4, <1>5 DEF KillWaiting, TypeOK, sched
<1>7. FreeBlank'
  BY <1>1, <1>2, <1>3 DEF KillWaiting, FreeBlank
<1>8. /\ UNCHANGED <<usage, active_tqueues>>
      /\ \A r \in Tqs : player[r] # FREE => player'[r] # FREE
      /\ AtRun' => AtRun /\ running_tq' = running_tq
  BY DEF KillWaiting, sched, AtRun
<1>9. QED  BY <1>6, <1>7, <1>8, QueuesKept

\* A step of KillBg keeps CoreInv.
LEMMA KillBgCore ==
  ASSUME CoreInv, NEW q \in Tqs, NEW i \in 1 .. Len(bg[q]), KillBg(q, i)
  PROVE  CoreInv'
<1>1. TypeOK /\ FreeBlank /\ bg[q][i] \in Ids
  BY DEF CoreInv, TypeOK
<1>2. task' \in [Ids -> TaskRec]
  BY <1>1, TaskUpdates DEF KillBg, Forget, TypeOK
<1>3. RemoveAt(bg[q], i) \in Seq(Ids)
  BY <1>1, RemoveAtElements DEF TypeOK
<1>4. bg' \in [Tqs -> Seq(Ids)] /\ num_bg_tasks' \in [Tqs -> Int]
  BY <1>1, <1>3 DEF KillBg, TypeOK
<1>5. TypeOK'
  BY <1>1, <1>2, <1>4 DEF KillBg, TypeOK, sched
<1>6. FreeBlank'
  BY <1>1 DEF KillBg, CoreInv, TypeOK, FreeBlank, ActiveListExact
<1>7. /\ UNCHANGED <<usage, active_tqueues>>
      /\ \A r \in Tqs : player[r] # FREE => player'[r] # FREE
      /\ AtRun' => AtRun /\ running_tq' = running_tq
  BY DEF KillBg, sched, AtRun
<1>8. QED  BY <1>5, <1>6, <1>7, QueuesKept

\* A step of Fork keeps CoreInv.
LEMMA ForkCore ==
  ASSUME CoreInv, NEW delay \in 0 .. MaxDelay, Fork(delay)
  PROVE  CoreInv'
<1>1. PICK q \in Tqs, id \in Ids : EnqueueWaiting(q, id,
          [kind |-> "FORKED", progr |-> Me, start |-> clock + delay])
  BY DEF Fork
<1>2. id \in Ids
  BY <1>1 DEF Fork, CoreInv, TypeOK, Running
<1>3. [kind |-> "FORKED", progr |-> Me, start |-> clock + delay]
        \in TaskRec
  BY MeType, NewTaskRec DEF CoreInv, Fork, Kinds
<1>4. /\ player' \in [Tqs -> Players \cup {NOTHING, FREE}]
      /\ num_bg_tasks' \in [Tqs -> Int]
      /\ waiting_tasks' \in Seq(Ids)
      /\ task' \in [Ids -> TaskRec]
      /\ \A r \in Tqs : player[r] # FREE => player'[r] # FREE
      /\ \A r \in Tqs : player'[r] = FREE =>
           player[r] = FREE /\ num_bg_tasks'[r] = num_bg_tasks[r]
  BY <1>1, <1>2, <1>3, EnqueueWaitingCore DEF CoreInv
<1>5. TypeOK'
  BY <1>4 DEF Fork, CoreInv, TypeOK, sched
<1>6. FreeBlank'
  BY <1>4 DEF Fork, CoreInv, FreeBlank
<1>7. UNCHANGED <<usage, active_tqueues>>
      /\ (AtRun' => AtRun /\ running_tq' = running_tq)
  BY DEF Fork, sched, AtRun
<1>8. QED  BY <1>4, <1>5, <1>6, <1>7, QueuesKept

\* A step of Suspend keeps CoreInv.
LEMMA SuspendCore ==
  ASSUME CoreInv, NEW delay \in 0 .. MaxDelay, Suspend(delay)
  PROVE  CoreInv'
<1>1. PICK q \in Tqs : EnqueueWaiting(q, current_task_id,
          [kind |-> "SUSPENDED", progr |-> Me, start |-> clock + delay])
  BY DEF Suspend
<1>2. current_task_id \in Ids
  BY <1>1 DEF Suspend, CoreInv, TypeOK, Running
<1>3. [kind |-> "SUSPENDED", progr |-> Me, start |-> clock + delay]
        \in TaskRec
  BY MeType, NewTaskRec DEF CoreInv, Suspend, Kinds
<1>4. /\ player' \in [Tqs -> Players \cup {NOTHING, FREE}]
      /\ num_bg_tasks' \in [Tqs -> Int]
      /\ waiting_tasks' \in Seq(Ids)
      /\ task' \in [Ids -> TaskRec]
      /\ \A r \in Tqs : player[r] # FREE => player'[r] # FREE
      /\ \A r \in Tqs : player'[r] = FREE =>
           player[r] = FREE /\ num_bg_tasks'[r] = num_bg_tasks[r]
  BY <1>1, <1>2, <1>3, EnqueueWaitingCore DEF CoreInv
<1>5. TypeOK'
  BY <1>4 DEF Suspend, CoreInv, TypeOK, sched
<1>6. FreeBlank'
  BY <1>4 DEF Suspend, CoreInv, FreeBlank
<1>7. UNCHANGED <<usage, active_tqueues>>
      /\ (AtRun' => AtRun /\ running_tq' = running_tq)
  BY DEF Suspend, sched, AtRun
<1>8. QED  BY <1>4, <1>5, <1>6, <1>7, QueuesKept

\* A step of LoadTask keeps CoreInv.
LEMMA LoadTaskCore ==
  ASSUME CoreInv, LoadTask
  PROVE  CoreInv'
<1>1. PICK q \in Tqs, id \in Ids : EnqueueWaiting(q, id,
          task[id])
  BY DEF LoadTask
<1>2. id \in Ids
  BY <1>1 DEF LoadTask, CoreInv, TypeOK, Running
<1>3. task[id]
        \in TaskRec
  BY <1>2 DEF CoreInv, TypeOK
<1>4. /\ player' \in [Tqs -> Players \cup {NOTHING, FREE}]
      /\ num_bg_tasks' \in [Tqs -> Int]
      /\ waiting_tasks' \in Seq(Ids)
      /\ task' \in [Ids -> TaskRec]
      /\ \A r \in Tqs : player[r] # FREE => player'[r] # FREE
      /\ \A r \in Tqs : player'[r] = FREE =>
           player[r] = FREE /\ num_bg_tasks'[r] = num_bg_tasks[r]
  BY <1>1, <1>2, <1>3, EnqueueWaitingCore DEF CoreInv
<1>5. TypeOK'
  BY <1>4 DEF LoadTask, CoreInv, TypeOK, sched
<1>6. FreeBlank'
  BY <1>4 DEF LoadTask, CoreInv, FreeBlank
<1>7. UNCHANGED <<usage, active_tqueues>>
      /\ (AtRun' => AtRun /\ running_tq' = running_tq)
  BY DEF LoadTask, sched, AtRun
<1>8. QED  BY <1>4, <1>5, <1>6, <1>7, QueuesKept

\* A step of NewConnection keeps CoreInv.
LEMMA NewConnectionCore ==
  ASSUME CoreInv, NEW c \in Conns, NewConnection(c)
  PROVE  CoreInv'
<1>1. TypeOK /\ FreeBlank /\ ActiveListExact /\ RunningIsHead
  BY DEF CoreInv
<1>2. UNCHANGED <<reading, bg, num_bg_tasks, waiting_tasks, external_queue,
    task, sched, disk, clock>>
  BY DEF NewConnection
<1>3. PICK q \in Tqs :
        /\ player' = [player EXCEPT ![q] = c]
        /\ connected' = [connected EXCEPT ![q] = TRUE]
        /\ input' = [input EXCEPT ![q] = @ + 1]
        /\ EnsureUsage(q)
  BY DEF NewConnection
<1>4. phase = "io" /\ opened' \subseteq Conns
  BY <1>1, <1>3 DEF TypeOK, NewConnection, Io
<1>5. /\ \A r \in Tqs : player[r] # FREE \/ r = q => player'[r] # FREE
      /\ AtRun' => AtRun /\ running_tq' = running_tq
  BY <1>1, <1>2, <1>3, <1>4, SetsAssumption DEF TypeOK, sched, AtRun, Players
<1>6. /\ ActiveListExact' /\ RunningIsHead'
      /\ usage' \in [Tqs -> Nat \cup {NO_USAGE}]
      /\ active_tqueues' \in Seq(Tqs)
  BY <1>1, <1>3, <1>5, ListEnsured
<1>7. /\ player' \in [Tqs -> Players \cup {NOTHING, FREE}]
      /\ connected' \in [Tqs -> BOOLEAN]
      /\ input' \in [Tqs -> Nat]
  BY <1>1, <1>3, <1>4 DEF TypeOK, Players
<1>8. TypeOK'
  BY <1>1, <1>2, <1>4, <1>6, <1>7 DEF TypeOK, sched
<1>9. FreeBlank'
  BY <1>1, <1>2, <1>3, <1>4, <1>5 DEF TypeOK, FreeBlank
<1>10. QED  BY <1>6, <1>8, <1>9 DEF CoreInv

\* A step of InputLine keeps CoreInv.
LEMMA InputLineCore ==
  ASSUME CoreInv, NEW q \in Tqs, InputLine(q)
  PROVE  CoreInv'
<1>1. TypeOK /\ FreeBlank /\ ActiveListExact /\ RunningIsHead
  BY DEF CoreInv
<1>2. UNCHANGED <<player, connected, reading, bg, num_bg_tasks, waiting_tasks,
    external_queue, task, sched, disk, opened, clock>>
  BY DEF InputLine
<1>3. /\ connected[q] /\ input' = [input EXCEPT ![q] = @ + 1]
      /\ EnsureUsage(q)
  BY DEF InputLine
<1>4. /\ \A r \in Tqs : player[r] # FREE \/ r = q => player'[r] # FREE
      /\ AtRun' => AtRun /\ running_tq' = running_tq
  BY <1>1, <1>2, <1>3 DEF TypeOK, sched, AtRun, FreeBlank
<1>5. /\ ActiveListExact' /\ RunningIsHead'
      /\ usage' \in [Tqs -> Nat \cup {NO_USAGE}]
      /\ active_tqueues' \in Seq(Tqs)
  BY <1>1, <1>3, <1>4, ListEnsured
<1>6. input' \in [Tqs -> Nat]
  BY <1>1, <1>3 DEF TypeOK
<1>7. TypeOK'
  BY <1>1, <1>2, <1>5, <1>6 DEF TypeOK, sched
<1>8. FreeBlank'
  BY <1>1, <1>2, <1>3, <1>4 DEF TypeOK, FreeBlank
<1>9. QED  BY <1>5, <1>7, <1>8 DEF CoreInv

\* A step of FreeTaskQueue keeps CoreInv.
LEMMA FreeTaskQueueCore ==
  ASSUME CoreInv, NEW q \in Tqs, FreeTaskQueue(q)
  PROVE  CoreInv'
<1>1. TypeOK /\ FreeBlank /\ ActiveListExact /\ RunningIsHead
  BY DEF CoreInv
<1>2. UNCHANGED <<player, input, reading, bg, num_bg_tasks, waiting_tasks,
    external_queue, task, sched, disk, opened, clock>>
  BY DEF FreeTaskQueue
<1>3. /\ connected[q] /\ connected' = [connected EXCEPT ![q] = FALSE]
      /\ EnsureUsage(q) \/ UNCHANGED <<usage, active_tqueues>>
  BY DEF FreeTaskQueue, EnsureUsageIf
<1>4. /\ player[q] # FREE
      /\ \A r \in Tqs : player[r] # FREE => player'[r] # FREE
      /\ AtRun' => AtRun /\ running_tq' = running_tq
  BY <1>1, <1>2, <1>3 DEF TypeOK, sched, AtRun, FreeBlank
<1>5. /\ ActiveListExact' /\ RunningIsHead'
      /\ usage' \in [Tqs -> Nat \cup {NO_USAGE}]
      /\ active_tqueues' \in Seq(Tqs)
  BY <1>1, <1>3, <1>4, ListMaybeEnsured
<1>6. connected' \in [Tqs -> BOOLEAN]
  BY <1>1, <1>3 DEF TypeOK
<1>7. TypeOK'
  BY <1>1, <1>2, <1>5, <1>6 DEF TypeOK, sched
<1>8. FreeBlank'
  BY <1>1, <1>2, <1>3, <1>4 DEF TypeOK, FreeBlank
<1>9. QED  BY <1>5, <1>7, <1>8 DEF CoreInv

\* A step of ResumeExternal keeps CoreInv.
LEMMA ResumeExternalCore ==
  ASSUME CoreInv, NEW id \in Ids, ResumeExternal(id)
  PROVE  CoreInv'
<1>1. TypeOK /\ FreeBlank /\ ActiveListExact /\ RunningIsHead
  BY DEF CoreInv
<1>2. UNCHANGED <<connected, input, reading, num_bg_tasks, waiting_tasks,
    sched, disk, opened, clock>>
  BY DEF ResumeExternal
<1>3. PICK q \in Tqs :
        /\ player' = [player EXCEPT ![q] = task[id].progr]
        /\ bg' = [bg EXCEPT ![q] = Append(@, id)]
        /\ EnsureUsage(q)
  BY DEF ResumeExternal
<1>4. /\ task[id].progr \in Players \cup {NOTHING} /\ task[id].progr # FREE
      /\ task' \in [Ids -> TaskRec] /\ external_queue' \subseteq Ids
  BY <1>1, <1>3, TaskUpdates DEF TypeOK, ResumeExternal
<1>5. /\ \A r \in Tqs : player[r] # FREE \/ r = q => player'[r] # FREE
      /\ AtRun' => AtRun /\ running_tq' = running_tq
  BY <1>1, <1>2, <1>3, <1>4 DEF TypeOK, sched, AtRun
<1>6. /\ ActiveListExact' /\ RunningIsHead'
      /\ usage' \in [Tqs -> Nat \cup {NO_USAGE}]
      /\ active_tqueues' \in Seq(Tqs)
  BY <1>1, <1>3, <1>5, ListEnsured
<1>7. /\ player' \in [Tqs -> Players \cup {NOTHING, FREE}]
      /\ bg' \in [Tqs -> Seq(Ids)]
  BY <1>1, <1>3, <1>4 DEF TypeOK
<1>8. TypeOK'
  BY <1>1, <1>2, <1>4, <1>6, <1>7 DEF TypeOK, sched
<1>9. FreeBlank'
  BY <1>1, <1>2, <1>3, <1>4, <1>5 DEF TypeOK, FreeBlank
<1>10. QED  BY <1>6, <1>8, <1>9 DEF CoreInv

\* A step of MoveDue keeps CoreInv.
LEMMA MoveDueCore ==
  ASSUME CoreInv, MoveDue
  PROVE  CoreInv'
<1>1. TypeOK /\ FreeBlank /\ ActiveListExact /\ RunningIsHead
  BY DEF CoreInv
<1>2. UNCHANGED <<connected, input, reading, num_bg_tasks, external_queue,
    task, sched, disk, opened, clock>>
  BY DEF MoveDue
<1>3. PICK q \in Tqs :
        /\ player' = [player EXCEPT ![q] = task[Head(waiting_tasks)].progr]
        /\ EnsureUsage(q)
        /\ bg' = [bg EXCEPT ![q] = Append(@, Head(waiting_tasks))]
  BY DEF MoveDue
<1>4. Head(waiting_tasks) \in Ids /\ waiting_tasks' \in Seq(Ids)
  BY <1>1, <1>3, HeadTailProperties DEF TypeOK, MoveDue, Due
<1>5. LET p == task[Head(waiting_tasks)].progr
      IN p \in Players \cup {NOTHING} /\ p # FREE
  BY <1>1, <1>3, <1>4, TaskUpdates DEF TypeOK
<1>6. /\ \A r \in Tqs : player[r] # FREE \/ r = q => player'[r] # FREE
      /\ AtRun' => AtRun /\ running_tq' = running_tq
  BY <1>1, <1>2, <1>3, <1>4, <1>5 DEF TypeOK, sched, AtRun
<1>7. /\ ActiveListExact' /\ RunningIsHead'
      /\ usage' \in [Tqs -> Nat \cup {NO_USAGE}]
      /\ active_tqueues' \in Seq(Tqs)
  BY <1>1, <1>3, <1>6, ListEnsured
<1>8. /\ player' \in [Tqs -> Players \cup {NOTHING, FREE}]
      /\ bg' \in [Tqs -> Seq(Ids)]
  BY <1>1, <1>3, <1>4, <1>5 DEF TypeOK
<1>9. TypeOK'
  BY <1>1, <1>2, <1>4, <1>5, <1>7, <1>8 DEF TypeOK, sched
<1>10. FreeBlank'
  BY <1>1, <1>2, <1>3, <1>4, <1>5, <1>6 DEF TypeOK, FreeBlank
<1>11. QED  BY <1>7, <1>9, <1>10 DEF CoreInv

\* A step of DoResume keeps CoreInv.
LEMMA DoResumeCore ==
  ASSUME CoreInv, NEW i \in 1 .. Len(waiting_tasks), DoResume(i)
  PROVE  CoreInv'
<1>1. TypeOK /\ FreeBlank /\ ActiveListExact /\ RunningIsHead
  BY DEF CoreInv
<1>2. UNCHANGED <<connected, input, reading, num_bg_tasks, external_queue,
    sched, disk, opened, clock>>
  BY DEF DoResume
<1>3. PICK q \in Tqs :
        /\ player' = [player EXCEPT ![q] = task[waiting_tasks[i]].progr]
        /\ EnsureUsage(q)
        /\ bg' = [bg EXCEPT ![q] = Append(@, waiting_tasks[i])]
  BY DEF DoResume
<1>4. waiting_tasks[i] \in Ids /\ waiting_tasks' \in Seq(Ids)
  BY <1>1, <1>3, RemoveAtElements DEF TypeOK, DoResume
<1>5. LET p == task[waiting_tasks[i]].progr
      IN p \in Players \cup {NOTHING} /\ p # FREE
  BY <1>1, <1>3, <1>4, TaskUpdates DEF TypeOK
<1>6. task' \in [Ids -> TaskRec]
  BY <1>1, <1>3, <1>4, <1>5, TaskUpdates DEF TypeOK, DoResume
<1>7. /\ \A r \in Tqs : player[r] # FREE \/ r = q => player'[r] # FREE
      /\ AtRun' => AtRun /\ running_tq' = running_tq
  BY <1>1, <1>2, <1>3, <1>4, <1>5, <1>6 DEF TypeOK, sched, AtRun
<1>8. /\ ActiveListExact' /\ RunningIsHead'
      /\ usage' \in [Tqs -> Nat \cup {NO_USAGE}]
      /\ active_tqueues' \in Seq(Tqs)
  BY <1>1, <1>3, <1>7, ListEnsured
<1>9. /\ player' \in [Tqs -> Players \cup {NOTHING, FREE}]
      /\ bg' \in [Tqs -> Seq(Ids)]
  BY <1>1, <1>3, <1>4, <1>5, <1>6 DEF TypeOK
<1>10. TypeOK'
  BY <1>1, <1>2, <1>4, <1>5, <1>6, <1>8, <1>9 DEF TypeOK, sched
<1>11. FreeBlank'
  BY <1>1, <1>2, <1>3, <1>4, <1>5, <1>6, <1>7 DEF TypeOK, FreeBlank
<1>12. QED  BY <1>8, <1>10, <1>11 DEF CoreInv

\* A step of MakeReadingTask keeps CoreInv.
LEMMA MakeReadingTaskCore ==
  ASSUME CoreInv, NEW p \in Users \cup opened, MakeReadingTask(p)
  PROVE  CoreInv'
<1>1. TypeOK /\ FreeBlank /\ ActiveListExact /\ RunningIsHead
  BY DEF CoreInv
<1>2. UNCHANGED <<player, connected, input, bg, num_bg_tasks, waiting_tasks,
    external_queue, task, phase, running_tq, disk, opened, clock>>
  BY DEF MakeReadingTask
<1>3. PICK q \in Tqs :
        /\ Find(q, p)
        /\ reading' = [reading EXCEPT ![q] = current_task_id]
        /\ EnsureUsage(q) \/ UNCHANGED <<usage, active_tqueues>>
  BY DEF MakeReadingTask, EnsureUsageIf
<1>4. current_task_id' \in Ids \cup {NoTask}
  BY <1>1, <1>3 DEF TypeOK, MakeReadingTask
<1>5. /\ player[q] # FREE
      /\ \A r \in Tqs : player[r] # FREE => player'[r] # FREE
      /\ AtRun' => AtRun /\ running_tq' = running_tq
  BY <1>1, <1>2, <1>3, <1>4, SetsAssumption DEF TypeOK, sched, AtRun, Find,
      Players
<1>6. /\ ActiveListExact' /\ RunningIsHead'
      /\ usage' \in [Tqs -> Nat \cup {NO_USAGE}]
      /\ active_tqueues' \in Seq(Tqs)
  BY <1>1, <1>3, <1>5, ListMaybeEnsured
<1>7. reading' \in [Tqs -> Ids \cup {NoTask}]
  BY <1>1, <1>3, <1>4 DEF TypeOK
<1>8. TypeOK'
  BY <1>1, <1>2, <1>4, <1>6, <1>7 DEF TypeOK, sched
<1>9. FreeBlank'
  BY <1>1, <1>2, <1>3, <1>4, <1>5 DEF TypeOK, FreeBlank
<1>10. QED  BY <1>6, <1>8, <1>9 DEF CoreInv

\* A step of ForceInput keeps CoreInv.
LEMMA ForceInputCore ==
  ASSUME CoreInv, NEW p \in Users \cup opened, ForceInput(p)
  PROVE  CoreInv'
<1>1. TypeOK /\ FreeBlank /\ ActiveListExact /\ RunningIsHead
  BY DEF CoreInv
<1>2. UNCHANGED <<connected, reading, bg, num_bg_tasks, waiting_tasks,
    external_queue, task, sched, disk, opened, clock>>
  BY DEF ForceInput
<1>3. PICK q \in Tqs :
        /\ player' = [player EXCEPT ![q] = p]
        /\ input' = [input EXCEPT ![q] = @ + 1]
        /\ EnsureUsage(q)
  BY DEF ForceInput
<1>4. /\ \A r \in Tqs : player[r] # FREE \/ r = q => player'[r] # FREE
      /\ AtRun' => AtRun /\ running_tq' = running_tq
  BY <1>1, <1>2, <1>3, SetsAssumption DEF TypeOK, sched, AtRun, Players
<1>5. /\ ActiveListExact' /\ RunningIsHead'
      /\ usage' \in [Tqs -> Nat \cup {NO_USAGE}]
      /\ active_tqueues' \in Seq(Tqs)
  BY <1>1, <1>3, <1>4, ListEnsured
<1>6. /\ player' \in [Tqs -> Players \cup {NOTHING, FREE}]
      /\ input' \in [Tqs -> Nat]
  BY <1>1, <1>3 DEF TypeOK, Players
<1>7. TypeOK'
  BY <1>1, <1>2, <1>5, <1>6 DEF TypeOK, sched
<1>8. FreeBlank'
  BY <1>1, <1>2, <1>3, <1>4 DEF TypeOK, FreeBlank
<1>9. QED  BY <1>5, <1>7, <1>8 DEF CoreInv

\* A step of FreeTqueue keeps CoreInv.
LEMMA FreeTqueueCore ==
  ASSUME CoreInv, NEW q \in Tqs, FreeTqueue(q)
  PROVE  CoreInv'
<1>1. TypeOK /\ FreeBlank /\ ActiveListExact /\ RunningIsHead
  BY DEF CoreInv
<1>2. TypeOK'
  <2>1. task' \in [Ids -> TaskRec]
    BY <1>1, TaskUpdates DEF FreeTqueue, TypeOK
  <2>2. QED  BY <1>1, <2>1 DEF FreeTqueue, TypeOK, sched
<1>3. FreeBlank'
  BY <1>1 DEF FreeTqueue, Unneeded, TypeOK, FreeBlank
<1>4. ActiveListExact'
  BY <1>1 DEF FreeTqueue, Unneeded, TypeOK, ActiveListExact, OnActive
<1>5. RunningIsHead'
  BY <1>1 DEF FreeTqueue, RunningIsHead, sched
<1>6. QED  BY <1>2, <1>3, <1>4, <1>5 DEF CoreInv

\* The head of the active list is an allocated queue.
LEMMA HeadIsQueue ==
  ASSUME TypeOK, ActiveListExact, active_tqueues # << >>
  PROVE  /\ Head(active_tqueues) \in Tqs
         /\ player[Head(active_tqueues)] # FREE
         /\ usage[Head(active_tqueues)] \in Nat
<1>1. Head(active_tqueues) \in Tqs /\ OnActive(Head(active_tqueues))
  BY DEF TypeOK, OnActive
<1>2. QED  BY <1>1 DEF TypeOK, ActiveListExact

\* A step that starts a task of the first queue.
LEMMA PickHead ==
  ASSUME TypeOK, ActiveListExact, active_tqueues # << >>,
         UNCHANGED <<player, usage, active_tqueues>>,
         running_tq' = Head(active_tqueues)
  PROVE  ActiveListExact' /\ RunningIsHead'
BY DEF ActiveListExact, RunningIsHead, OnActive

\* A step of PickOutOfInput keeps CoreInv.
LEMMA PickOutOfInputCore ==
  ASSUME CoreInv, PickOutOfInput
  PROVE  CoreInv'
<1>1. TypeOK /\ FreeBlank /\ ActiveListExact
  BY DEF CoreInv
<1>2. Head(active_tqueues) \in Tqs /\ player[Head(active_tqueues)] # FREE
  BY <1>1, HeadIsQueue DEF PickOutOfInput
<1>3. TypeOK'
  BY <1>1, <1>2 DEF PickOutOfInput, TypeOK, Phases
<1>4. FreeBlank'
  BY <1>1, <1>2 DEF PickOutOfInput, TypeOK, FreeBlank
<1>5. ActiveListExact' /\ RunningIsHead'
  BY <1>1, PickHead DEF PickOutOfInput
<1>6. QED  BY <1>3, <1>4, <1>5 DEF CoreInv

\* A step of PickInput keeps CoreInv.
LEMMA PickInputCore ==
  ASSUME CoreInv, NEW q \in Tqs, PickInput(q)
  PROVE  CoreInv'
<1>1. TypeOK /\ FreeBlank /\ ActiveListExact
  BY DEF CoreInv
<1>2. active_tqueues # << >> /\ q = Head(active_tqueues)
  BY DEF PickInput, AtHead
<1>3. player[q] # FREE
  BY <1>1, <1>2, HeadIsQueue
<1>4. /\ task' \in [Ids -> TaskRec]
      /\ current_task_id' \in Ids \cup {NoTask}
      /\ reading' \in [Tqs -> Ids \cup {NoTask}]
      /\ phase' \in Phases
      /\ \A r \in Tqs : reading[r] = NoTask => reading'[r] = NoTask
  <2>1. CASE reading[q] # NoTask
    BY <1>1, <2>1 DEF PickInput, TypeOK, Phases
  <2>2. CASE UNCHANGED <<reading, task, current_task_id>>
    BY <1>1, <2>2 DEF PickInput, TypeOK, Phases
  <2>3. CASE /\ UNCHANGED reading
             /\ \E id \in Ids, p \in Progrs :
                  /\ current_task_id' = id
                  /\ task' = [task EXCEPT ![id].progr = p]
    <3>0. PICK id \in Ids, p \in Progrs :
            current_task_id' = id /\ task' = [task EXCEPT ![id].progr = p]
      BY <2>3
    <3>1. task' \in [Ids -> TaskRec] /\ current_task_id' \in Ids
      BY <1>1, <3>0, TaskUpdates, SetsAssumption DEF TypeOK
    <3>2. phase' \in Phases
      BY DEF PickInput, Phases
    <3>3. QED  BY <1>1, <2>3, <3>1, <3>2 DEF TypeOK
  <2>4. QED  BY <2>1, <2>2, <2>3 DEF PickInput
<1>5. input' \in [Tqs -> Nat]
  BY <1>1 DEF PickInput, TypeOK
<1>6. /\ UNCHANGED <<player, connected, bg, num_bg_tasks, usage,
                     active_tqueues, waiting_tasks, external_queue, opened,
                     clock>>
      /\ input' = [input EXCEPT ![q] = @ - 1]
      /\ running_tq' = q
  BY DEF PickInput
<1>7. TypeOK'
  BY <1>1, <1>4, <1>5, <1>6 DEF TypeOK
<1>8. FreeBlank'
  BY <1>1, <1>3, <1>4, <1>6 DEF TypeOK, FreeBlank
<1>9. ActiveListExact' /\ RunningIsHead'
  BY <1>1, <1>2, <1>6, PickHead
<1>10. QED  BY <1>7, <1>8, <1>9 DEF CoreInv

\* A step of PickBg keeps CoreInv.
LEMMA PickBgCore ==
  ASSUME CoreInv, NEW q \in Tqs, PickBg(q)
  PROVE  CoreInv'
<1>1. TypeOK /\ FreeBlank /\ ActiveListExact
  BY DEF CoreInv
<1>2. active_tqueues # << >> /\ q = Head(active_tqueues)
  BY DEF PickBg, AtHead
<1>3. player[q] # FREE
  BY <1>1, <1>2, HeadIsQueue
<1>4. Head(bg[q]) \in Ids /\ Tail(bg[q]) \in Seq(Ids)
  BY <1>1, HeadTailProperties DEF PickBg, TypeOK
<1>5. TypeOK'
  BY <1>1, <1>4 DEF PickBg, TypeOK, Phases
<1>6. FreeBlank'
  BY <1>1, <1>3 DEF PickBg, TypeOK, FreeBlank
<1>7. ActiveListExact' /\ RunningIsHead'
  BY <1>1, <1>2, PickHead DEF PickBg
<1>8. QED  BY <1>5, <1>6, <1>7 DEF CoreInv

\* Taking the head off a list without duplicates removes it and nothing else.
LEMMA TailOn ==
  ASSUME NEW S, NEW s \in Seq(S), s # << >>, NoDup(s)
  PROVE  /\ Tail(s) \in Seq(S) /\ NoDup(Tail(s)) /\ ~On(Tail(s), Head(s))
         /\ \A x : On(s, x) <=> On(Tail(s), x) \/ x = Head(s)
<1> DEFINE t == Tail(s)
<1>1. /\ t \in Seq(S) /\ Len(t) = Len(s) - 1 /\ Len(s) >= 1
      /\ \A k \in 1 .. Len(t) : t[k] = s[k + 1]
      /\ Head(s) = s[1]
  BY HeadTailProperties
<1> HIDE DEF t
<1>2. ASSUME NEW j \in 1 .. Len(t), NEW k \in 1 .. Len(t), t[j] = t[k]
      PROVE  j = k
  <2>1. /\ j + 1 \in 1 .. Len(s) /\ k + 1 \in 1 .. Len(s)
        /\ s[j + 1] = s[k + 1]
    BY <1>1, <1>2
  <2>2. QED  BY <2>1 DEF NoDup
<1>3. ASSUME NEW j \in 1 .. Len(t), t[j] = Head(s) PROVE FALSE
  <2>1. j + 1 \in 1 .. Len(s) /\ 1 \in 1 .. Len(s) /\ s[j + 1] = s[1]
    BY <1>1, <1>3
  <2>2. j + 1 = 1
    BY <2>1 DEF NoDup
  <2>3. QED  BY <2>2
<1>4. ASSUME NEW x, On(s, x) PROVE On(t, x) \/ x = Head(s)
  <2>1. PICK k \in 1 .. Len(s) : s[k] = x
    BY <1>4 DEF On
  <2>2. CASE k = 1
    BY <1>1, <2>1, <2>2
  <2>3. CASE k # 1
    <3>1. k - 1 \in 1 .. Len(t) /\ t[k - 1] = x
      BY <1>1, <2>1, <2>3
    <3>2. QED  BY <3>1 DEF On
  <2>4. QED  BY <2>2, <2>3
<1>5. ASSUME NEW x, On(t, x) PROVE On(s, x)
  <2>1. PICK k \in 1 .. Len(t) : t[k] = x
    BY <1>5 DEF On
  <2>2. k + 1 \in 1 .. Len(s) /\ s[k + 1] = x
    BY <1>1, <2>1
  <2>3. QED  BY <2>2 DEF On
<1>6. On(s, Head(s))
  BY <1>1 DEF On
<1>7. NoDup(t) /\ ~On(t, Head(s))
  BY <1>2, <1>3 DEF NoDup, On
<1>8. QED
  BY <1>1, <1>4, <1>5, <1>6, <1>7 DEF t

\* A step of PickNothing keeps CoreInv.
LEMMA PickNothingCore ==
  ASSUME CoreInv, NEW q \in Tqs, PickNothing(q)
  PROVE  CoreInv'
<1>1. TypeOK /\ FreeBlank /\ ActiveListExact
  BY DEF CoreInv
<1>2. active_tqueues # << >> /\ q = Head(active_tqueues)
  BY DEF PickNothing, AtHead
<1>3. NoDup(active_tqueues) /\ active_tqueues \in Seq(Tqs)
  BY <1>1 DEF ActiveListExact, NoDup, TypeOK
<1>4. /\ active_tqueues' \in Seq(Tqs) /\ NoDup(active_tqueues')
      /\ ~On(active_tqueues', q)
      /\ \A x : On(active_tqueues, x) <=> On(active_tqueues', x) \/ x = q
  BY <1>2, <1>3, TailOn DEF PickNothing
<1>5. TypeOK'
  BY <1>1, <1>4 DEF PickNothing, TypeOK, Phases
<1>6. FreeBlank'
  BY <1>1 DEF PickNothing, FreeBlank
<1>7. \A r \in Tqs : On(active_tqueues', r) <=> usage'[r] # NO_USAGE
  BY <1>1, <1>4 DEF PickNothing, TypeOK, ActiveListExact, OnActive, On
<1>8. ActiveListExact'
  BY <1>1, <1>4, <1>7 DEF PickNothing, ActiveListExact, OnActive, On, NoDup
<1>9. RunningIsHead'
  BY DEF PickNothing, RunningIsHead
<1>10. QED  BY <1>5, <1>6, <1>8, <1>9 DEF CoreInv

\* A step of TaskDone keeps CoreInv.
LEMMA TaskDoneCore ==
  ASSUME CoreInv, NEW secs \in 0 .. MaxUsage, TaskDone(secs)
  PROVE  CoreInv'
<1>1. TypeOK /\ FreeBlank /\ ActiveListExact /\ RunningIsHead
  BY DEF CoreInv
<1> DEFINE q == running_tq
           u == usage[q] + secs
<1>2. active_tqueues # << >> /\ q = Head(active_tqueues)
  BY <1>1 DEF TaskDone, RunningIsHead
<1>3. q \in Tqs /\ usage[q] \in Nat /\ player[q] # FREE
  BY <1>1, <1>2, HeadIsQueue
<1>4. u \in Nat
  BY <1>3, BoundsAssumption
<1>5. NoDup(active_tqueues) /\ active_tqueues \in Seq(Tqs)
  BY <1>1 DEF ActiveListExact, NoDup, TypeOK
<1>6. PICK i \in 1 .. Len(active_tqueues) :
        /\ active_tqueues[i] = q
        /\ usage' = [usage EXCEPT ![q] = u]
        /\ Activated(SubSeq(active_tqueues, i + 1, Len(active_tqueues)),
                     active_tqueues', q, u, usage)
  BY DEF TaskDone
<1>7. UNCHANGED <<player, connected, input, reading, bg, num_bg_tasks,
                  waiting_tasks, external_queue, task, current_task_id,
                  opened, clock>>
      /\ running_tq' = FREE /\ phase' = "sweep"
  BY DEF TaskDone
<1> HIDE DEF q, u
<1>8. i = 1
  <2>1. 1 \in 1 .. Len(active_tqueues) /\ active_tqueues[1] = q
    BY <1>2, <1>5
  <2>2. QED  BY <1>5, <1>6, <2>1 DEF NoDup
<1>9. SubSeq(active_tqueues, i + 1, Len(active_tqueues)) = Tail(active_tqueues)
  BY <1>2, <1>5, <1>8, TailIsSubSeq
<1>10. /\ Tail(active_tqueues) \in Seq(Tqs) /\ NoDup(Tail(active_tqueues))
       /\ ~On(Tail(active_tqueues), q)
       /\ \A x : On(active_tqueues, x) <=> On(Tail(active_tqueues), x) \/ x = q
  BY <1>2, <1>5, TailOn
<1>11. /\ active_tqueues' \in Seq(Tqs) /\ NoDup(active_tqueues')
       /\ \A x : On(active_tqueues', x) <=> On(active_tqueues, x)
  <2>1. Activated(Tail(active_tqueues), active_tqueues', q, u, usage)
    BY <1>6, <1>9
  <2>2. usage \in [Tqs -> Nat \cup {NO_USAGE}]
    BY <1>1 DEF TypeOK
  <2>3. /\ active_tqueues' \in Seq(Tqs) /\ NoDup(active_tqueues')
        /\ \A x : On(active_tqueues', x)
                   <=> On(Tail(active_tqueues), x) \/ x = q
    BY <1>3, <1>4, <1>10, <2>1, <2>2, ActivatedList
  <2>4. QED  BY <1>10, <2>3
<1>12. /\ usage' \in [Tqs -> Nat \cup {NO_USAGE}]
       /\ \A r \in Tqs : usage'[r] # NO_USAGE <=> usage[r] # NO_USAGE
  <2>1. usage \in [Tqs -> Nat \cup {NO_USAGE}]
    BY <1>1 DEF TypeOK
  <2>2. usage' = [usage EXCEPT ![q] = u]
    BY <1>6
  <2>3. QED  BY <1>3, <1>4, <2>1, <2>2 DEF NO_USAGE
<1>13. TypeOK'
  BY <1>1, <1>7, <1>11, <1>12 DEF TypeOK, Phases
<1>14. FreeBlank' /\ RunningIsHead'
  BY <1>1, <1>7 DEF FreeBlank, RunningIsHead
<1>15. ActiveListExact'
  BY <1>1, <1>7, <1>11, <1>12 DEF ActiveListExact, OnActive, On, NoDup
<1>16. QED  BY <1>13, <1>14, <1>15 DEF CoreInv

\* A step of Restart keeps CoreInv.
LEMMA RestartCore ==
  ASSUME CoreInv, Restart
  PROVE  CoreInv'
<1>1. TypeOK'
  <2>1. task' \in [Ids -> TaskRec]
    BY TaskUpdates DEF Restart, CoreInv, TypeOK
  <2>2. QED  BY <2>1 DEF Restart, CoreInv, TypeOK, Phases
<1>2. FreeBlank' /\ ActiveListExact' /\ RunningIsHead'
  BY DEF Restart, FreeBlank, ActiveListExact, OnActive, RunningIsHead
<1>3. QED  BY <1>1, <1>2 DEF CoreInv

\* A step of LoginTask keeps CoreInv.
LEMMA LoginTaskCore ==
  ASSUME CoreInv, NEW u \in Users, NEW old \in Tqs, LoginTask(u, old)
  PROVE  CoreInv'
<1>1. TypeOK /\ FreeBlank /\ ActiveListExact /\ RunningIsHead
  BY DEF CoreInv
<1> DEFINE q == running_tq
           dead == {d \in Tqs : player[d] = u}
           owns == OwnsTasks(q)
<1>2. active_tqueues # << >> /\ q = Head(active_tqueues)
  BY <1>1 DEF LoginTask, RunningIsHead
<1>3. q \in Tqs /\ player[q] \in Conns /\ player[old] = FREE /\ Running
  BY <1>1, <1>2, HeadIsQueue DEF LoginTask
<1>4. /\ player' = [r \in Tqs |-> CASE r = q -> u
                                    [] r \in dead -> NOTHING
                                    [] r = old /\ owns -> player[q]
                                    [] OTHER -> player[r]]
      /\ connected' = [r \in Tqs |-> connected[r] /\ r \notin dead]
      /\ input' = [r \in Tqs |-> IF r \in dead THEN 0 ELSE input[r]]
  BY DEF LoginTask
<1>5. UNCHANGED <<reading, waiting_tasks, external_queue, phase, running_tq,
                  opened, clock>>
  BY DEF LoginTask
<1>6. task' \in [Ids -> TaskRec] /\ current_task_id' = NoTask
  BY <1>1, MeType, TaskUpdates DEF LoginTask, Forget, TypeOK
<1>7. /\ dead = {} => num_bg_tasks' = [num_bg_tasks EXCEPT
                                        ![old] = num_bg_tasks[q], ![q] = 0]
      /\ dead = {} => bg' = [bg EXCEPT ![old] = IF owns THEN bg[q] ELSE @,
                                       ![q] = KeptBg(q)]
      /\ dead = {} => UNCHANGED <<usage, active_tqueues>>
      /\ dead # {} => \E d \in dead :
           /\ bg' = [bg EXCEPT ![old] = IF owns THEN bg[q] ELSE @,
                               ![q] = KeptBg(q) \o bg[d], ![d] = << >>]
           /\ num_bg_tasks' = [num_bg_tasks EXCEPT
                                 ![old] = num_bg_tasks[q],
                                 ![q] = num_bg_tasks[d], ![d] = 0]
           /\ EnsureUsage(d) \/ UNCHANGED <<usage, active_tqueues>>
  BY DEF LoginTask, EnsureUsageIf
<1>8. /\ u \in Players /\ u # FREE /\ u # NOTHING
      /\ player[q] # FREE /\ player[q] \in Players /\ NOTHING # FREE
      /\ q \notin dead /\ old \notin dead /\ q # old
  BY <1>3, SetsAssumption DEF Players
<1> HIDE DEF q
<1>9. /\ player' \in [Tqs -> Players \cup {NOTHING, FREE}]
      /\ \A r \in Tqs : player[r] # FREE => player'[r] # FREE
      /\ \A r \in Tqs : player'[r] = FREE =>
           player[r] = FREE /\ (r = old => ~owns)
  BY <1>1, <1>3, <1>4, <1>8 DEF TypeOK
<1>10. connected' \in [Tqs -> BOOLEAN] /\ input' \in [Tqs -> Nat]
  BY <1>1, <1>4 DEF TypeOK
<1>11. /\ bg' \in [Tqs -> Seq(Ids)] /\ num_bg_tasks' \in [Tqs -> Int]
       /\ \A r \in Tqs \ {old} : player[r] = FREE =>
            bg'[r] = bg[r] /\ num_bg_tasks'[r] = num_bg_tasks[r]
       /\ ~owns => bg'[old] = bg[old] /\ num_bg_tasks'[old] = 0
  <2>1. bg \in [Tqs -> Seq(Ids)] /\ num_bg_tasks \in [Tqs -> Int]
    BY <1>1 DEF TypeOK
  <2>2. /\ bg[q] \in Seq(Ids) /\ bg[old] \in Seq(Ids) /\ << >> \in Seq(Ids)
        /\ KeptBg(q) \in Seq(Ids)
        /\ num_bg_tasks[q] \in Int /\ (~owns => num_bg_tasks[q] = 0)
    BY <1>3, <2>1 DEF KeptBg, OwnsTasks
  <2> DEFINE given == IF owns THEN bg[q] ELSE bg[old]
  <2>3. given \in Seq(Ids) /\ (~owns => given = bg[old])
    BY <2>2
  <2> HIDE DEF owns, given
  <2>4. CASE dead = {}
    <3>1. num_bg_tasks' = [num_bg_tasks EXCEPT
                             ![old] = num_bg_tasks[q], ![q] = 0]
      BY <1>7, <2>4
    <3>2. bg' = [bg EXCEPT ![old] = given, ![q] = KeptBg(q)]
      BY <1>3, <1>7, <2>1, <2>4 DEF given
    <3>3. bg' \in [Tqs -> Seq(Ids)]
      BY <2>1, <2>2, <2>3, <3>2
    <3>4. num_bg_tasks' \in [Tqs -> Int]
      <4>1. num_bg_tasks' = [r \in Tqs |->
              IF r = q THEN 0 ELSE IF r = old THEN num_bg_tasks[q]
              ELSE num_bg_tasks[r]]
        BY <2>1, <3>1, Zenon
      <4>2. QED  BY <2>1, <2>2, <4>1
    <3>5. /\ \A r \in Tqs \ {old} : player[r] = FREE =>
               bg'[r] = bg[r] /\ num_bg_tasks'[r] = num_bg_tasks[r]
          /\ ~owns => bg'[old] = bg[old] /\ num_bg_tasks'[old] = 0
      BY <1>3, <1>8, <2>1, <2>2, <2>3, <3>1, <3>2
    <3>6. QED  BY <3>3, <3>4, <3>5
  <2>5. CASE dead # {}
    <3>1. PICK d \in dead :
           /\ bg' = [bg EXCEPT ![old] = IF owns THEN bg[q] ELSE @,
                               ![q] = KeptBg(q) \o bg[d], ![d] = << >>]
           /\ num_bg_tasks' = [num_bg_tasks EXCEPT
                                 ![old] = num_bg_tasks[q],
                                 ![q] = num_bg_tasks[d], ![d] = 0]
      BY <1>7, <2>5
    <3>2. d \in Tqs /\ d # q /\ d # old /\ player[d] # FREE
      BY <1>8
    <3> DEFINE joined == KeptBg(q) \o bg[d]
    <3>3. joined \in Seq(Ids) /\ num_bg_tasks[d] \in Int
      BY <2>1, <2>2, <3>2
    <3> HIDE DEF joined
    <3>4. bg' = [r \in Tqs |-> IF r = d THEN << >> ELSE IF r = q THEN joined
                               ELSE IF r = old THEN given ELSE bg[r]]
      BY <2>1, <3>1, Zenon DEF joined, given
    <3>5. num_bg_tasks' = [r \in Tqs |->
              IF r = d THEN 0 ELSE IF r = q THEN num_bg_tasks[d]
              ELSE IF r = old THEN num_bg_tasks[q] ELSE num_bg_tasks[r]]
      BY <2>1, <3>1, Zenon
    <3>6. bg' \in [Tqs -> Seq(Ids)]
      BY <2>1, <2>2, <2>3, <3>3, <3>4
    <3>7. num_bg_tasks' \in [Tqs -> Int]
      BY <2>1, <2>2, <3>3, <3>5
    <3>8. /\ \A r \in Tqs \ {old} : player[r] = FREE =>
               bg'[r] = bg[r] /\ num_bg_tasks'[r] = num_bg_tasks[r]
          /\ ~owns => bg'[old] = bg[old] /\ num_bg_tasks'[old] = 0
      BY <1>3, <1>8, <2>2, <2>3, <3>2, <3>4, <3>5
    <3>9. QED  BY <3>6, <3>7, <3>8
  <2>6. QED  BY <2>4, <2>5
<1>12. AtRun' => AtRun /\ running_tq' = running_tq
  BY <1>5 DEF AtRun
<1>13. /\ ActiveListExact' /\ RunningIsHead'
       /\ usage' \in [Tqs -> Nat \cup {NO_USAGE}]
       /\ active_tqueues' \in Seq(Tqs)
  <2>1. CASE UNCHANGED <<usage, active_tqueues>>
    BY <1>1, <1>9, <1>12, <2>1, ListKept DEF TypeOK
  <2>2. CASE \E d \in dead : EnsureUsage(d)
    <3>1. PICK d \in Tqs : player[d] # FREE /\ EnsureUsage(d)
      BY <1>8, <2>2
    <3>2. QED  BY <1>1, <1>9, <1>12, <3>1, ListEnsured
  <2>3. QED  BY <1>7, <2>1, <2>2
<1>14. TypeOK'
  BY <1>1, <1>5, <1>6, <1>9, <1>10, <1>11, <1>13 DEF TypeOK
<1>15. FreeBlank'
  BY <1>1, <1>4, <1>5, <1>9, <1>11 DEF FreeBlank
<1>16. QED  BY <1>13, <1>14, <1>15 DEF CoreInv

-----------------------------------------------------------------------------
(* Theorems *)

\* Every initial state satisfies CoreInv.
LEMMA CoreInit == Init => CoreInv
<1> SUFFICES ASSUME Init PROVE CoreInv
  OBVIOUS
<1>1. TypeOK
  <2>1. NoTaskRec \in TaskRec
    BY BoundsAssumption DEF NoTaskRec, TaskRec, Kinds
  <2>2. QED  BY <2>1, BoundsAssumption DEF Init, TypeOK, Phases
<1>2. FreeBlank /\ ActiveListExact /\ RunningIsHead
  BY DEF Init, FreeBlank, ActiveListExact, OnActive, RunningIsHead
<1>3. QED  BY <1>1, <1>2 DEF CoreInv

\* Every step keeps CoreInv: one case per kind of step, one lemma per action.
LEMMA CoreNext == CoreInv /\ [Next]_vars => CoreInv'
<1> SUFFICES ASSUME CoreInv, [Next]_vars PROVE CoreInv'
  OBVIOUS
<1>1. CASE NetworkStep
  BY <1>1, NewConnectionCore, InputLineCore, FlushCommandCore,
     FreeTaskQueueCore, ResumeExternalCore DEF NetworkStep
<1>2. CASE SchedulerStep
  BY <1>2, RunReadyTasksCore, MoveDueCore, MoveDoneCore, PickOutOfInputCore,
     PickNoneCore, PickInputCore, PickBgCore, PickNothingCore,
     EmptyCommandCore, CommandCore, TaskDoneCore, FreeTqueueCore,
     SweepDoneCore DEF SchedulerStep
<1>3. CASE TaskStep
  BY <1>3, ForkCore, SuspendCore, MakeReadingTaskCore, ReadInputNowCore,
     ForceInputCore, FlushInputCore, SuspendExternallyCore, KillWaitingCore,
     DoResumeCore, KillReadingCore, KillBgCore, KillExternalCore, FinishCore,
     LoginTaskCore DEF TaskStep
<1>4. CASE \/ \E p \in Progrs : StartServerTask(p)
           \/ Tick \/ Restart \/ LoadTask \/ LoadDone
  BY <1>4, StartServerTaskCore, TickCore, RestartCore, LoadTaskCore,
     LoadDoneCore
<1>5. CASE UNCHANGED vars
  BY <1>5 DEF vars, CoreInv, TypeOK, FreeBlank, ActiveListExact, OnActive,
              RunningIsHead
<1>6. QED
  BY <1>1, <1>2, <1>3, <1>4, <1>5 DEF Next

\* Every variable keeps its type.
THEOREM TypeCorrect == Spec => []TypeOK
<1>1. CoreInv => TypeOK
  BY DEF CoreInv
<1>2. QED
  BY <1>1, CoreInit, CoreNext, PTL DEF Spec

\* The active list and the NO_USAGE marks that ensure_usage() tests never
\* disagree, whatever queues are made, moved between players and freed.
THEOREM ActiveList == Spec => []ActiveListExact
<1>1. CoreInv => ActiveListExact
  BY DEF CoreInv
<1>2. QED
  BY <1>1, CoreInit, CoreNext, PTL DEF Spec

\* The queue whose task runs stays at the head of the active list until
\* `active_tqueues = tq->next' takes it off.
THEOREM RunningQueue == Spec => []RunningIsHead
<1>1. CoreInv => RunningIsHead
  BY DEF CoreInv
<1>2. QED
  BY <1>1, CoreInit, CoreNext, PTL DEF Spec

-----------------------------------------------------------------------------
(* One queue per player *)

\* What a step may do to the players of the queues.
PlayerStep ==
  \/ UNCHANGED player
  \/ \E q \in Tqs, p \in Players \cup {NOTHING} :
       FindOrCreate(q, p) /\ player' = [player EXCEPT ![q] = p]
  \/ \E q \in Tqs : player' = [player EXCEPT ![q] = FREE]
  \/ player' = [q \in Tqs |-> FREE]

\* Every step but a login is of that form.
LEMMA PlayerSteps ==
  ASSUME CoreInv, [Next]_vars
  PROVE  PlayerStep \/ \E u \in Users, old \in Tqs : LoginTask(u, old)
<1>1. TypeOK /\ opened \subseteq Conns
  BY DEF CoreInv, TypeOK
<1>2. \A id \in Ids : task[id].progr \in Players \cup {NOTHING}
  BY <1>1, TaskUpdates DEF TypeOK
<1>3. ASSUME NetworkStep PROVE PlayerStep
  BY <1>2, <1>3 DEF NetworkStep, NewConnection, InputLine, FlushCommand,
     FreeTaskQueue, ResumeExternal, PlayerStep, Players
<1>4. ASSUME SchedulerStep PROVE PlayerStep
  <2>1. CASE MoveDue
    <3>1. Head(waiting_tasks) \in Ids
      BY <1>1, <2>1, HeadTailProperties DEF MoveDue, Due, TypeOK
    <3>2. QED  BY <1>2, <2>1, <3>1 DEF MoveDue, PlayerStep
  <2>2. CASE \E q \in Tqs : FreeTqueue(q)
    BY <2>2 DEF FreeTqueue, PlayerStep
  <2>3. CASE UNCHANGED player
    BY <2>3 DEF PlayerStep
  <2>4. QED
    BY <1>4, <2>1, <2>2, <2>3 DEF SchedulerStep, RunReadyTasks, MoveDone,
       PickOutOfInput, PickNone, PickInput, PickBg, PickNothing, EmptyCommand,
       Command, TaskDone, SweepDone, queues
<1>5. ASSUME TaskStep
      PROVE  PlayerStep \/ \E u \in Users, old \in Tqs : LoginTask(u, old)
  <2>1. CASE \E d \in 0 .. MaxDelay : Fork(d) \/ Suspend(d)
    <3>1. Me \in Players \cup {NOTHING}
      BY <1>1, <2>1, MeType DEF Fork, Suspend
    <3>2. QED  BY <2>1, <3>1 DEF Fork, Suspend, EnqueueWaiting, PlayerStep
  <2>2. CASE \E p \in Users \cup opened : ForceInput(p) \/ FlushInput(p)
    BY <1>1, <2>2 DEF ForceInput, FlushInput, PlayerStep, Players
  <2>3. CASE \E i \in 1 .. Len(waiting_tasks) : DoResume(i)
    <3>1. PICK i \in 1 .. Len(waiting_tasks) : DoResume(i)
      BY <2>3
    <3>2. waiting_tasks[i] \in Ids
      BY <1>1 DEF TypeOK
    <3>3. QED  BY <1>2, <3>1, <3>2 DEF DoResume, PlayerStep
  <2>4. CASE UNCHANGED player
    BY <2>4 DEF PlayerStep
  <2>5. QED
    BY <1>5, <2>1, <2>2, <2>3, <2>4 DEF TaskStep, MakeReadingTask,
       ReadInputNow, SuspendExternally, KillWaiting, KillReading, KillBg,
       KillExternal, Finish, queues
<1>6. ASSUME LoadTask PROVE PlayerStep
  BY <1>2, <1>6 DEF LoadTask, EnqueueWaiting, PlayerStep
<1>7. ASSUME \/ \E p \in Progrs : StartServerTask(p)
             \/ Tick \/ LoadDone \/ Restart \/ UNCHANGED vars
      PROVE  PlayerStep
  BY <1>7 DEF StartServerTask, Tick, LoadDone, Restart, vars, queues,
              PlayerStep
<1>8. QED
  BY <1>3, <1>4, <1>5, <1>6, <1>7 DEF Next

\* find_tqueue() makes a queue only for a player who has none, and a login
\* takes the player away from the queue it supersedes.
LEMMA OneQueueNext ==
  ASSUME CoreInv, OneQueuePerPlayer, [Next]_vars
  PROVE  OneQueuePerPlayer'
<1>1. player \in [Tqs -> Players \cup {NOTHING, FREE}]
  BY DEF CoreInv, TypeOK
<1>2. CASE PlayerStep
  BY <1>1, <1>2, SetsAssumption
     DEF PlayerStep, OneQueuePerPlayer, FindOrCreate, Find
<1>3. CASE \E u \in Users, old \in Tqs : LoginTask(u, old)
  <2>1. PICK u \in Users, old \in Tqs : LoginTask(u, old)
    BY <1>3
  <2>2. running_tq \in Tqs
    BY <2>1, HeadIsQueue DEF LoginTask, CoreInv, RunningIsHead
  <2>3. /\ player[running_tq] \in Conns /\ player[old] = FREE
        /\ player' = [r \in Tqs |->
                        CASE r = running_tq -> u
                          [] r \in {d \in Tqs : player[d] = u} -> NOTHING
                          [] r = old /\ OwnsTasks(running_tq)
                               -> player[running_tq]
                          [] OTHER -> player[r]]
    BY <2>1 DEF LoginTask
  <2>4. u \notin Conns /\ u \in Players
    BY SetsAssumption DEF Players
  <2>5. QED
    BY <1>1, <2>2, <2>3, <2>4, SetsAssumption DEF OneQueuePerPlayer, Players
<1>4. QED
  BY <1>2, <1>3, PlayerSteps

\* No player ever has two queues.
THEOREM OneQueue == Spec => []OneQueuePerPlayer
<1>1. Init => OneQueuePerPlayer
  BY SetsAssumption DEF Init, OneQueuePerPlayer
<1>2. CoreInv /\ OneQueuePerPlayer /\ [Next]_vars => OneQueuePerPlayer'
  BY OneQueueNext
<1>3. QED
  BY <1>1, <1>2, CoreInit, CoreNext, PTL DEF Spec

=============================================================================
