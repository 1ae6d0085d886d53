------------------------- MODULE ConnectionsProofs -------------------------
(***************************************************************************)
(* Proofs about module Connections, for any number of connections, users,  *)
(* chunks of input, lines of output and calls of built-in functions.       *)
(***************************************************************************)
EXTENDS Connections, InductionFacts, SequenceTheorems, TLAPS

-----------------------------------------------------------------------------
(* The handles and queues, without the variables *)

ShandleFields == DOMAIN [player |-> 0, listener |-> 0, logged |-> 0,
                         disconnect_me |-> 0, outbound |-> 0, print |-> 0]
NhandleFields == DOMAIN new_nhandle
QueueFields == DOMAIN [player |-> 0, connected |-> 0, suspended |-> 0, lines |-> 0]

\* The shandles s, network handles n and queues t of c connections so far.
Fields(s, n, t, c) ==
  /\ c \in Nat
  /\ DOMAIN s \subseteq 1 .. c /\ DOMAIN t \subseteq 1 .. c
  /\ \A i \in DOMAIN s : DOMAIN s[i] = ShandleFields
  /\ \A i \in DOMAIN n : DOMAIN n[i] = NhandleFields
  /\ \A i \in DOMAIN t : /\ DOMAIN t[i] = QueueFields
                         /\ {t[i].connected, t[i].suspended} \subseteq BOOLEAN
\* Nobody has two, and who is not logged in has the number of the connection.
Numbered(s) ==
  /\ \A i \in DOMAIN s : s[i].player \in Users \/ s[i].player = NOTHING - i
  /\ \A i, j \in DOMAIN s : s[i].player = s[j].player => i = j
\* Handles and connected queues are the same.
Paired(s, n, t) ==
  /\ DOMAIN n = DOMAIN s
  /\ \A i \in DOMAIN s : /\ i \in DOMAIN t /\ t[i].connected
                         /\ t[i].player = s[i].player
                         /\ t[i].suspended = n[i].suspended
  /\ \A i \in DOMAIN t : t[i].connected => i \in DOMAIN s
Sound(s, n, t, c) == Fields(s, n, t, c) /\ Numbered(s) /\ Paired(s, n, t)

\* The main loop p, when D are the handles.
Steps1 == {"read", "write", "sweep"}
Looking(p, D) ==
  /\ DOMAIN p = DOMAIN Loop("top")
  /\ p.next \in {0} \cup D
  /\ IF p.at \in Steps1 THEN p.h \in D /\ p.h # p.next
                        ELSE p.h = 0 /\ p.next = 0
\* The verb v that it waits for, when t are the queues.
Doing(v, p, D, t) ==
  /\ DOMAIN v = DOMAIN NoVerb
  /\ v.then = "close" => p.at \in {"read", "write"} /\ v.h = p.h
  /\ v.then = "drop" => p.at = "sweep" /\ v.h = p.h
  /\ v.then \in {"redirect", "input"} => v.h \in D
  /\ v.then = "login" => /\ v.h \in DOMAIN t /\ ~ (t[v.h].player >= 0)
                         /\ p.at \notin Steps1
\* Queues come, and those there are keep their numbers.
Grown(t, u) == DOMAIN t \subseteq DOMAIN u /\ \A i \in DOMAIN t : u[i].player = t[i].player

IInv ==
  /\ Sound(sh, nh, tq, conns)
  /\ Looking(pc, DOMAIN sh)
  /\ Doing(verb, pc, DOMAIN sh, tq)
  /\ crashed = FALSE

-----------------------------------------------------------------------------
(* Lists of handles *)

\* The head of a list.
LEMMA FirstIs ==
  ASSUME NEW c \in Nat, NEW D \in SUBSET (1 .. c)
  PROVE  /\ first(D) \in {0} \cup D
         /\ D # {} => first(D) \in D
         /\ \A j \in D : j <= first(D)
<1>1. CASE D = {}
  BY <1>1 DEF first
<1>2. CASE D # {}
  <2>1. D \in SUBSET Int /\ c \in Int /\ \A x \in D : x <= c
    OBVIOUS
  <2>2. \E x \in D : \A y \in D : x >= y
    BY ONLY <1>2, <2>1, Greatest
  <2>3. Max(D) \in D /\ \A y \in D : Max(D) >= y
    BY <2>2 DEF Max
  <2>4. first(D) = Max(D)
    BY <1>2 DEF first
  <2> QED  BY <2>1, <2>3, <2>4
<1> QED  BY <1>1, <1>2

\* What follows i in a list is in it, and is not i.
LEMMA NextIs ==
  ASSUME NEW c \in Nat, NEW D \in SUBSET (1 .. c), NEW i \in Nat
  PROVE  next(i, D) \in {0} \cup D /\ (i > 0 => next(i, D) # i)
<1> DEFINE E == {j \in D : j < i}
<1>1. E \in SUBSET (1 .. c)
  OBVIOUS
<1>2. first(E) \in {0} \cup E
  BY <1>1, FirstIs
<1> QED  BY <1>2 DEF next

\* The loop is at a handle that is there, or at none.
LEMMA VisitIs ==
  ASSUME NEW c \in Nat, NEW D \in SUBSET (1 .. c), NEW i \in D,
         NEW at \in Steps1, DOMAIN pc = DOMAIN Loop("top")
  PROVE  Looking(Visit(at, i, D), D)
<1>1. next(i, D) \in {0} \cup D /\ next(i, D) # i
  BY NextIs
<1> DEFINE p == Visit(at, i, D)
<1>2. /\ DOMAIN p = DOMAIN Loop("top")
      /\ p.at = at /\ p.h = i /\ p.next = next(i, D)
  BY DEF Visit, Loop
<1> QED  BY <1>1, <1>2 DEF Looking

\* Loops over the handles.
LEMMA PolledIs ==
  ASSUME NEW c \in Nat, NEW D \in SUBSET (1 .. c), NEW i \in {0} \cup D,
         DOMAIN pc = DOMAIN Loop("top")
  PROVE  /\ Looking(Polled(i, D), D)
         /\ Looking(Swept(i, D), D)
<1>1. CASE i = 0
  BY <1>1 DEF Polled, Swept, Looking, Loop, Steps1
<1>2. CASE i # 0
  <2>1. i \in D
    BY <1>2
  <2>2. Looking(Visit("read", i, D), D) /\ Looking(Visit("sweep", i, D), D)
    BY <2>1, VisitIs DEF Steps1
  <2> QED  BY <1>2, <2>2 DEF Polled, Swept
<1> QED  BY <1>1, <1>2

\* find_shandle() finds the handle of a player, if there is one.
LEMMA FindIs ==
  ASSUME Sound(sh, nh, tq, conns), NEW p
  PROVE  /\ find_shandle(p) = 0 <=> \A i \in DOMAIN sh : sh[i].player # p
         /\ find_shandle(p) # 0 => /\ find_shandle(p) \in DOMAIN sh
                                   /\ sh[find_shandle(p)].player = p
         /\ \A i \in DOMAIN sh : sh[i].player = p => find_shandle(p) = i
<1> DEFINE F == {i \in DOMAIN sh : sh[i].player = p}
<1>1. conns \in Nat /\ DOMAIN sh \subseteq 1 .. conns
      /\ \A i, j \in F : i = j
  BY DEF Sound, Fields, Numbered
<1>2. F # {} => Max(F) \in F
  <2> SUFFICES ASSUME NEW i \in F PROVE Max(F) \in F
    OBVIOUS
  <2>1. i \in Int /\ \A j \in F : i >= j
    BY <1>1
  <2> QED  BY <2>1 DEF Max
<1>3. find_shandle(p) = IF F = {} THEN 0 ELSE Max(F)
  BY DEF find_shandle
<1>4. F # {} => find_shandle(p) \in F /\ find_shandle(p) # 0
  BY <1>1, <1>2, <1>3
<1> QED  BY <1>1, <1>3, <1>4

-----------------------------------------------------------------------------
(* What the handlers do to handles and queues *)

\* A new connection has a number of its own.
LEMMA NewKeeps ==
  ASSUME Sound(sh, nh, tq, conns), NEW l, NEW outbound \in BOOLEAN, NEW print,
         new_connection(l, outbound, print)
  PROVE  /\ Sound(sh', nh', tq', conns')
         /\ DOMAIN sh \subseteq DOMAIN sh' /\ Grown(tq, tq')
<1> DEFINE i == conns + 1
           waits == l # NOTHING \/ ~ outbound
           s == [player |-> NOTHING - i,
                 listener |-> IF l = NOTHING THEN SYSTEM_OBJECT ELSE l,
                 logged |-> FALSE, disconnect_me |-> FALSE,
                 outbound |-> outbound, print |-> print]
           n == [new_nhandle EXCEPT !.suspended = waits]
           t == [player |-> NOTHING - i, connected |-> TRUE, suspended |-> waits,
                 lines |-> IF waits THEN 1 ELSE 0]
<1>1. /\ conns' = i
      /\ sh' = [j \in DOMAIN sh \cup {i} |-> IF j = i THEN s ELSE sh[j]]
      /\ nh' = [j \in DOMAIN nh \cup {i} |-> IF j = i THEN n ELSE nh[j]]
      /\ tq' = [j \in DOMAIN tq \cup {i} |-> IF j = i THEN t ELSE tq[j]]
  BY DEF new_connection, added
<1>2. /\ DOMAIN s = ShandleFields /\ s.player = NOTHING - i
      /\ DOMAIN n = NhandleFields /\ n.suspended = waits
      /\ DOMAIN t = QueueFields /\ t.player = NOTHING - i
      /\ t.connected = TRUE /\ t.suspended = waits /\ waits \in BOOLEAN
  BY DEF ShandleFields, NhandleFields, QueueFields, new_nhandle
<1> HIDE DEF s, n, t, waits
<1>3. /\ conns \in Nat /\ i \in Nat /\ i \notin DOMAIN sh /\ i \notin DOMAIN tq
      /\ i \in 1 .. i /\ \A j \in 1 .. conns : j \in 1 .. i
      /\ DOMAIN nh = DOMAIN sh
  BY DEF Sound, Fields, Paired
<1>4. /\ DOMAIN sh' = DOMAIN sh \cup {i} /\ DOMAIN nh' = DOMAIN nh \cup {i}
      /\ DOMAIN tq' = DOMAIN tq \cup {i}
      /\ sh'[i] = s /\ nh'[i] = n /\ tq'[i] = t
      /\ \A j \in DOMAIN sh : sh'[j] = sh[j] /\ nh'[j] = nh[j]
      /\ \A j \in DOMAIN tq : tq'[j] = tq[j]
  BY <1>1, <1>3
<1>5. Fields(sh', nh', tq', conns')
  BY <1>1, <1>2, <1>3, <1>4 DEF Sound, Fields, Paired
<1>6. Numbered(sh')
  <2>1. \A j \in DOMAIN sh : sh[j].player # NOTHING - i
    BY <1>3, UsersAssumption DEF Sound, Numbered, Fields
  <2> QED  BY <1>2, <1>4, <2>1 DEF Sound, Numbered
<1>7. Paired(sh', nh', tq')
  BY <1>2, <1>3, <1>4 DEF Sound, Paired
<1> QED  BY <1>4, <1>5, <1>6, <1>7 DEF Sound, Grown

\* A connection is closed, and its queue is no longer connected.
LEMMA CloseKeeps ==
  ASSUME Sound(sh, nh, tq, conns), NEW i \in DOMAIN sh, Close(i)
  PROVE  /\ Sound(sh', nh', tq', conns')
         /\ DOMAIN sh' = DOMAIN sh \ {i} /\ DOMAIN tq' = DOMAIN tq
         /\ DOMAIN nh' = DOMAIN sh \ {i}
<1>1. /\ sh' = [j \in DOMAIN sh \ {i} |-> sh[j]]
      /\ nh' = [j \in DOMAIN nh \ {i} |-> nh[j]]
      /\ tq' = [tq EXCEPT ![i].connected = FALSE]
      /\ conns' = conns
  BY DEF Close, free_shandle, close_nhandle, free_task_queue, Restrict
<1>2. i \in DOMAIN tq /\ DOMAIN tq[i] = QueueFields
  BY DEF Sound, Fields, Paired
<1>3. /\ DOMAIN tq' = DOMAIN tq
      /\ \A j \in DOMAIN tq : j # i => tq'[j] = tq[j]
      /\ DOMAIN tq'[i] = QueueFields /\ tq'[i].connected = FALSE
      /\ tq'[i].player = tq[i].player /\ tq'[i].suspended = tq[i].suspended
  BY <1>1, <1>2 DEF QueueFields
<1>4. /\ DOMAIN sh' = DOMAIN sh \ {i} /\ DOMAIN nh' = DOMAIN sh \ {i}
      /\ \A j \in DOMAIN sh' : sh'[j] = sh[j] /\ nh'[j] = nh[j]
  BY <1>1 DEF Sound, Paired
<1>5. Fields(sh', nh', tq', conns')
  BY <1>1, <1>3, <1>4 DEF Sound, Fields, Paired
<1>6. Numbered(sh')
  BY <1>4 DEF Sound, Numbered
<1>7. Paired(sh', nh', tq')
  BY <1>3, <1>4 DEF Sound, Paired
<1> QED  BY <1>3, <1>4, <1>5, <1>6, <1>7 DEF Sound

\* Lines that come to a queue suspend the input of its own handle.
LEMMA InputKeeps ==
  ASSUME Sound(sh, nh, tq, conns), NEW n, Sound(sh, n, tq, conns),
         NEW i \in DOMAIN tq, NEW m, new_input(i, m, n), crashed = FALSE,
         UNCHANGED <<sh, conns>>
  PROVE  /\ Sound(sh', nh', tq', conns') /\ crashed' = FALSE
         /\ Grown(tq, tq')
<1> DEFINE p == tq[i].player
           now == tq[i].suspended
                    \/ (tq[i].connected /\ tq[i].lines + m > INPUT_HIWAT)
           stops == now /\ ~ tq[i].suspended
           h == find_shandle(p)
<1>1. /\ DOMAIN tq[i] = QueueFields
      /\ \A j \in DOMAIN tq : tq[j].suspended \in BOOLEAN
  BY DEF Sound, Fields
<1>2. /\ DOMAIN enqueued(i, m) = DOMAIN tq
      /\ \A j \in DOMAIN tq : j # i => enqueued(i, m)[j] = tq[j]
      /\ DOMAIN enqueued(i, m)[i] = QueueFields
      /\ enqueued(i, m)[i].suspended = now
      /\ enqueued(i, m)[i].player = p
      /\ enqueued(i, m)[i].connected = tq[i].connected
  BY <1>1 DEF enqueued, QueueFields
<1>3. /\ tq' = enqueued(i, m)
      /\ nh' = IF stops THEN set_input_suspended(p, TRUE, n) ELSE n
      /\ crashed' = (crashed \/ (stops /\ h = 0))
  BY <1>2 DEF new_input
<1>4. stops => i \in DOMAIN sh /\ h = i /\ h # 0
  <2>1. stops => i \in DOMAIN sh /\ sh[i].player = p
    BY DEF Sound, Paired
  <2>2. i # 0
    BY DEF Sound, Fields
  <2> QED  BY <2>1, <2>2, FindIs
<1>5. crashed' = FALSE
  BY <1>3, <1>4
<1>6. /\ DOMAIN nh' = DOMAIN n
      /\ \A j \in DOMAIN n : DOMAIN nh'[j] = NhandleFields
      /\ \A j \in DOMAIN n : j # i => nh'[j] = n[j]
      /\ i \in DOMAIN n => nh'[i].suspended = IF stops THEN TRUE
                                              ELSE n[i].suspended
  <2>1. \A j \in DOMAIN n : DOMAIN n[j] = NhandleFields
    BY DEF Sound, Fields
  <2>2. CASE stops
    <3>1. nh' = [n EXCEPT ![i].suspended = TRUE]
      BY <1>3, <1>4, <2>2 DEF set_input_suspended
    <3> HIDE DEF stops
    <3> QED  BY <2>1, <2>2, <3>1 DEF NhandleFields, new_nhandle
  <2>3. CASE ~ stops
    BY <1>3, <2>1, <2>3
  <2> QED  BY <2>2, <2>3
<1>7. now \in BOOLEAN /\ (now = IF stops THEN TRUE ELSE tq[i].suspended)
  BY <1>1
<1>8. /\ DOMAIN tq' = DOMAIN tq
      /\ \A j \in DOMAIN tq :
           /\ DOMAIN tq'[j] = QueueFields
           /\ tq'[j].player = tq[j].player /\ tq'[j].connected = tq[j].connected
           /\ tq'[j].suspended = IF j = i THEN now ELSE tq[j].suspended
  <2> HIDE DEF now, stops
  <2>1. \A j \in DOMAIN tq : DOMAIN tq[j] = QueueFields
    BY DEF Sound, Fields
  <2> QED  BY <1>2, <1>3, <2>1
<1> HIDE DEF now, stops, h
<1>9. Fields(sh', nh', tq', conns')
  <2>1. \A j \in DOMAIN tq : {tq'[j].connected, tq'[j].suspended} \subseteq BOOLEAN
    <3>1. \A j \in DOMAIN tq : {tq[j].connected, tq[j].suspended} \subseteq BOOLEAN
      BY DEF Sound, Fields
    <3> QED  BY <1>7, <1>8, <3>1
  <2>2. \A j \in DOMAIN nh' : DOMAIN nh'[j] = NhandleFields
    BY <1>6
  <2> QED  BY <1>8, <2>1, <2>2 DEF Sound, Fields
<1>10. Paired(sh', nh', tq')
  <2>1. \A j \in DOMAIN sh : /\ j \in DOMAIN tq /\ tq[j].connected
                             /\ tq[j].player = sh[j].player
                             /\ tq[j].suspended = n[j].suspended
                             /\ j \in DOMAIN n
    BY DEF Sound, Paired
  <2>2. \A j \in DOMAIN sh : tq'[j].suspended = nh'[j].suspended
    <3>1. \A j \in DOMAIN sh : j # i => tq'[j].suspended = nh'[j].suspended
      BY <1>6, <1>8, <2>1
    <3>2. i \in DOMAIN sh => tq'[i].suspended = nh'[i].suspended
      BY <1>6, <1>7, <1>8, <2>1
    <3> QED  BY <3>1, <3>2
  <2>3. DOMAIN nh' = DOMAIN sh
    BY <1>6 DEF Sound, Paired
  <2>4. \A j \in DOMAIN tq : tq'[j].connected => j \in DOMAIN sh
    BY <1>8 DEF Sound, Paired
  <2> QED  BY <1>8, <2>1, <2>2, <2>3, <2>4 DEF Paired
<1> QED  BY <1>5, <1>8, <1>9, <1>10 DEF Sound, Numbered, Grown

\* A handle that is changed only in what is read or written.
Same(n, m) == DOMAIN n = NhandleFields
                => DOMAIN m = NhandleFields /\ m.suspended = n.suspended
LEMMA HandleKeeps ==
  ASSUME Sound(sh, nh, tq, conns), NEW i \in DOMAIN nh, NEW m, Same(nh[i], m)
  PROVE  Sound(sh, [nh EXCEPT ![i] = m], tq, conns)
<1> DEFINE n == [nh EXCEPT ![i] = m]
<1>1. /\ DOMAIN n = DOMAIN nh /\ n[i] = m
      /\ \A j \in DOMAIN nh : j # i => n[j] = nh[j]
  OBVIOUS
<1>2. /\ DOMAIN nh[i] = NhandleFields
      /\ DOMAIN m = NhandleFields /\ m.suspended = nh[i].suspended
  BY DEF Sound, Fields, Same
<1> HIDE DEF n
<1> QED  BY <1>1, <1>2 DEF Sound, Fields, Paired, n

\* A shandle that keeps its player.
LEMMA ShandleKeeps ==
  ASSUME Sound(sh, nh, tq, conns), NEW i \in DOMAIN sh, NEW b,
         sh' = [sh EXCEPT ![i].disconnect_me = b], UNCHANGED <<tq, conns>>,
         Sound(sh, nh', tq, conns)
  PROVE  /\ Sound(sh', nh', tq', conns') /\ DOMAIN sh' = DOMAIN sh
<1>1. DOMAIN sh[i] = ShandleFields
  BY DEF Sound, Fields
<1>2. /\ DOMAIN sh' = DOMAIN sh /\ DOMAIN sh'[i] = ShandleFields
      /\ sh'[i].player = sh[i].player
      /\ \A j \in DOMAIN sh : j # i => sh'[j] = sh[j]
  BY <1>1 DEF ShandleFields
<1>3. \A j \in DOMAIN sh : sh'[j].player = sh[j].player
  BY <1>2
<1>4. Fields(sh', nh', tq', conns')
  BY <1>2 DEF Sound, Fields
<1>5. Numbered(sh')
  BY <1>2, <1>3 DEF Sound, Numbered
<1>6. Paired(sh', nh', tq')
  BY <1>2, <1>3 DEF Sound, Paired
<1> QED  BY <1>2, <1>4, <1>5, <1>6 DEF Sound

LEMMA PullSame ==
  ASSUME NEW chunk, NEW n PROVE Same(n, pull_input(chunk, n).n)
  BY DEF pull_input, Same, NhandleFields, new_nhandle

LEMMA PushSame ==
  ASSUME NEW n, NEW r \in push_output(n) PROVE Same(n, r.n)
<1>1. ASSUME NEW a, NEW q \in WriteBlocks(a) PROVE Same(a, q.n)
  <2>1. PICK k, p : q.n = Written(a, k, p)
    BY DEF WriteBlocks
  <2>2. Same(a, Written(a, k, p))
    BY DEF Written, Same, NhandleFields, new_nhandle
  <2> QED  BY <2>1, <2>2
<1>2. CASE n.flushed = 0
  BY <1>1, <1>2 DEF push_output
<1>3. CASE n.flushed # 0
  <2> DEFINE a == [n EXCEPT !.flushed = 0, !.seen = SeeLost(n.flushed, @)]
  <2>1. Same(n, a)
    BY DEF Same, NhandleFields, new_nhandle
  <2> HIDE DEF a
  <2>2. CASE r \in WriteBlocks(a)
    BY <1>1, <2>1, <2>2 DEF Same
  <2>3. CASE r \notin WriteBlocks(a)
    <3>1. r.n = n
      BY <1>3, <2>3 DEF push_output, a
    <3> QED  BY <3>1 DEF Same
  <2> QED  BY <2>2, <2>3
<1> QED  BY <1>2, <1>3

LEMMA EnqueueSame ==
  ASSUME NEW len, NEW flush_ok, NEW n, NEW m \in enqueue_output(len, flush_ok, n)
  PROVE  Same(n, m)
<1>1. \A a : Same(a, Append1(len, a))
  BY DEF Append1, Same, NhandleFields, new_nhandle
<1>2. \A a, need : Same(a, Flushed(need, a))
  BY DEF Flushed, Same, NhandleFields, new_nhandle
<1>3. CASE n.length = 0 \/ n.length + len <= MAX_QUEUED_OUTPUT
  BY <1>1, <1>3 DEF enqueue_output
<1>4. CASE ~ (n.length = 0 \/ n.length + len <= MAX_QUEUED_OUTPUT)
  <2>0. PICK r \in push_output(n) : \E need :
          m = IF need <= 0 THEN Append1(len, r.n)
              ELSE IF flush_ok THEN Append1(len, Flushed(need, r.n)) ELSE r.n
    BY <1>4 DEF enqueue_output
  <2>1. PICK need :
          m = IF need <= 0 THEN Append1(len, r.n)
              ELSE IF flush_ok THEN Append1(len, Flushed(need, r.n)) ELSE r.n
    BY <2>0
  <2>2. Same(n, r.n)
    BY PushSame
  <2> QED  BY <1>1, <1>2, <2>1, <2>2 DEF Same
<1> QED  BY <1>3, <1>4

\* A login: the handle has the user's number, and an earlier handle of the
\* user is gone.
LEMMA LoginKeeps ==
  ASSUME IInv, NEW u \in Users, player_connected(u)
  PROVE  IInv'
<1> DEFINE q == tq[verb.h]
           e == find_shandle(u)
           i == find_shandle(q.player)
           hs == [sh EXCEPT ![i] = [@ EXCEPT !.player = u, !.logged = TRUE,
                                       !.disconnect_me = @ \/ differs(e, i)]]
<1>1. /\ Sound(sh, nh, tq, conns) /\ verb.then = "login" /\ verb.h \in DOMAIN tq
      /\ q.connected /\ crashed = FALSE
      /\ crashed' = (i = 0 \/ (e = 0 /\ \E j \in DOMAIN tq :
                                          tq[j].player = u /\ resumes(tq[j], 0)))
      /\ UNCHANGED pc
  BY DEF IInv, Doing, player_connected, Returns
<1>2. /\ verb.h \in DOMAIN sh /\ sh[verb.h].player = q.player
      /\ i = verb.h /\ i # 0
  <2>1. verb.h \in DOMAIN sh /\ sh[verb.h].player = q.player /\ verb.h # 0
    BY <1>1 DEF Sound, Paired, Fields
  <2> QED  BY <1>1, <2>1, FindIs
<1>3. /\ e # 0 => e \in DOMAIN sh /\ sh[e].player = u
      /\ \A j \in DOMAIN sh : sh[j].player = u <=> j = e
  <2>1. 0 \notin DOMAIN sh
    BY <1>1 DEF Sound, Fields
  <2> QED  BY <1>1, <2>1, FindIs
<1>4. crashed' = FALSE
  <2> SUFFICES ASSUME e = 0, NEW j \in DOMAIN tq, tq[j].player = u,
                      resumes(tq[j], 0)
               PROVE  FALSE
    BY <1>1, <1>2
  <2>1. tq[j].connected
    BY DEF resumes
  <2>2. j \in DOMAIN sh /\ sh[j].player = u
    BY <1>1, <2>1 DEF Sound, Paired
  <2>3. j = 0
    BY <1>3, <2>2
  <2> QED  BY <1>1, <2>2, <2>3 DEF Sound, Fields
<1>5. PICK n \in sent_message(i, nh) :
        /\ sh' = [j \in DOMAIN hs \ {e} |-> hs[j]]
        /\ nh' = existing_closed(e, [nh EXCEPT ![i] = n])
        /\ tq' = IF e = 0 THEN login_queues(verb.h, u)
                 ELSE free_task_queue(e, login_queues(verb.h, u))
        /\ conns' = conns
        /\ \/ verb' = Verb("redirect", i, 0) /\ differs(e, i)
           \/ verb' = Verb("return", 0, 0)
  BY <1>2 DEF player_connected, Restrict
<1>6. e # i
  <2>1. ~ (q.player >= 0) /\ u >= 0
    BY <1>1, UsersAssumption DEF IInv, Doing
  <2> QED  BY <1>2, <1>3, <2>1
<1>7. /\ DOMAIN hs = DOMAIN sh /\ DOMAIN hs[i] = ShandleFields /\ hs[i].player = u
      /\ \A j \in DOMAIN sh : j # i => hs[j] = sh[j]
  <2>1. DOMAIN sh[i] = ShandleFields
    BY <1>1, <1>2 DEF Sound, Fields
  <2> QED  BY <1>2, <2>1 DEF ShandleFields
<1> HIDE DEF hs
<1>8. /\ DOMAIN sh' = DOMAIN sh \ {e} /\ i \in DOMAIN sh'
      /\ DOMAIN sh'[i] = ShandleFields /\ sh'[i].player = u
      /\ \A j \in DOMAIN sh' : j # i => sh'[j] = sh[j]
  BY <1>2, <1>5, <1>6, <1>7
<1>9. /\ DOMAIN nh' = DOMAIN sh'
      /\ \A j \in DOMAIN nh' : DOMAIN nh'[j] = NhandleFields
                               /\ nh'[j].suspended = nh[j].suspended
  <2>1. Same(nh[i], n)
    <3>1. n = nh[i] \/ n \in enqueue_output(1, TRUE, nh[i])
      BY <1>5 DEF sent_message
    <3>2. CASE n = nh[i]
      BY <3>2 DEF Same
    <3>3. CASE n \in enqueue_output(1, TRUE, nh[i])
      <4>1. PICK k : k = nh[i]
        OBVIOUS
      <4>2. n \in enqueue_output(1, TRUE, k)
        BY ONLY <3>3, <4>1
      <4>3. Same(k, n)
        BY ONLY <4>2, EnqueueSame
      <4> QED  BY ONLY <4>1, <4>3
    <3> QED  BY <3>1, <3>2, <3>3
  <2> DEFINE m == [nh EXCEPT ![i] = n]
  <2>2. /\ DOMAIN nh = DOMAIN sh
        /\ \A j \in DOMAIN nh : DOMAIN nh[j] = NhandleFields
    BY <1>1 DEF Sound, Paired, Fields
  <2>3. /\ DOMAIN m = DOMAIN sh
        /\ \A j \in DOMAIN m : DOMAIN m[j] = NhandleFields
                               /\ m[j].suspended = nh[j].suspended
    BY <1>2, <2>1, <2>2 DEF Same
  <2> HIDE DEF m
  <2>4. CASE e = 0
    <3>1. 0 \notin DOMAIN sh
      BY <1>1 DEF Sound, Fields
    <3> QED  BY <1>5, <1>8, <2>3, <2>4, <3>1 DEF existing_closed, m
  <2>5. CASE e # 0
    <3>1. nh' = [j \in DOMAIN m \ {e} |-> m[j]]
      BY <1>5, <2>5 DEF existing_closed, close_nhandle, Restrict, m
    <3> QED  BY <1>8, <2>3, <3>1
  <2> QED  BY <2>4, <2>5
<1>10. \A j \in DOMAIN tq : /\ DOMAIN tq[j] = QueueFields
                            /\ tq[j].connected \in BOOLEAN
                            /\ tq[j].suspended \in BOOLEAN
  BY <1>1 DEF Sound, Fields
<1>11. /\ DOMAIN login_queues(i, u) = DOMAIN tq
       /\ \A j \in DOMAIN tq :
            LET l == login_queues(i, u)[j]
            IN /\ DOMAIN l = QueueFields
               /\ l.connected = tq[j].connected /\ l.suspended \in BOOLEAN
               /\ l.player = IF j = i THEN u
                             ELSE IF tq[j].player = u THEN NOTHING ELSE tq[j].player
               /\ tq[j].player # u \/ j = i => l.suspended = tq[j].suspended
  BY <1>10 DEF login_queues, dequeued, QueueFields
<1>12. /\ DOMAIN tq' = DOMAIN tq
       /\ \A j \in DOMAIN tq :
            /\ DOMAIN tq'[j] = QueueFields
            /\ tq'[j].connected = (j # e /\ tq[j].connected)
            /\ tq'[j].suspended \in BOOLEAN
            /\ tq'[j].player = IF j = i THEN u
                               ELSE IF tq[j].player = u THEN NOTHING ELSE tq[j].player
            /\ tq[j].player # u \/ j = i => tq'[j].suspended = tq[j].suspended
  <2> DEFINE l == login_queues(i, u)
  <2>1. verb.h = i
    BY <1>2
  <2>2. CASE e = 0
    <3>1. 0 \notin DOMAIN tq
      BY <1>1 DEF Sound, Fields
    <3>2. tq' = l
      BY <1>5, <2>1, <2>2
    <3>3. \A j \in DOMAIN tq : j # e
      BY ONLY <2>2, <3>1
    <3> HIDE DEF l
    <3> QED  BY ONLY <1>10, <1>11, <3>2, <3>3 DEF l
  <2>3. CASE e # 0
    <3>1. e \in DOMAIN tq /\ tq[e].connected
      BY <1>1, <1>3, <2>3 DEF Sound, Paired
    <3>2. tq' = [l EXCEPT ![e].connected = FALSE]
      BY <1>5, <2>1, <2>3 DEF free_task_queue
    <3>3. /\ DOMAIN l = DOMAIN tq
          /\ \A j \in DOMAIN tq : DOMAIN l[j] = QueueFields
      BY <1>11
    <3>4. /\ DOMAIN tq' = DOMAIN tq
          /\ \A j \in DOMAIN tq : j # e => tq'[j] = l[j]
          /\ DOMAIN tq'[e] = QueueFields /\ tq'[e].connected = FALSE
          /\ tq'[e].player = l[e].player /\ tq'[e].suspended = l[e].suspended
      <4> HIDE DEF l
      <4> QED  BY <3>1, <3>2, <3>3 DEF QueueFields
    <3>5. \A j \in DOMAIN tq :
            /\ DOMAIN l[j] = QueueFields
            /\ l[j].connected = tq[j].connected /\ l[j].suspended \in BOOLEAN
            /\ l[j].player = IF j = i THEN u
                            ELSE IF tq[j].player = u THEN NOTHING ELSE tq[j].player
            /\ tq[j].player # u \/ j = i => l[j].suspended = tq[j].suspended
      BY <1>11
    <3> HIDE DEF l
    <3>6. \A j \in DOMAIN tq :
            /\ DOMAIN tq'[j] = QueueFields
            /\ tq'[j].player = l[j].player /\ tq'[j].suspended = l[j].suspended
            /\ j # e => tq'[j].connected = l[j].connected
      BY ONLY <3>4, <3>5
    <3>7. \A j \in DOMAIN tq : tq'[j].connected = (j # e /\ tq[j].connected)
      <4> SUFFICES ASSUME NEW j \in DOMAIN tq
                   PROVE  tq'[j].connected = (j # e /\ tq[j].connected)
        OBVIOUS
      <4>1. tq[j].connected \in BOOLEAN
        BY <1>10
      <4>2. CASE j = e
        BY ONLY <3>4, <4>2
      <4>3. CASE j # e
        BY ONLY <3>5, <3>6, <4>1, <4>3, j \in DOMAIN tq
      <4> QED  BY <4>2, <4>3
    <3> QED  BY ONLY <3>4, <3>5, <3>6, <3>7
  <2> QED  BY <2>2, <2>3
<1>13. Fields(sh', nh', tq', conns')
  <2>1. /\ conns \in Nat /\ DOMAIN sh \subseteq 1 .. conns
        /\ DOMAIN tq \subseteq 1 .. conns
        /\ \A j \in DOMAIN sh : DOMAIN sh[j] = ShandleFields
    BY <1>1 DEF Sound, Fields
  <2>2. \A j \in DOMAIN sh' : DOMAIN sh'[j] = ShandleFields
    BY <1>8, <2>1
  <2>3. \A j \in DOMAIN tq' : {tq'[j].connected, tq'[j].suspended} \subseteq BOOLEAN
    BY <1>10, <1>12
  <2> QED  BY <1>5, <1>8, <1>9, <1>12, <2>1, <2>2, <2>3 DEF Fields
<1>14. Numbered(sh')
  <2>1. \A j \in DOMAIN sh' : j # i => sh'[j].player # u
    BY <1>3, <1>8
  <2> QED  BY <1>1, <1>8, <2>1 DEF Sound, Numbered
<1>15. Paired(sh', nh', tq')
  <2>1. ASSUME NEW j \in DOMAIN sh'
        PROVE  /\ j \in DOMAIN tq' /\ tq'[j].connected
               /\ tq'[j].player = sh'[j].player
               /\ tq'[j].suspended = nh'[j].suspended
    <3>1. /\ j \in DOMAIN sh /\ j # e
          /\ j \in DOMAIN tq /\ tq[j].connected /\ tq[j].player = sh[j].player
          /\ tq[j].suspended = nh[j].suspended
      BY <1>1, <1>8 DEF Sound, Paired
    <3>2. j # i => sh'[j] = sh[j] /\ tq[j].player # u
      BY <1>3, <1>8, <3>1
    <3> QED  BY <1>8, <1>9, <1>12, <3>1, <3>2
  <2>2. \A j \in DOMAIN tq' : tq'[j].connected => j \in DOMAIN sh'
    BY <1>1, <1>8, <1>12 DEF Sound, Paired
  <2> QED  BY <1>9, <2>1, <2>2 DEF Paired
<1>16. Looking(pc', DOMAIN sh')
  <2>1. pc.at \notin Steps1
    BY <1>1 DEF IInv, Doing
  <2> QED  BY <1>1, <2>1 DEF IInv, Looking
<1>17. Doing(verb', pc', DOMAIN sh', tq')
  BY <1>5, <1>8 DEF Doing, Verb, NoVerb
<1> QED  BY <1>4, <1>13, <1>14, <1>15, <1>16, <1>17 DEF IInv, Sound

-----------------------------------------------------------------------------
(* Steps of the main loop, and calls of built-in functions *)

\* A verb nothing is done after.
Idle(v) == DOMAIN v = DOMAIN NoVerb /\ v.then \in {"none", "return"}

LEMMA IdleIs ==
  /\ Idle(NoVerb) /\ \A h, lines : Idle(Verb("return", h, lines))
  /\ \A v, p, D, t : Idle(v) => Doing(v, p, D, t)
<1>1. Idle(NoVerb) /\ \A h, lines : Idle(Verb("return", h, lines))
  BY DEF Idle, NoVerb, Verb
<1>2. \A v, p, D, t : Idle(v) => Doing(v, p, D, t)
  BY DEF Idle, Doing
<1> QED  BY <1>1, <1>2

\* The loop goes on to its next step.
LEMMA LoopIs ==
  ASSUME NEW at, at \notin Steps1, NEW D
  PROVE  Looking(Loop(at), D)
  BY DEF Looking, Loop, Steps1

LEMMA StepIs ==
  ASSUME NEW D, Looking(pc, D), NEW todo
  PROVE  /\ Looking([pc EXCEPT !.todo = todo], D)
         /\ pc.at = "read" => Looking([pc EXCEPT !.at = "write"], D)
<1>1. Looking([pc EXCEPT !.todo = todo], D)
  BY DEF Looking, Loop, Steps1
<1>2. pc.at = "read" => Looking([pc EXCEPT !.at = "write"], D)
  BY DEF Looking, Loop, Steps1
<1> QED  BY <1>1, <1>2

\* A step that changes no handle.
LEMMA LoopKeeps ==
  ASSUME IInv, UNCHANGED <<sh, nh, tq, conns, crashed>>, Idle(verb'),
         Looking(pc', DOMAIN sh)
  PROVE  IInv'
<1>1. Doing(verb', pc', DOMAIN sh, tq)
  BY IdleIs
<1> QED  BY <1>1 DEF IInv

\* A call from a verb, which may open connections and change others.
LEMMA CallKeeps ==
  ASSUME IInv, Sound(sh', nh', tq', conns'), DOMAIN sh \subseteq DOMAIN sh',
         Grown(tq, tq'), crashed' = FALSE, UNCHANGED pc,
         DOMAIN verb' = DOMAIN verb, verb'.then = verb.then, verb'.h = verb.h
  PROVE  IInv'
<1>1. Looking(pc', DOMAIN sh')
  BY DEF IInv, Looking
<1>2. Doing(verb', pc', DOMAIN sh', tq')
  BY DEF IInv, Doing, Grown
<1> QED  BY <1>1, <1>2 DEF IInv

LEMMA InitSound == Init => IInv
<1> SUFFICES ASSUME Init PROVE IInv
  OBVIOUS
<1>1. /\ sh = no_handles /\ nh = no_handles /\ tq = no_handles /\ conns = 0
      /\ pc = Loop("top") /\ verb = NoVerb /\ crashed = FALSE
  BY DEF Init
<1>2. DOMAIN no_handles = {}
  BY DEF no_handles
<1>3. Sound(sh, nh, tq, conns)
  BY <1>1, <1>2 DEF Sound, Fields, Numbered, Paired
<1>4. Looking(pc, DOMAIN sh)
  BY <1>1, LoopIs DEF Steps1
<1> QED  BY <1>1, <1>3, <1>4, IdleIs DEF IInv

LEMMA RestartKeeps ==
  ASSUME IInv, Restart
  PROVE  IInv'
<1>1. /\ sh' = no_handles /\ nh' = no_handles /\ tq' = no_handles /\ conns' = 0
      /\ verb' = NoVerb /\ crashed' = crashed
      /\ pc' = [Loop("saved") EXCEPT !.todo = dump.connections]
  BY DEF Restart
<1>2. DOMAIN no_handles = {}
  BY DEF no_handles
<1>3. Sound(sh', nh', tq', conns')
  BY <1>1, <1>2 DEF Sound, Fields, Numbered, Paired
<1>4. Looking(pc', DOMAIN sh')
  BY <1>1 DEF Looking, Loop, Steps1
<1>5. Doing(verb', pc', DOMAIN sh', tq')
  BY <1>1, IdleIs
<1> QED  BY <1>1, <1>3, <1>4, <1>5 DEF IInv

\* Where the loop is at rest, and no handle changes.
LEMMA RestKeeps ==
  ASSUME IInv, UNCHANGED <<sh, nh, tq, conns, crashed>>, AtRest,
         \/ notify_saved \/ checkpoint_started \/ db_flush \/ mplex_wait
         \/ accept_nothing \/ read_nothing \/ write_nothing
         \/ check_registered_fds \/ run_in_background \/ run_nothing
         \/ sweep_kept
  PROVE  IInv'
<1>0. /\ Looking(pc, DOMAIN sh) /\ DOMAIN nh = DOMAIN sh /\ conns \in Nat
      /\ DOMAIN sh \in SUBSET (1 .. conns) /\ DOMAIN pc = DOMAIN Loop("top")
      /\ first(DOMAIN sh) \in {0} \cup DOMAIN sh
      /\ pc.next \in {0} \cup DOMAIN sh
  <2>1. /\ Looking(pc, DOMAIN sh) /\ DOMAIN nh = DOMAIN sh /\ conns \in Nat
        /\ DOMAIN sh \in SUBSET (1 .. conns) /\ DOMAIN pc = DOMAIN Loop("top")
    BY DEF IInv, Sound, Fields, Paired, Looking
  <2> QED  BY <2>1, FirstIs DEF Looking
<1>1. Idle(verb')
  <2>1. verb = NoVerb
    BY DEF AtRest
  <2>2. verb' = verb \/ verb' = Verb("return", 0, 0)
    BY DEF notify_saved, checkpoint_started, db_flush, mplex_wait, accept_nothing,
           read_nothing, write_nothing, check_registered_fds, run_in_background,
           run_nothing, sweep_kept, world
  <2> QED  BY <2>1, <2>2, IdleIs
<1>2. Looking(pc', DOMAIN sh)
  <2>1. CASE notify_saved
    <3>1. pc' = Loop("top") \/ pc' = [pc EXCEPT !.todo = Tail(pc.todo)]
      BY <2>1 DEF notify_saved
    <3> QED  BY <1>0, <3>1, LoopIs, StepIs DEF Steps1
  <2>2. CASE checkpoint_started
    <3>1. pc' = [Loop("wait") EXCEPT !.cp = TRUE]
      BY <2>2 DEF checkpoint_started
    <3> QED  BY <3>1 DEF Looking, Loop, Steps1
  <2>3. CASE db_flush
    <3>1. pc' = Loop("wait")
      BY <2>3 DEF db_flush
    <3> QED  BY <3>1, LoopIs DEF Steps1
  <2>4. CASE mplex_wait
    <3>1. PICK todo, readers, writers :
            pc' = [Loop("accept") EXCEPT !.cp = pc.cp, !.todo = todo,
                                         !.readers = readers, !.writers = writers]
      BY <2>4 DEF mplex_wait
    <3> QED  BY <3>1 DEF Looking, Loop, Steps1
  <2>5. CASE accept_nothing
    <3>1. \/ pc' = Polled(first(DOMAIN sh), DOMAIN sh)
          \/ pc' = [pc EXCEPT !.todo = Tail(pc.todo)]
      BY <1>0, <2>5 DEF accept_nothing
    <3>2. Looking(Polled(first(DOMAIN sh), DOMAIN sh), DOMAIN sh)
      BY ONLY <1>0, PolledIs
    <3>3. Looking([pc EXCEPT !.todo = Tail(pc.todo)], DOMAIN sh)
      BY ONLY <1>0, StepIs
    <3> QED  BY <3>1, <3>2, <3>3
  <2>6. CASE read_nothing
    <3>1. pc.at = "read" /\ pc' = [pc EXCEPT !.at = "write"]
      BY <2>6 DEF read_nothing
    <3> QED  BY <1>0, <3>1, StepIs
  <2>7. CASE write_nothing
    <3>1. pc' = Polled(pc.next, DOMAIN sh)
      BY <1>0, <2>7 DEF write_nothing
    <3> QED  BY <1>0, <3>1, PolledIs
  <2>8. CASE check_registered_fds
    <3>1. \/ pc' = Loop("dump") \/ pc' = Loop("tasks")
          \/ pc' = [pc EXCEPT !.todo = Tail(pc.todo)]
      BY <2>8 DEF check_registered_fds
    <3> QED  BY <1>0, <3>1, LoopIs, StepIs DEF Steps1
  <2>9. CASE run_in_background \/ run_nothing
    <3>1. pc' = Loop("free")
      BY <2>9 DEF run_in_background, run_nothing
    <3> QED  BY <3>1, LoopIs DEF Steps1
  <2>10. CASE sweep_kept
    <3>1. pc' = Swept(pc.next, DOMAIN sh)
      BY <2>10 DEF sweep_kept
    <3> QED  BY <1>0, <3>1, PolledIs
  <2> QED  BY <2>1, <2>2, <2>3, <2>4, <2>5, <2>6, <2>7, <2>8, <2>9, <2>10
<1> QED  BY <1>1, <1>2, LoopKeeps

\* A handle is closed when its verb is done, and the loop stays at it.
LEMMA ServerCloseKeeps ==
  ASSUME IInv, AtRest, pc.at \in {"read", "write"}, server_close(pc.h),
         Sound(sh, nh', tq, conns)
  PROVE  IInv'
<1>1. pc.h \in DOMAIN sh /\ crashed = FALSE /\ Sound(sh, nh, tq, conns)
      /\ Looking(pc, DOMAIN sh)
  BY DEF IInv, Looking, Steps1
<1>2. /\ sh' = [sh EXCEPT ![pc.h].disconnect_me = TRUE]
      /\ UNCHANGED <<tq, conns, pc, crashed>> /\ verb' = Verb("close", pc.h, 0)
  BY DEF server_close
<1>3. Sound(sh', nh', tq', conns') /\ DOMAIN sh' = DOMAIN sh
  BY <1>1, <1>2, ShandleKeeps
<1>4. Looking(pc', DOMAIN sh')
  BY <1>1, <1>2, <1>3
<1>5. Doing(verb', pc', DOMAIN sh', tq')
  BY <1>2 DEF Doing, Verb, NoVerb
<1> QED  BY <1>1, <1>2, <1>3, <1>4, <1>5 DEF IInv

\* Input, output and their errors.
LEMMA IoKeeps ==
  ASSUME IInv,
         \/ read_fails \/ write_some
         \/ \E chunk \in focus.chunks, idle \in BOOLEAN : read_chunk(chunk, idle)
  PROVE  IInv'
<1>0. Sound(sh, nh, tq, conns) /\ Looking(pc, DOMAIN sh) /\ crashed = FALSE
  BY DEF IInv
<1>1. ASSUME pc.at \in {"read", "write"}
      PROVE  /\ pc.h \in DOMAIN sh /\ pc.h \in DOMAIN nh /\ pc.h \in DOMAIN tq
  BY <1>0, <1>1 DEF Looking, Steps1, Sound, Paired
<1>2. CASE read_fails
  <2>1. AtRest /\ pc.at = "read" /\ server_close(pc.h) /\ nh' = nh
    BY <1>2 DEF read_fails
  <2> QED  BY <1>0, <2>1, ServerCloseKeeps
<1>3. CASE write_some
  <2>1. PICK r \in push_output(nh[pc.h]) :
          /\ AtRest /\ pc.at = "write" /\ nh' = [nh EXCEPT ![pc.h] = r.n]
          /\ \/ /\ pc' = Polled(pc.next, DOMAIN nh)
                /\ UNCHANGED <<sh, tq, conns, verb, crashed>>
             \/ server_close(pc.h)
    BY <1>3 DEF write_some
  <2>2. Sound(sh, nh', tq, conns)
    <3>1. Same(nh[pc.h], r.n)
      BY PushSame
    <3>2. pc.h \in DOMAIN nh
      BY <1>1, <2>1
    <3> QED  BY <1>0, <2>1, <3>1, <3>2, HandleKeeps
  <2>3. CASE server_close(pc.h)
    BY <2>1, <2>2, <2>3, ServerCloseKeeps
  <2>4. CASE /\ pc' = Polled(pc.next, DOMAIN nh)
             /\ UNCHANGED <<sh, tq, conns, verb, crashed>>
    <3>1. /\ conns \in Nat /\ DOMAIN sh \in SUBSET (1 .. conns)
          /\ pc.next \in {0} \cup DOMAIN sh /\ DOMAIN nh = DOMAIN sh
          /\ DOMAIN pc = DOMAIN Loop("top")
      BY <1>0 DEF Looking, Sound, Fields, Paired
    <3>2. Looking(pc', DOMAIN sh')
      BY <2>4, <3>1, PolledIs
    <3>3. Doing(verb', pc', DOMAIN sh', tq')
      BY <2>1, <2>4, IdleIs DEF AtRest
    <3> QED  BY <1>0, <2>2, <2>4, <3>2, <3>3 DEF IInv
  <2> QED  BY <2>1, <2>3, <2>4
<1>4. ASSUME NEW chunk, NEW idle \in BOOLEAN, read_chunk(chunk, idle)
      PROVE  IInv'
  <2> DEFINE r == pull_input(chunk, nh[pc.h])
             n == [nh EXCEPT ![pc.h] = r.n]
  <2>1. /\ AtRest /\ pc.at = "read" /\ pc' = [pc EXCEPT !.at = "write"]
        /\ UNCHANGED <<sh, conns>>
        /\ \/ /\ verb' = Verb("input", pc.h, Len(r.lines))
              /\ nh' = n /\ UNCHANGED <<tq, crashed>>
           \/ new_input(pc.h, Len(r.lines), n) /\ verb' = verb
    BY <1>4 DEF read_chunk
  <2>2. pc.h \in DOMAIN sh /\ pc.h \in DOMAIN nh /\ pc.h \in DOMAIN tq
    BY <1>1, <2>1
  <2>3. Sound(sh, n, tq, conns)
    <3>1. Same(nh[pc.h], r.n)
      BY PullSame
    <3> HIDE DEF r
    <3> QED  BY <1>0, <2>2, <3>1, HandleKeeps
  <2>4. Looking(pc', DOMAIN sh')
    BY <1>0, <2>1, StepIs
  <2> HIDE DEF r, n
  <2>5. CASE /\ verb' = Verb("input", pc.h, Len(r.lines))
             /\ nh' = n /\ UNCHANGED <<tq, crashed>>
    <3>1. Doing(verb', pc', DOMAIN sh', tq')
      BY <2>1, <2>2, <2>5 DEF Doing, Verb, NoVerb
    <3> QED  BY <1>0, <2>1, <2>3, <2>4, <2>5, <3>1 DEF IInv
  <2>6. CASE new_input(pc.h, Len(r.lines), n) /\ verb' = verb
    <3>1. Sound(sh', nh', tq', conns') /\ crashed' = FALSE
      BY <1>0, <2>1, <2>2, <2>3, <2>6, InputKeeps
    <3>2. Doing(verb', pc', DOMAIN sh', tq')
      BY <2>1, <2>6, IdleIs DEF AtRest
    <3> QED  BY <2>4, <3>1, <3>2 DEF IInv
  <2> QED  BY <2>1, <2>5, <2>6
<1> QED  BY <1>2, <1>3, <1>4

\* A line is taken from a queue, and the handle is resumed with the queue.
LEMMA CommandKeeps ==
  ASSUME IInv, NEW i \in DOMAIN tq, run_command(i)
  PROVE  IInv'
<1> DEFINE q == tq[i]
           resume == resumes(q, q.lines - 1)
           h == find_shandle(q.player)
           d == dequeued(q, q.lines - 1)
<1>0. Sound(sh, nh, tq, conns) /\ Looking(pc, DOMAIN sh) /\ crashed = FALSE
  BY DEF IInv
<1>1. /\ tq' = [tq EXCEPT ![i] = d]
      /\ nh' = IF resume THEN set_input_suspended(q.player, FALSE, nh) ELSE nh
      /\ crashed' = (resume /\ h = 0)
      /\ verb' = IF q.player >= 0 THEN Verb("return", 0, 0) ELSE Verb("login", i, 0)
      /\ pc' = Loop("free") /\ UNCHANGED <<sh, conns>>
  BY DEF run_command
<1>2. resume => i \in DOMAIN sh /\ h = i /\ h # 0
  <2>1. resume => i \in DOMAIN sh /\ sh[i].player = q.player
    BY <1>0 DEF Sound, Paired, resumes
  <2>2. i # 0
    BY <1>0 DEF Sound, Fields
  <2> QED  BY <1>0, <2>1, <2>2, FindIs
<1>3. /\ DOMAIN q = QueueFields /\ q.suspended \in BOOLEAN /\ q.connected \in BOOLEAN
  BY <1>0 DEF Sound, Fields
<1>4. /\ DOMAIN d = QueueFields /\ d.player = q.player /\ d.connected = q.connected
      /\ d.suspended = (q.suspended /\ ~ resume) /\ (resume => q.suspended = TRUE)
      /\ resume \in BOOLEAN
  BY <1>3 DEF dequeued, QueueFields, resumes
<1>5. /\ DOMAIN nh' = DOMAIN nh
      /\ \A j \in DOMAIN nh : DOMAIN nh'[j] = NhandleFields
      /\ \A j \in DOMAIN nh : j # i => nh'[j] = nh[j]
      /\ i \in DOMAIN nh => nh'[i].suspended = IF resume THEN FALSE ELSE nh[i].suspended
  <2>1. \A j \in DOMAIN nh : DOMAIN nh[j] = NhandleFields
    BY <1>0 DEF Sound, Fields
  <2>2. CASE resume
    <3>1. nh' = [nh EXCEPT ![i].suspended = FALSE]
      BY <1>1, <1>2, <2>2 DEF set_input_suspended
    <3> HIDE DEF resume
    <3> QED  BY <2>1, <2>2, <3>1 DEF NhandleFields, new_nhandle
  <2>3. CASE ~ resume
    BY <1>1, <2>1, <2>3
  <2> QED  BY <2>2, <2>3
<1> HIDE DEF d, resume, h
<1>6. /\ DOMAIN tq' = DOMAIN tq /\ tq'[i] = d
      /\ \A j \in DOMAIN tq : j # i => tq'[j] = tq[j]
  BY <1>1
<1>7. Fields(sh', nh', tq', conns')
  <2>1. \A j \in DOMAIN tq' : DOMAIN tq'[j] = QueueFields
                              /\ {tq'[j].connected, tq'[j].suspended} \subseteq BOOLEAN
    <3>1. \A j \in DOMAIN tq : DOMAIN tq[j] = QueueFields
                               /\ {tq[j].connected, tq[j].suspended} \subseteq BOOLEAN
      BY <1>0 DEF Sound, Fields
    <3> QED  BY <1>3, <1>4, <1>6, <3>1
  <2> QED  BY <1>0, <1>1, <1>5, <1>6, <2>1 DEF Sound, Fields
<1>8. Paired(sh', nh', tq')
  <2>1. \A j \in DOMAIN sh : /\ j \in DOMAIN tq /\ tq[j].connected
                             /\ tq[j].player = sh[j].player
                             /\ tq[j].suspended = nh[j].suspended
                             /\ j \in DOMAIN nh
    BY <1>0 DEF Sound, Paired
  <2>2. \A j \in DOMAIN sh : tq'[j].suspended = nh'[j].suspended
    <3>1. \A j \in DOMAIN sh : j # i => tq'[j].suspended = nh'[j].suspended
      BY <1>5, <1>6, <2>1
    <3>2. i \in DOMAIN sh => tq'[i].suspended = nh'[i].suspended
      BY <1>3, <1>4, <1>5, <1>6, <2>1
    <3> QED  BY <3>1, <3>2
  <2>3. \A j \in DOMAIN sh : j \in DOMAIN tq' /\ tq'[j].connected
                             /\ tq'[j].player = sh[j].player
    BY <1>4, <1>6, <2>1
  <2>4. \A j \in DOMAIN tq : tq'[j].connected => j \in DOMAIN sh
    BY <1>0, <1>4, <1>6 DEF Sound, Paired
  <2>5. DOMAIN nh' = DOMAIN sh
    BY <1>0, <1>5 DEF Sound, Paired
  <2> QED  BY <1>1, <1>6, <2>2, <2>3, <2>4, <2>5 DEF Paired
<1>9. Doing(verb', pc', DOMAIN sh', tq')
  <2>1. CASE q.player >= 0
    BY <1>1, <2>1, IdleIs
  <2>2. CASE ~ (q.player >= 0)
    <3>1. tq'[i].player = q.player /\ i \in DOMAIN tq'
      BY <1>4, <1>6
    <3>2. verb' = Verb("login", i, 0) /\ pc'.at = "free"
      BY <1>1, <2>2 DEF Loop
    <3> QED  BY <2>2, <3>1, <3>2 DEF Doing, Verb, NoVerb, Steps1
  <2> QED  BY <2>1, <2>2
<1>10. Looking(pc', DOMAIN sh')
  BY <1>1, LoopIs DEF Steps1
<1>11. crashed' = FALSE
  BY <1>1, <1>2
<1> QED  BY <1>0, <1>1, <1>7, <1>8, <1>9, <1>10, <1>11 DEF IInv, Sound

\* Queues that are empty and not connected are freed.
LEMMA FreeKeeps ==
  ASSUME IInv, free_tqueues
  PROVE  IInv'
<1>0. Sound(sh, nh, tq, conns) /\ Looking(pc, DOMAIN sh) /\ crashed = FALSE
  BY DEF IInv
<1> DEFINE K == {i \in DOMAIN tq : tq[i].connected \/ tq[i].lines > 0}
<1>1. /\ tq' = [i \in K |-> tq[i]] /\ verb = NoVerb
      /\ pc' = Swept(first(DOMAIN sh), DOMAIN sh)
      /\ UNCHANGED <<sh, nh, conns, verb, crashed>>
  <2>1. tq' = Restrict(tq, K)
    BY DEF free_tqueues
  <2> QED  BY <2>1 DEF free_tqueues, AtRest, Restrict
<1>2. /\ K \subseteq DOMAIN tq /\ \A i \in DOMAIN tq : tq[i].connected => i \in K
  OBVIOUS
<1> HIDE DEF K
<1>3. DOMAIN tq' = K /\ \A i \in K : tq'[i] = tq[i]
  BY <1>1
<1>4. Sound(sh', nh', tq', conns')
  <2>1. Fields(sh', nh', tq', conns')
    BY <1>0, <1>1, <1>2, <1>3 DEF Sound, Fields
  <2>2. Paired(sh', nh', tq')
    BY <1>0, <1>1, <1>2, <1>3 DEF Sound, Paired
  <2> QED  BY <1>0, <1>1, <2>1, <2>2 DEF Sound
<1>5. Looking(pc', DOMAIN sh')
  <2>1. /\ conns \in Nat /\ DOMAIN sh \in SUBSET (1 .. conns)
        /\ DOMAIN pc = DOMAIN Loop("top")
    BY <1>0 DEF Looking, Sound, Fields
  <2>2. first(DOMAIN sh) \in {0} \cup DOMAIN sh
    BY <2>1, FirstIs
  <2>3. Looking(Swept(first(DOMAIN sh), DOMAIN sh), DOMAIN sh)
    BY ONLY <2>1, <2>2, PolledIs
  <2> QED  BY <1>1, <2>3
<1> QED  BY <1>0, <1>1, <1>4, <1>5, IdleIs DEF IInv

\* The handle that the loop is at is closed, and the loop goes on.
LEMMA GoneKeeps ==
  ASSUME IInv, pc.at \in Steps1, Close(pc.h), verb' = NoVerb, UNCHANGED crashed,
         pc' = Polled(pc.next, DOMAIN nh') \/ pc' = Swept(pc.next, DOMAIN sh')
  PROVE  IInv'
<1>0. /\ Sound(sh, nh, tq, conns) /\ crashed = FALSE
      /\ pc.h \in DOMAIN sh /\ pc.next \in {0} \cup DOMAIN sh /\ pc.h # pc.next
      /\ DOMAIN pc = DOMAIN Loop("top")
      /\ conns \in Nat /\ DOMAIN sh \subseteq 1 .. conns
  BY DEF IInv, Looking, Sound, Fields
<1> DEFINE D == DOMAIN sh \ {pc.h}
<1>1. Sound(sh', nh', tq', conns') /\ DOMAIN sh' = D /\ DOMAIN nh' = D
  BY <1>0, CloseKeeps
<1>2. pc.next \in {0} \cup D /\ D \in SUBSET (1 .. conns)
  BY <1>0
<1> HIDE DEF D
<1>3. Looking(Polled(pc.next, D), D) /\ Looking(Swept(pc.next, D), D)
  BY ONLY <1>0, <1>2, PolledIs
<1> QED  BY <1>0, <1>1, <1>3, IdleIs DEF IInv

\* The sweep, and what is done after a verb.
LEMMA SweepKeeps ==
  ASSUME IInv, sweep_notified \/ sweep_recycled \/ closed \/ dropped
  PROVE  IInv'
<1>1. CASE sweep_notified
  <2>1. /\ pc.at = "sweep" /\ verb' = Verb("drop", pc.h, 0)
        /\ UNCHANGED <<sh, nh, tq, conns, pc, crashed>>
    BY <1>1 DEF sweep_notified, handles
  <2>2. Doing(verb', pc', DOMAIN sh', tq')
    BY <2>1 DEF Doing, Verb, NoVerb
  <2> QED  BY <2>1, <2>2 DEF IInv
<1>2. CASE sweep_recycled
  <2>1. /\ pc.at = "sweep" /\ verb' = NoVerb /\ Close(pc.h)
        /\ pc' = Swept(pc.next, DOMAIN sh') /\ UNCHANGED crashed
    BY <1>2 DEF sweep_recycled, AtRest
  <2> QED  BY <2>1, GoneKeeps DEF Steps1
<1>3. CASE closed
  <2>1. /\ verb.then = "close" /\ verb' = NoVerb /\ Close(verb.h)
        /\ pc' = Polled(pc.next, DOMAIN nh') /\ UNCHANGED crashed
    BY <1>3 DEF closed, Returns
  <2>2. pc.at \in Steps1 /\ verb.h = pc.h
    BY <2>1 DEF IInv, Doing, Steps1
  <2> QED  BY <2>1, <2>2, GoneKeeps
<1>4. CASE dropped
  <2>1. /\ verb.then = "drop" /\ verb' = NoVerb /\ Close(verb.h)
        /\ pc' = Swept(pc.next, DOMAIN sh') /\ UNCHANGED crashed
    BY <1>4 DEF dropped, Returns
  <2>2. pc.at \in Steps1 /\ verb.h = pc.h
    BY <2>1 DEF IInv, Doing, Steps1
  <2> QED  BY <2>1, <2>2, GoneKeeps
<1> QED  BY <1>1, <1>2, <1>3, <1>4

LEMMA ReturnKeeps ==
  ASSUME IInv, returned \/ unidled \/ redirected
  PROVE  IInv'
<1>0. Sound(sh, nh, tq, conns) /\ Looking(pc, DOMAIN sh) /\ crashed = FALSE
  BY DEF IInv
<1>1. CASE returned
  <2>1. UNCHANGED <<sh, nh, tq, conns, pc, crashed>> /\ verb' = NoVerb
    BY <1>1 DEF returned, handles
  <2>2. Idle(verb')
    BY <2>1, IdleIs
  <2> QED  BY <1>0, <2>1, <2>2, LoopKeeps
<1>2. CASE unidled
  <2>1. /\ verb.then = "input" /\ new_input(verb.h, verb.lines, nh)
        /\ verb' = NoVerb /\ UNCHANGED <<sh, conns, pc>>
    BY <1>2 DEF unidled, Returns
  <2>2. verb.h \in DOMAIN tq
    BY <2>1 DEF IInv, Doing, Sound, Paired
  <2>3. Sound(sh', nh', tq', conns') /\ crashed' = FALSE
    BY <1>0, <2>1, <2>2, InputKeeps
  <2> QED  BY <1>0, <2>1, <2>3, IdleIs DEF IInv
<1>3. CASE redirected
  <2>1. /\ verb.then = "redirect"
        /\ sh' = [sh EXCEPT ![verb.h].disconnect_me = FALSE]
        /\ verb' = Verb("return", 0, 0) /\ UNCHANGED <<nh, tq, conns, pc, crashed>>
    BY <1>3 DEF redirected, Returns
  <2>2. verb.h \in DOMAIN sh
    BY <2>1 DEF IInv, Doing
  <2>3. Sound(sh', nh', tq', conns') /\ DOMAIN sh' = DOMAIN sh
    BY <1>0, <2>1, <2>2, ShandleKeeps
  <2> QED  BY <1>0, <2>1, <2>3, IdleIs DEF IInv
<1> QED  BY <1>1, <1>2, <1>3

LEMMA NumbersStay == Grown(tq, tq)
  BY DEF Grown

\* Built-in functions, other than those that open a connection.
LEMMA BuiltInKeeps ==
  ASSUME IInv, NEW i,
         \/ i \in DOMAIN sh /\ boot_player(i)
         \/ i \in DOMAIN sh /\ \E len \in focus.outputs, flush_ok \in BOOLEAN :
                                  notify(i, len, flush_ok)
         \/ i \in DOMAIN sh /\ \E do_binary \in BOOLEAN :
                                  set_connection_binary(i, do_binary)
         \/ i \in DOMAIN tq /\ force_input(i)
         \/ listen \/ unlisten \/ \E u \in Users : recycle(u)
         \/ \E l : open_asks(l)
         \/ name_lookup_call \/ \E task : kill_task(task)
  PROVE  IInv'
<1>0. Sound(sh, nh, tq, conns) /\ crashed = FALSE /\ DOMAIN nh = DOMAIN sh
  BY DEF IInv, Sound, Paired
<1>1. CASE i \in DOMAIN sh /\ boot_player(i)
  <2>1. sh' = [sh EXCEPT ![i].disconnect_me = TRUE]
        /\ UNCHANGED <<nh, tq, conns, pc, verb, crashed>>
    BY <1>1 DEF boot_player, Calls, MayCall
  <2>2. Sound(sh', nh', tq', conns') /\ DOMAIN sh' = DOMAIN sh
    BY <1>0, <1>1, <2>1, ShandleKeeps
  <2> QED  BY <1>0, <2>1, <2>2, NumbersStay, CallKeeps
<1>2. CASE i \in DOMAIN sh /\ \E len \in focus.outputs, flush_ok \in BOOLEAN :
                                 notify(i, len, flush_ok)
  <2>1. PICK len, flush_ok, n :
          /\ n \in enqueue_output(len, flush_ok, nh[i])
          /\ nh' = [nh EXCEPT ![i] = n]
          /\ UNCHANGED <<sh, tq, conns, pc, verb, crashed>>
    BY <1>2 DEF notify, Calls, MayCall
  <2>2. Same(nh[i], n)
    BY <2>1, EnqueueSame
  <2>3. Sound(sh', nh', tq', conns')
    BY <1>0, <1>2, <2>1, <2>2, HandleKeeps
  <2> QED  BY <1>0, <2>1, <2>3, NumbersStay, CallKeeps
<1>3. CASE i \in DOMAIN sh /\ \E do_binary \in BOOLEAN :
                                 set_connection_binary(i, do_binary)
  <2>1. PICK b : /\ nh' = [nh EXCEPT ![i].binary = b]
                 /\ UNCHANGED <<sh, tq, conns, pc, verb, crashed>>
    BY <1>3 DEF set_connection_binary, Calls, MayCall
  <2> DEFINE n == [nh[i] EXCEPT !.binary = b]
  <2>2. nh' = [nh EXCEPT ![i] = n]
    BY <2>1
  <2>3. Same(nh[i], n)
    BY DEF Same, NhandleFields, new_nhandle
  <2> HIDE DEF n
  <2>4. Sound(sh', nh', tq', conns')
    <3>1. PICK m : m = n
      OBVIOUS
    <3>2. i \in DOMAIN nh /\ Same(nh[i], m)
      BY <1>0, <1>3, <2>3, <3>1
    <3>3. Sound(sh, [nh EXCEPT ![i] = m], tq, conns)
      BY ONLY <1>0, <3>2, HandleKeeps
    <3> QED  BY ONLY <2>1, <2>2, <3>1, <3>3
  <2> QED  BY <1>0, <2>1, <2>4, NumbersStay, CallKeeps
<1>4. CASE i \in DOMAIN tq /\ force_input(i)
  <2>1. new_input(i, 1, nh) /\ UNCHANGED <<sh, conns, pc, verb>>
    BY <1>4 DEF force_input, Calls, MayCall
  <2>2. Sound(sh', nh', tq', conns') /\ crashed' = FALSE /\ Grown(tq, tq')
    BY <1>0, <1>4, <2>1, InputKeeps
  <2> QED  BY <2>1, <2>2, CallKeeps
<1>5. CASE \/ listen \/ unlisten \/ \E u \in Users : recycle(u)
           \/ \E l : open_asks(l)
           \/ name_lookup_call \/ \E task : kill_task(task)
  <2>1. UNCHANGED <<sh, nh, tq, conns, pc, crashed>>
    BY <1>5 DEF listen, unlisten, recycle, open_asks, name_lookup_call, kill_task,
                Calls, MayCall, handles
  <2>2. verb' = verb \/ verb' = [verb EXCEPT !.suspended = TRUE]
    BY <1>5 DEF listen, unlisten, recycle, open_asks, name_lookup_call, kill_task,
                Calls
  <2>3. DOMAIN verb' = DOMAIN verb /\ verb'.then = verb.then /\ verb'.h = verb.h
    <3>1. DOMAIN verb = DOMAIN NoVerb
      BY DEF IInv, Doing
    <3> QED  BY <2>2, <3>1 DEF NoVerb, Verb
  <2> QED  BY <1>0, <2>1, <2>3, NumbersStay, CallKeeps
<1> QED  BY <1>1, <1>2, <1>3, <1>4, <1>5

\* A connection is opened, or accepted.
LEMMA OpenKeeps ==
  ASSUME IInv,
         \/ accept_new_connection \/ opened \/ accepted
         \/ \E l : open_network_connection(l)
  PROVE  IInv'
<1>0. Sound(sh, nh, tq, conns) /\ Looking(pc, DOMAIN sh) /\ crashed = FALSE
      /\ Doing(verb, pc, DOMAIN sh, tq)
  BY DEF IInv
<1>1. CASE accept_new_connection
  <2>1. PICK l : /\ new_connection(l, FALSE, TRUE) /\ verb = NoVerb
                 /\ pc.at = "accept" /\ pc' = [pc EXCEPT !.todo = Tail(pc.todo)]
                 /\ UNCHANGED <<verb, crashed>>
    BY <1>1 DEF accept_new_connection, AtRest
  <2>2. Sound(sh', nh', tq', conns') /\ DOMAIN sh \subseteq DOMAIN sh'
    BY <1>0, <2>1, NewKeeps
  <2>3. Looking(pc', DOMAIN sh')
    <3>1. Looking(pc, DOMAIN sh')
      BY <1>0, <2>2 DEF Looking
    <3> QED  BY <2>1, <3>1, StepIs
  <2> QED  BY <1>0, <2>1, <2>2, <2>3, IdleIs DEF IInv
<1>2. ASSUME NEW l, outbound_connection(l), UNCHANGED <<pc, verb, crashed>>
      PROVE  IInv'
  <2>1. PICK print : new_connection(l, TRUE, print)
    BY <1>2 DEF outbound_connection
  <2>2. /\ Sound(sh', nh', tq', conns') /\ DOMAIN sh \subseteq DOMAIN sh'
        /\ Grown(tq, tq')
    BY <1>0, <2>1, NewKeeps
  <2> QED  BY <1>0, <1>2, <2>2, CallKeeps
<1>3. CASE opened
  <2>1. UNCHANGED <<pc, verb, crashed>>
    BY <1>3 DEF opened, answered
  <2>2. CASE outbound_connection(asked.listener)
    BY <1>2, <2>1, <2>2
  <2>3. CASE UNCHANGED <<sh, nh, tq, conns>>
    BY <2>1, <2>3 DEF IInv
  <2> QED  BY <1>3, <2>2, <2>3 DEF opened, handles
<1>4. CASE \E l : open_network_connection(l)
  <2>1. PICK l : outbound_connection(l) /\ UNCHANGED <<pc, verb>>
    BY <1>4 DEF open_network_connection, Calls, MayCall
  <2>2. UNCHANGED crashed
    BY <2>1 DEF outbound_connection
  <2> QED  BY <1>2, <2>1, <2>2
<1> QED  BY <1>1, <1>3, <1>4 DEF accepted

-----------------------------------------------------------------------------
(* Theorem *)

LEMMA StepKeeps == IInv /\ [Next]_vars => IInv'
<1> SUFFICES ASSUME IInv, [Next]_vars PROVE IInv'
  OBVIOUS
<1>1. CASE Restart
  BY <1>1, RestartKeeps
<1>2. ASSUME MainLoop PROVE IInv'
  <2>1. CASE \/ notify_saved \/ checkpoint_started \/ db_flush
             \/ accept_nothing \/ read_nothing \/ write_nothing
             \/ run_in_background \/ run_nothing \/ sweep_kept
    <3>1. AtRest /\ UNCHANGED <<sh, nh, tq, conns, crashed>>
      BY <2>1 DEF notify_saved, checkpoint_started, db_flush, accept_nothing,
                  read_nothing, write_nothing, run_in_background, run_nothing,
                  sweep_kept, handles
    <3> QED  BY <2>1, <3>1, RestKeeps
  <2>2. CASE \E u \in Users : player_connected(u)
    BY <2>2, LoginKeeps
  <2>3. CASE \E i \in DOMAIN tq : run_command(i)
    BY <2>3, CommandKeeps
  <2> QED  BY <1>2, <2>1, <2>2, <2>3, OpenKeeps, IoKeeps, FreeKeeps,
              SweepKeeps, ReturnKeeps DEF MainLoop
<1>3. ASSUME BuiltIn PROVE IInv'
  BY <1>3, BuiltInKeeps, OpenKeeps DEF BuiltIn
<1>4. ASSUME Lookups PROVE IInv'
  <2>1. CASE mplex_wait \/ check_registered_fds
    <3>1. AtRest /\ UNCHANGED <<sh, nh, tq, conns, crashed>>
      BY <2>1 DEF mplex_wait, check_registered_fds, handles
    <3> QED  BY <2>1, <3>1, RestKeeps
  <2>2. CASE accept_asks
    <3>1. UNCHANGED <<sh, nh, tq, conns, pc, verb, crashed>>
      BY <2>2 DEF accept_asks, server, handles
    <3> QED  BY <3>1 DEF IInv
  <2> QED  BY <1>4, <2>1, <2>2, BuiltInKeeps DEF Lookups
<1>5. CASE opened \/ accepted
  BY <1>5, OpenKeeps
<1>6. CASE Others \/ UNCHANGED vars
  <2>1. UNCHANGED <<sh, nh, tq, conns, pc, verb, crashed>>
    BY <1>6 DEF Others, vars, server, handles
  <2> QED  BY <2>1 DEF IInv
<1> QED  BY <1>1, <1>2, <1>3, <1>4, <1>5, <1>6 DEF Next, Server

LEMMA InvariantHolds == Spec => []IInv
  BY InitSound, StepKeeps, PTL DEF Spec

\* No step of the server follows a null or a stale pointer, whatever verbs do
\* to connections while the main loop is in the middle of its list, and
\* player_connected() in the middle of a redirection (server.c:520, 1136).
THEOREM HandlesAreSound == Spec => []HandlesSound
<1>1. IInv => HandlesSound
  <2> SUFFICES ASSUME IInv PROVE HandlesSound
    OBVIOUS
  <2>1. /\ ~ crashed
        /\ DOMAIN sh = DOMAIN nh
        /\ \A i, j \in DOMAIN sh : sh[i].player = sh[j].player => i = j
        /\ \A i \in DOMAIN sh : tq[i].player = sh[i].player
                                /\ tq[i].suspended = nh[i].suspended
    BY DEF IInv, Sound, Numbered, Paired
  <2>2. {i \in DOMAIN tq : tq[i].connected} = DOMAIN sh
    BY DEF IInv, Sound, Paired
  <2>3. {pc.h, pc.next} \subseteq {0} \cup DOMAIN sh
    BY DEF IInv, Looking
  <2>4. verb.then \in {"close", "drop", "redirect", "input"} => verb.h \in DOMAIN sh
    BY DEF IInv, Doing, Looking, Steps1
  <2> QED  BY <2>1, <2>2, <2>3, <2>4 DEF HandlesSound
<1> QED  BY <1>1, InvariantHolds, PTL

-----------------------------------------------------------------------------
(* What the notifiers are told *)

\* l is where u is connected among s, shandles or those a dump lists.
Hears(s, u, l) ==
  \/ \E i \in DOMAIN s : s[i].player = u /\ l = s[i].listener
  \/ (\A i \in DOMAIN s : s[i].player # u) /\ l = NOTHING
\* Connections that a dump lists.
Filed(t) ==
  /\ \E S : t \in Seq(S)
  /\ \A j, k \in DOMAIN t : t[j].player = t[k].player => j = k
Saved(d) ==
  /\ d.users \subseteq Users /\ DOMAIN d.told = Users
  /\ Filed(d.connections)
  /\ \A u \in d.users : Hears(d.connections, u, d.told[u])
\* The verb v is a notifier that ended the period of u, whose handle is there.
Ends == {"close", "drop", "redirect"}
Ended(v, s, u) == v.then \in Ends /\ s[v.h].player = u

\* While the saved connections are gone through nobody is logged in.
Starting(p, v, s, U, f) ==
  /\ Filed(p.todo) /\ v.then \in {"none", "return"}
  /\ \A i \in DOMAIN s : s[i].player \notin U
  /\ \A u \in U : Hears(p.todo, u, f[u])
Serving(v, s, U, f) ==
  \A u \in U : IF Ended(v, s, u) THEN f[u] = NOTHING ELSE Hears(s, u, f[u])

NInv ==
  /\ users \subseteq Users /\ DOMAIN told = Users /\ wrong = FALSE
  /\ Saved(dump)
  /\ IF pc.at = "saved" THEN Starting(pc, verb, sh, users, told)
                        ELSE Serving(verb, sh, users, told)

\* The connections of users U are the same among s and r.
Kept(U, s, r) ==
  /\ \A i \in DOMAIN s : s[i].player \in U =>
       i \in DOMAIN r /\ r[i].player = s[i].player /\ r[i].listener = s[i].listener
  /\ \A i \in DOMAIN r : r[i].player \in U =>
       i \in DOMAIN s /\ r[i].player = s[i].player /\ r[i].listener = s[i].listener

LEMMA HearsKept ==
  ASSUME NEW U, NEW s, NEW r, Kept(U, s, r), NEW u \in U, NEW l, Hears(s, u, l)
  PROVE  Hears(r, u, l)
<1>1. CASE \E i \in DOMAIN s : s[i].player = u /\ l = s[i].listener
  BY <1>1 DEF Kept, Hears
<1>2. CASE (\A i \in DOMAIN s : s[i].player # u) /\ l = NOTHING
  BY <1>2 DEF Kept, Hears
<1> QED  BY <1>1, <1>2 DEF Hears

\* Nobody is at two places.
LEMMA HearsOne ==
  ASSUME NEW s, \A i, j \in DOMAIN s : s[i].player = s[j].player => i = j,
         NEW i \in DOMAIN s, NEW l, Hears(s, s[i].player, l)
  PROVE  l = s[i].listener
  BY DEF Hears

\* A step that tells nobody anything: either the verb is the same, or neither
\* verb ends a period.
LEMMA QuietKeeps ==
  ASSUME NInv, UNCHANGED <<told, wrong, dump, users>>,
         Kept(users, sh, sh'),
         UNCHANGED pc \/ (pc.at # "saved" /\ pc'.at # "saved"),
         \/ /\ verb'.then = verb.then /\ verb'.h = verb.h
            /\ verb.then \in Ends => sh'[verb.h].player = sh[verb.h].player
         \/ /\ verb.then \notin Ends /\ verb'.then \notin Ends
            /\ pc.at = "saved" => verb'.then \in {"none", "return"}
  PROVE  NInv'
<1>1. CASE pc.at = "saved"
  <2>1. pc' = pc /\ Starting(pc, verb, sh, users, told)
    BY <1>1 DEF NInv
  <2>2. verb'.then \in {"none", "return"}
    BY <1>1, <2>1 DEF Starting
  <2>3. \A i \in DOMAIN sh' : sh'[i].player \notin users
    BY <2>1 DEF Starting, Kept
  <2>4. Starting(pc', verb', sh', users', told')
    BY <2>1, <2>2, <2>3 DEF Starting
  <2> QED  BY <1>1, <2>1, <2>4 DEF NInv
<1>2. CASE pc.at # "saved"
  <2>1. pc'.at # "saved" /\ Serving(verb, sh, users, told)
    BY <1>2 DEF NInv
  <2>2. ASSUME NEW u \in users
        PROVE  Ended(verb', sh', u) <=> Ended(verb, sh, u)
    BY DEF Ended, Ends
  <2>3. ASSUME NEW u \in users
        PROVE  IF Ended(verb', sh', u) THEN told[u] = NOTHING
                                       ELSE Hears(sh', u, told[u])
    <3>1. CASE Ended(verb, sh, u)
      BY <2>1, <2>2, <3>1 DEF Serving
    <3>2. CASE ~ Ended(verb, sh, u)
      <4>1. Hears(sh, u, told[u])
        BY <2>1, <3>2 DEF Serving
      <4>2. Hears(sh', u, told[u])
        BY <4>1, HearsKept
      <4> QED  BY <2>2, <3>2, <4>2
    <3> QED  BY <3>1, <3>2
  <2>4. Serving(verb', sh', users', told')
    BY <2>3 DEF Serving
  <2> QED  BY <2>1, <2>4 DEF NInv
<1> QED  BY <1>1, <1>2

LEMMA KeptSame ==
  /\ \A U, s : Kept(U, s, s)
  /\ sh' = sh => \A U : Kept(U, sh, sh')
  BY DEF Kept

\* Other fields of a shandle.
LEMMA KeptField ==
  ASSUME Sound(sh, nh, tq, conns), NEW U, NEW i \in DOMAIN sh, NEW b,
         sh' = [sh EXCEPT ![i].disconnect_me = b]
  PROVE  /\ Kept(U, sh, sh')
         /\ \A j \in DOMAIN sh : sh'[j].player = sh[j].player
                                 /\ sh'[j].listener = sh[j].listener
<1>1. DOMAIN sh[i] = ShandleFields
  BY DEF Sound, Fields
<1>2. /\ DOMAIN sh' = DOMAIN sh
      /\ sh'[i].player = sh[i].player /\ sh'[i].listener = sh[i].listener
      /\ \A j \in DOMAIN sh : j # i => sh'[j] = sh[j]
  BY <1>1 DEF ShandleFields
<1>3. \A j \in DOMAIN sh : sh'[j].player = sh[j].player
                           /\ sh'[j].listener = sh[j].listener
  BY <1>2
<1> QED  BY <1>2, <1>3 DEF Kept

\* A new connection is nobody's.
LEMMA KeptNew ==
  ASSUME Sound(sh, nh, tq, conns), NEW U \in SUBSET Users, NEW l, NEW outbound,
         NEW print, new_connection(l, outbound, print)
  PROVE  /\ Kept(U, sh, sh')
         /\ \A j \in DOMAIN sh : sh'[j] = sh[j]
<1> DEFINE i == conns + 1
<1>1. PICK s : /\ sh' = [j \in DOMAIN sh \cup {i} |-> IF j = i THEN s ELSE sh[j]]
               /\ s.player = NOTHING - i
  BY DEF new_connection, added
<1>2. i \notin DOMAIN sh /\ conns \in Nat
  BY DEF Sound, Fields
<1>3. NOTHING - i \notin U
  BY <1>2, UsersAssumption
<1>4. /\ DOMAIN sh' = DOMAIN sh \cup {i} /\ sh'[i].player \notin U
      /\ \A j \in DOMAIN sh : sh'[j] = sh[j]
  BY <1>1, <1>2, <1>3
<1> QED  BY <1>4 DEF Kept

LEMMA PlacesAre ==
  ASSUME DOMAIN pc = DOMAIN Loop("top"), NEW i, NEW D
  PROVE  /\ Polled(i, D).at # "saved" /\ Swept(i, D).at # "saved"
         /\ \A t : [pc EXCEPT !.todo = t].at = pc.at
         /\ [pc EXCEPT !.at = "write"].at # "saved"
         /\ \A at : Loop(at).at = at
<1>1. Polled(i, D).at # "saved" /\ Swept(i, D).at # "saved"
  BY DEF Polled, Swept, Visit, Loop
<1>2. /\ \A t : [pc EXCEPT !.todo = t].at = pc.at
      /\ [pc EXCEPT !.at = "write"].at # "saved"
      /\ \A at : Loop(at).at = at
  BY DEF Loop
<1> QED  BY <1>1, <1>2

LEMMA VerbsAre ==
  /\ NoVerb.then \notin Ends /\ NoVerb.then \in {"none", "return"}
  /\ \A h, lines : Verb("return", h, lines).then \notin Ends
  /\ \A h, lines : Verb("return", h, lines).then \in {"none", "return"}
  /\ \A h, lines : Verb("input", h, lines).then \notin Ends
  /\ \A h, lines : Verb("login", h, lines).then \notin Ends
  BY DEF NoVerb, Verb, Ends

\* The loop, where it neither closes nor opens a connection.
LEMMA LoopTells ==
  ASSUME IInv, NInv,
         \/ checkpoint_started \/ mplex_wait \/ accept_nothing \/ read_nothing
         \/ write_nothing \/ check_registered_fds \/ run_in_background
         \/ run_nothing \/ sweep_kept \/ free_tqueues
         \/ \E i \in DOMAIN tq : run_command(i)
         \/ \E chunk \in focus.chunks, idle \in BOOLEAN : read_chunk(chunk, idle)
  PROVE  NInv'
<1>1. UNCHANGED <<told, wrong, dump, users, sh>> /\ verb = NoVerb
  BY DEF checkpoint_started, mplex_wait, accept_nothing, read_nothing,
         write_nothing, check_registered_fds, run_in_background, run_nothing,
         sweep_kept, free_tqueues, run_command, read_chunk, world, handles, AtRest
<1>2. DOMAIN pc = DOMAIN Loop("top")
  BY DEF IInv, Looking
<1>3. pc.at # "saved" /\ pc'.at # "saved"
  <2>1. CASE checkpoint_started \/ mplex_wait
    BY <2>1 DEF checkpoint_started, mplex_wait, Loop
  <2>2. CASE accept_nothing
    <3>1. \/ pc'.at = Polled(first(DOMAIN nh), DOMAIN nh).at
          \/ \E t : pc'.at = [pc EXCEPT !.todo = t].at
      BY <2>2 DEF accept_nothing
    <3>2. pc.at = "accept"
      BY <2>2 DEF accept_nothing
    <3>3. \A t : [pc EXCEPT !.todo = t].at = pc.at
      BY ONLY <1>2, PlacesAre
    <3>4. Polled(first(DOMAIN nh), DOMAIN nh).at # "saved"
      BY ONLY <1>2, PlacesAre
    <3> QED  BY ONLY <3>1, <3>2, <3>3, <3>4
  <2>3. CASE read_nothing \/ \E chunk \in focus.chunks, idle \in BOOLEAN :
                                read_chunk(chunk, idle)
    <3>1. pc.at = "read" /\ pc' = [pc EXCEPT !.at = "write"]
      BY <2>3 DEF read_nothing, read_chunk
    <3> QED  BY <1>2, <3>1, PlacesAre
  <2>4. CASE write_nothing
    <3>1. pc.at = "write" /\ pc' = Polled(pc.next, DOMAIN nh)
      BY <2>4 DEF write_nothing
    <3> QED  BY <1>2, <3>1, PlacesAre
  <2>5. CASE check_registered_fds
    <3>1. /\ pc.at = "check"
          /\ \/ pc'.at = Loop("dump").at \/ pc'.at = Loop("tasks").at
             \/ \E t : pc'.at = [pc EXCEPT !.todo = t].at
      BY <2>5 DEF check_registered_fds
    <3>2. /\ \A t : [pc EXCEPT !.todo = t].at = pc.at
          /\ Loop("dump").at = "dump" /\ Loop("tasks").at = "tasks"
      BY ONLY <1>2, PlacesAre
    <3> QED  BY ONLY <3>1, <3>2
  <2>6. CASE \/ run_in_background \/ run_nothing
             \/ \E i \in DOMAIN tq : run_command(i)
    <3>1. pc.at = "tasks" /\ pc' = Loop("free")
      BY <2>6 DEF run_in_background, run_nothing, run_command
    <3> QED  BY <3>1 DEF Loop
  <2>7. CASE sweep_kept
    <3>1. pc.at = "sweep" /\ pc' = Swept(pc.next, DOMAIN sh)
      BY <2>7 DEF sweep_kept
    <3> QED  BY <1>2, <3>1, PlacesAre
  <2>8. CASE free_tqueues
    <3>1. pc.at = "free" /\ pc' = Swept(first(DOMAIN sh), DOMAIN sh)
      BY <2>8 DEF free_tqueues
    <3>2. Swept(first(DOMAIN sh), DOMAIN sh).at # "saved"
      BY ONLY <1>2, PlacesAre
    <3> QED  BY <3>1, <3>2
  <2> QED  BY <2>1, <2>2, <2>3, <2>4, <2>5, <2>6, <2>7, <2>8
<1>4. verb.then \notin Ends /\ verb'.then \notin Ends
  <2>1. \/ verb' = verb \/ verb' = Verb("return", 0, 0)
        \/ \E h, lines : verb' = Verb("input", h, lines)
        \/ \E h, lines : verb' = Verb("login", h, lines)
    BY DEF checkpoint_started, mplex_wait, accept_nothing, read_nothing,
           write_nothing, check_registered_fds, run_in_background, run_nothing,
           sweep_kept, free_tqueues, run_command, read_chunk
  <2> QED  BY <1>1, <2>1, VerbsAre
<1>5. Kept(users, sh, sh')
  BY <1>1, KeptSame
<1> QED  BY <1>1, <1>3, <1>4, <1>5, QuietKeeps

\* Calls of built-in functions other than recycle().
LEMMA CallTells ==
  ASSUME IInv, NInv, NEW i,
         \/ i \in DOMAIN sh /\ boot_player(i)
         \/ \E len \in focus.outputs, flush_ok \in BOOLEAN : notify(i, len, flush_ok)
         \/ \E do_binary \in BOOLEAN : set_connection_binary(i, do_binary)
         \/ force_input(i)
         \/ listen \/ unlisten
         \/ \E l : open_asks(l)
         \/ name_lookup_call \/ \E task : kill_task(task)
  PROVE  NInv'
<1>1. UNCHANGED <<told, wrong, dump, users, pc>>
  BY DEF boot_player, notify, set_connection_binary, force_input, listen, unlisten,
         open_asks, name_lookup_call, kill_task, Calls, MayCall, world
<1>2. verb'.then = verb.then /\ verb'.h = verb.h
  <2>1. verb' = verb \/ verb' = [verb EXCEPT !.suspended = TRUE]
    BY DEF boot_player, notify, set_connection_binary, force_input, listen,
           unlisten, open_asks, name_lookup_call, kill_task, Calls
  <2>2. DOMAIN verb = DOMAIN NoVerb
    BY DEF IInv, Doing
  <2> QED  BY <2>1, <2>2 DEF NoVerb, Verb
<1>3. Sound(sh, nh, tq, conns)
  BY DEF IInv
<1>4. verb.then \in Ends => verb.h \in DOMAIN sh
  BY DEF IInv, Doing, Looking, Ends, Steps1
<1>5. /\ Kept(users, sh, sh')
      /\ verb.then \in Ends => sh'[verb.h].player = sh[verb.h].player
  <2>1. CASE i \in DOMAIN sh /\ boot_player(i)
    <3>1. sh' = [sh EXCEPT ![i].disconnect_me = TRUE]
      BY <2>1 DEF boot_player
    <3> QED  BY <1>3, <1>4, <2>1, <3>1, KeptField
  <2>2. CASE ~ (i \in DOMAIN sh /\ boot_player(i))
    <3>1. sh' = sh
      BY <2>2 DEF notify, set_connection_binary, force_input, listen, unlisten,
                  open_asks, name_lookup_call, kill_task, handles
    <3> QED  BY <3>1, KeptSame
  <2> QED  BY <2>1, <2>2
<1> QED  BY <1>1, <1>2, <1>5, QuietKeeps

\* A connection is opened or accepted.
LEMMA OpenTells ==
  ASSUME IInv, NInv,
         \/ accept_new_connection \/ opened \/ accepted
         \/ \E l : open_network_connection(l)
  PROVE  NInv'
<1>1. UNCHANGED <<told, wrong, dump, users, verb>>
  BY DEF accept_new_connection, opened, accepted, answered, open_network_connection,
         outbound_connection, Calls, world
<1>2. UNCHANGED pc \/ (pc.at # "saved" /\ pc'.at # "saved")
  <2>1. CASE accept_new_connection
    <3>1. DOMAIN pc = DOMAIN Loop("top")
      BY DEF IInv, Looking
    <3>2. pc.at = "accept" /\ pc' = [pc EXCEPT !.todo = Tail(pc.todo)]
      BY <2>1 DEF accept_new_connection
    <3> QED  BY <3>1, <3>2, PlacesAre
  <2>2. CASE ~ accept_new_connection
    BY <2>2 DEF opened, accepted, open_network_connection, Calls, MayCall
  <2> QED  BY <2>1, <2>2
<1>3. sh' = sh \/ \E l, outbound, print : new_connection(l, outbound, print)
  BY DEF accept_new_connection, opened, accepted, open_network_connection,
         outbound_connection, handles
<1>4. verb.then \in Ends => verb.h \in DOMAIN sh
  BY DEF IInv, Doing, Looking, Ends, Steps1
<1>5. Kept(users, sh, sh') /\ \A j \in DOMAIN sh : sh'[j] = sh[j]
  <2>1. CASE sh' = sh
    BY <2>1, KeptSame
  <2>2. CASE \E l, outbound, print : new_connection(l, outbound, print)
    <3>1. Sound(sh, nh, tq, conns) /\ users \in SUBSET Users
      BY DEF IInv, NInv
    <3> QED  BY <2>2, <3>1, KeptNew
  <2> QED  BY <1>3, <2>1, <2>2
<1> QED  BY <1>1, <1>2, <1>4, <1>5, QuietKeeps

\* user_disconnected is called for the user p of the listener l, whose handle i
\* is there until the verb is done.
LEMMA EndKeeps ==
  ASSUME NInv, NEW p, NEW l, NEW i,
         pc.at # "saved", pc'.at # "saved", verb.then \notin Ends,
         verb'.then \in Ends, verb'.h = i, sh'[i].player = p,
         p \in users => \A m : Hears(sh, p, m) => m = l,
         notified(p, l, "disconnected"), UNCHANGED <<users, dump>>,
         Kept(users \ {p}, sh, sh')
  PROVE  NInv'
<1>1. /\ users \subseteq Users /\ DOMAIN told = Users /\ wrong = FALSE
      /\ Saved(dump) /\ Serving(verb, sh, users, told)
  BY DEF NInv
<1>2. \A u \in users : Hears(sh, u, told[u])
  BY <1>1 DEF Serving, Ended
<1>3. p \in users => told[p] = l
  BY <1>2
<1>4. wrong' = FALSE /\ DOMAIN told' = Users
      /\ \A u \in users : told'[u] = IF u = p THEN NOTHING ELSE told[u]
  <2>1. CASE p \in users
    <3>1. told' = [told EXCEPT ![p] = NOTHING] /\ wrong' = (wrong \/ told[p] # l)
      BY <2>1 DEF notified
    <3> QED  BY <1>1, <1>3, <2>1, <3>1
  <2>2. CASE p \notin users
    BY <1>1, <2>2 DEF notified
  <2> QED  BY <2>1, <2>2
<1>5. ASSUME NEW u \in users
      PROVE  IF Ended(verb', sh', u) THEN told'[u] = NOTHING
                                     ELSE Hears(sh', u, told'[u])
  <2>1. Ended(verb', sh', u) <=> u = p
    BY DEF Ended
  <2>2. CASE u = p
    BY <1>4, <2>1, <2>2
  <2>3. CASE u # p
    <3>1. u \in users \ {p} /\ Hears(sh, u, told[u])
      BY <1>2, <2>3
    <3>2. Hears(sh', u, told[u])
      BY <3>1, HearsKept
    <3> QED  BY <1>4, <2>1, <2>3, <3>2
  <2> QED  BY <2>2, <2>3
<1>6. Serving(verb', sh', users', told')
  BY <1>5 DEF Serving
<1> QED  BY <1>1, <1>4, <1>6 DEF NInv

\* user_connected or user_reconnected is called for p at the listener l.
LEMMA BeginKeeps ==
  ASSUME NInv, NEW p, NEW l, NEW what \in {"connected", "reconnected"},
         pc.at # "saved", pc'.at # "saved", verb'.then \notin Ends,
         \A u \in users \ {p} : ~ Ended(verb, sh, u),
         p \in users => /\ told[p] = IF what = "connected" THEN NOTHING ELSE l
                        /\ Hears(sh', p, l),
         notified(p, l, what), UNCHANGED <<users, dump>>,
         Kept(users \ {p}, sh, sh')
  PROVE  NInv'
<1>1. /\ users \subseteq Users /\ DOMAIN told = Users /\ wrong = FALSE
      /\ Saved(dump) /\ Serving(verb, sh, users, told)
  BY DEF NInv
<1>2. \A u \in users \ {p} : Hears(sh, u, told[u])
  BY <1>1 DEF Serving
<1>3. wrong' = FALSE /\ DOMAIN told' = Users
      /\ \A u \in users : told'[u] = IF u = p THEN l ELSE told[u]
  <2>1. CASE p \in users
    <3>1. /\ told' = [told EXCEPT ![p] = l]
          /\ wrong' = (wrong \/ told[p] # IF what = "connected" THEN NOTHING ELSE l)
      BY <2>1 DEF notified
    <3> QED  BY <1>1, <2>1, <3>1
  <2>2. CASE p \notin users
    BY <1>1, <2>2 DEF notified
  <2> QED  BY <2>1, <2>2
<1>4. ASSUME NEW u \in users PROVE Hears(sh', u, told'[u])
  <2>1. CASE u = p
    BY <1>3, <2>1
  <2>2. CASE u # p
    <3>1. u \in users \ {p} /\ Hears(sh, u, told[u])
      BY <1>2, <2>2
    <3>2. Hears(sh', u, told[u])
      BY <3>1, HearsKept
    <3> QED  BY <1>3, <2>2, <3>2
  <2> QED  BY <2>1, <2>2
<1>5. Serving(verb', sh', users', told')
  BY <1>4 DEF Serving, Ended
<1> QED  BY <1>1, <1>3, <1>5 DEF NInv

\* A connection that cannot be read or written, or is swept, ends for its user.
LEMMA LostTells ==
  ASSUME IInv, NInv, read_fails \/ write_some \/ sweep_notified
  PROVE  NInv'
<1>0. Sound(sh, nh, tq, conns) /\ Looking(pc, DOMAIN sh) /\ verb = NoVerb
  BY DEF IInv, read_fails, write_some, sweep_notified, AtRest
<1>1. pc.at \in Steps1 /\ pc.h \in DOMAIN sh /\ pc.at # "saved"
  BY <1>0 DEF read_fails, write_some, sweep_notified, Looking, Steps1
<1>2. \A m : Hears(sh, sh[pc.h].player, m) => m = sh[pc.h].listener
  BY <1>0, <1>1, HearsOne DEF Sound, Numbered
<1>3. verb.then \notin Ends
  BY <1>0, VerbsAre
<1>4. CASE server_close(pc.h)
  <2>1. /\ sh' = [sh EXCEPT ![pc.h].disconnect_me = TRUE]
        /\ notified(sh[pc.h].player, sh[pc.h].listener, "disconnected")
        /\ verb' = Verb("close", pc.h, 0) /\ UNCHANGED <<users, dump, pc>>
    BY <1>4 DEF server_close
  <2>2. verb'.then \in Ends /\ verb'.h = pc.h
    BY <2>1 DEF Verb, Ends
  <2>3. /\ Kept(users \ {sh[pc.h].player}, sh, sh')
        /\ sh'[pc.h].player = sh[pc.h].player
    BY <1>0, <1>1, <2>1, KeptField
  <2> QED  BY <1>1, <1>2, <1>3, <2>1, <2>2, <2>3, EndKeeps
<1>5. CASE sweep_notified
  <2>1. /\ sh' = sh
        /\ notified(sh[pc.h].player, sh[pc.h].listener, "disconnected")
        /\ verb' = Verb("drop", pc.h, 0) /\ UNCHANGED <<users, dump, pc>>
    BY <1>5 DEF sweep_notified, handles
  <2>2. verb'.then \in Ends /\ verb'.h = pc.h
    BY <2>1 DEF Verb, Ends
  <2>3. /\ Kept(users \ {sh[pc.h].player}, sh, sh')
        /\ sh'[pc.h].player = sh[pc.h].player
    BY <2>1, KeptSame
  <2> QED  BY <1>1, <1>2, <1>3, <2>1, <2>2, <2>3, EndKeeps
<1>6. CASE write_some /\ ~ server_close(pc.h)
  <2>1. /\ UNCHANGED <<told, wrong, dump, users, sh, verb>>
        /\ pc' = Polled(pc.next, DOMAIN nh)
    BY <1>6 DEF write_some, world
  <2>2. pc'.at # "saved"
    BY <1>0, <2>1, PlacesAre DEF Looking
  <2>3. Kept(users, sh, sh')
    BY <2>1, KeptSame
  <2> QED  BY <1>1, <1>3, <2>1, <2>2, <2>3, QuietKeeps
<1> QED  BY <1>4, <1>5, <1>6 DEF read_fails

\* The handle goes when its user's period has been ended.
LEMMA GoneTells ==
  ASSUME IInv, NInv, closed \/ dropped
  PROVE  NInv'
<1>0. /\ Sound(sh, nh, tq, conns) /\ Looking(pc, DOMAIN sh)
      /\ Doing(verb, pc, DOMAIN sh, tq) /\ verb.then \in {"close", "drop"}
  BY DEF IInv, closed, dropped, Returns
<1>1. /\ pc.at \in Steps1 /\ verb.h = pc.h /\ pc.h \in DOMAIN sh /\ pc.at # "saved"
      /\ DOMAIN pc = DOMAIN Loop("top") /\ verb.then \in Ends
  BY <1>0 DEF Looking, Doing, Steps1, Ends
<1>2. /\ sh' = [j \in DOMAIN sh \ {pc.h} |-> sh[j]]
      /\ verb' = NoVerb /\ UNCHANGED <<told, wrong, dump, users>>
  BY <1>1 DEF closed, dropped, Close, free_shandle, Restrict, world
<1>3. pc'.at # "saved"
  <2>1. \/ pc' = Polled(pc.next, DOMAIN nh') \/ pc' = Swept(pc.next, DOMAIN sh')
    BY DEF closed, dropped
  <2>2. /\ Polled(pc.next, DOMAIN nh').at # "saved"
        /\ Swept(pc.next, DOMAIN sh').at # "saved"
    BY ONLY <1>1, PlacesAre
  <2> QED  BY <2>1, <2>2
<1> DEFINE p == sh[pc.h].player
<1>4. /\ users \subseteq Users /\ DOMAIN told = Users /\ wrong = FALSE
      /\ Saved(dump) /\ Serving(verb, sh, users, told)
  BY <1>1 DEF NInv
<1>5. ASSUME NEW u \in users PROVE Hears(sh', u, told[u])
  <2>1. Ended(verb, sh, u) <=> u = p
    BY <1>1 DEF Ended
  <2>2. CASE u = p
    <3>1. told[u] = NOTHING
      BY <1>4, <2>1, <2>2 DEF Serving
    <3>2. \A j \in DOMAIN sh' : sh'[j].player # u
      BY <1>0, <1>1, <1>2, <2>2 DEF Sound, Numbered
    <3> QED  BY <3>1, <3>2 DEF Hears
  <2>3. CASE u # p
    <3>1. Hears(sh, u, told[u]) /\ u \in users \ {p}
      BY <1>4, <2>1, <2>3 DEF Serving
    <3>2. Kept(users \ {p}, sh, sh')
      BY <1>2 DEF Kept
    <3> QED  BY <3>1, <3>2, HearsKept
  <2> QED  BY <2>2, <2>3
<1>6. Serving(verb', sh', users', told')
  BY <1>2, <1>5, VerbsAre DEF Serving, Ended
<1> QED  BY <1>2, <1>3, <1>4, <1>6 DEF NInv

\* The handle of an object that is no user any more.
LEMMA RecycledTells ==
  ASSUME IInv, NInv, sweep_recycled
  PROVE  NInv'
<1>1. /\ pc.at = "sweep" /\ pc.h \in DOMAIN sh /\ verb = NoVerb
      /\ DOMAIN pc = DOMAIN Loop("top")
  BY DEF IInv, Looking, sweep_recycled, Steps1, AtRest
<1>2. /\ sh' = [j \in DOMAIN sh \ {pc.h} |-> sh[j]] /\ sh[pc.h].player \notin users
      /\ UNCHANGED <<told, wrong, dump, users, verb>>
      /\ pc' = Swept(pc.next, DOMAIN sh')
  BY DEF sweep_recycled, Useless, Close, free_shandle, Restrict, world
<1>3. pc'.at # "saved"
  <2>1. Swept(pc.next, DOMAIN sh').at # "saved"
    BY ONLY <1>1, PlacesAre
  <2> QED  BY <1>2, <2>1
<1>4. Kept(users, sh, sh')
  BY <1>1, <1>2 DEF Kept
<1> QED  BY <1>1, <1>2, <1>3, <1>4, VerbsAre, QuietKeeps

LEMMA ReturnTells ==
  ASSUME IInv, NInv, returned \/ unidled \/ redirected
  PROVE  NInv'
<1>1. CASE returned \/ unidled
  <2>1. /\ UNCHANGED <<told, wrong, dump, users, sh, pc>> /\ verb' = NoVerb
        /\ verb.then \in {"return", "login", "input"}
    BY <1>1 DEF returned, unidled, Returns, world, handles
  <2>2. Kept(users, sh, sh') /\ verb.then \notin Ends
    BY <2>1, KeptSame DEF Ends
  <2> QED  BY <2>1, <2>2, VerbsAre, QuietKeeps
<1>2. CASE redirected
  <2>1. /\ verb.then = "redirect"
        /\ sh' = [sh EXCEPT ![verb.h].disconnect_me = FALSE]
        /\ notified(sh[verb.h].player, sh[verb.h].listener, "connected")
        /\ verb' = Verb("return", 0, 0) /\ UNCHANGED <<users, dump, pc>>
    BY <1>2 DEF redirected, Returns
  <2> DEFINE p == sh[verb.h].player
             l == sh[verb.h].listener
  <2>2. pc.at # "saved" /\ Serving(verb, sh, users, told)
    BY <2>1 DEF NInv, Starting
  <2>3. verb.h \in DOMAIN sh /\ Sound(sh, nh, tq, conns)
    BY <2>1 DEF IInv, Doing
  <2>4. Ended(verb, sh, p) /\ \A u \in users \ {p} : ~ Ended(verb, sh, u)
    BY <2>1 DEF Ended, Ends
  <2>5. p \in users => told[p] = NOTHING
    BY <2>2, <2>4 DEF Serving
  <2>6. /\ Kept(users \ {p}, sh, sh') /\ DOMAIN sh' = DOMAIN sh
        /\ sh'[verb.h].player = p /\ sh'[verb.h].listener = l
    BY <2>1, <2>3, KeptField
  <2>7. Hears(sh', p, l)
    BY <2>3, <2>6 DEF Hears
  <2>8. pc'.at # "saved" /\ verb'.then \notin Ends
    BY <2>1, <2>2, VerbsAre
  <2>9. /\ notified(p, l, "connected") /\ UNCHANGED <<users, dump>>
        /\ p \in users => told[p] = NOTHING /\ Hears(sh', p, l)
    BY <2>1, <2>5, <2>7
  <2> HIDE DEF p, l
  <2> QED  BY ONLY NInv, <2>2, <2>4, <2>6, <2>8, <2>9, BeginKeeps
<1> QED  BY <1>1, <1>2

\* A login begins a period at the listener of the handle, unless the user has
\* one there already; if it has one elsewhere that is ended first.
LEMMA LoginTells ==
  ASSUME IInv, NInv, NEW u \in Users, player_connected(u)
  PROVE  NInv'
<1> DEFINE q == tq[verb.h]
           e == find_shandle(u)
           i == find_shandle(q.player)
           hs == [sh EXCEPT ![i] = [@ EXCEPT !.player = u, !.logged = TRUE,
                                       !.disconnect_me = @ \/ differs(e, i)]]
           l == sh[i].listener
<1>1. /\ Sound(sh, nh, tq, conns) /\ verb.then = "login" /\ verb.h \in DOMAIN tq
      /\ q.connected /\ ~ (q.player >= 0) /\ u \in users
      /\ UNCHANGED <<pc, users, dump>>
  BY DEF IInv, Doing, player_connected, Returns
<1>2. /\ verb.h \in DOMAIN sh /\ sh[verb.h].player = q.player
      /\ i = verb.h /\ i # 0 /\ i \in DOMAIN sh
  <2>1. verb.h \in DOMAIN sh /\ sh[verb.h].player = q.player /\ verb.h # 0
    BY <1>1 DEF Sound, Paired, Fields
  <2> QED  BY <1>1, <2>1, FindIs
<1>3. /\ e # 0 => e \in DOMAIN sh /\ sh[e].player = u
      /\ \A j \in DOMAIN sh : sh[j].player = u <=> j = e
  <2>1. 0 \notin DOMAIN sh
    BY <1>1 DEF Sound, Fields
  <2> QED  BY <1>1, <2>1, FindIs
<1>4. e # i /\ sh[i].player \notin users
  <2>1. ~ (q.player >= 0) /\ u >= 0 /\ \A v \in users : v >= 0
    BY <1>1, UsersAssumption DEF NInv
  <2> QED  BY <1>2, <1>3, <2>1
<1>5. /\ sh' = [j \in DOMAIN hs \ {e} |-> hs[j]]
      /\ IF differs(e, i)
         THEN notified(u, sh[e].listener, "disconnected") /\ verb' = Verb("redirect", i, 0)
         ELSE /\ notified(u, l, IF e = 0 THEN "connected" ELSE "reconnected")
              /\ verb' = Verb("return", 0, 0)
  BY <1>2 DEF player_connected, Restrict
<1>6. /\ DOMAIN hs = DOMAIN sh /\ hs[i].player = u /\ hs[i].listener = l
      /\ \A j \in DOMAIN sh : j # i => hs[j] = sh[j]
  <2>1. DOMAIN sh[i] = ShandleFields
    BY <1>1, <1>2 DEF Sound, Fields
  <2> QED  BY <1>2, <2>1 DEF ShandleFields
<1> HIDE DEF hs
<1>7. /\ DOMAIN sh' = DOMAIN sh \ {e} /\ i \in DOMAIN sh'
      /\ sh'[i].player = u /\ sh'[i].listener = l
      /\ \A j \in DOMAIN sh' : j # i => sh'[j] = sh[j]
  BY <1>2, <1>4, <1>5, <1>6
<1>8. Kept(users \ {u}, sh, sh')
  BY <1>3, <1>4, <1>7 DEF Kept
<1>9. /\ pc.at # "saved" /\ pc'.at # "saved" /\ verb.then \notin Ends
      /\ Hears(sh, u, told[u]) /\ \A v : ~ Ended(verb, sh, v)
  <2>1. pc.at # "saved" /\ Serving(verb, sh, users, told)
    BY <1>1 DEF NInv, Starting
  <2>2. verb.then \notin Ends /\ \A v : ~ Ended(verb, sh, v)
    BY <1>1 DEF Ended, Ends
  <2> QED  BY <1>1, <2>1, <2>2 DEF Serving
<1>10. e # 0 => \A m : Hears(sh, u, m) => m = sh[e].listener
  <2> SUFFICES ASSUME e # 0, NEW m, Hears(sh, u, m) PROVE m = sh[e].listener
    OBVIOUS
  <2>1. PICK k : k = e
    OBVIOUS
  <2>2. k \in DOMAIN sh /\ sh[k].player = u
    BY <1>3, <2>1
  <2>3. \A a, b \in DOMAIN sh : sh[a].player = sh[b].player => a = b
    BY <1>1 DEF Sound, Numbered
  <2>4. Hears(sh, sh[k].player, m)
    BY <2>2
  <2>5. m = sh[k].listener
    BY ONLY <2>2, <2>3, <2>4, HearsOne
  <2> QED  BY <2>1, <2>5
<1>11. CASE differs(e, i)
  <2>1. e # 0
    BY <1>11 DEF differs
  <2>2. /\ notified(u, sh[e].listener, "disconnected")
        /\ verb'.then \in Ends /\ verb'.h = i
    BY <1>5, <1>11 DEF Verb, Ends
  <2>3. \A m : Hears(sh, u, m) => m = sh[e].listener
    BY <1>10, <2>1
  <2>4. PICK k : k = sh[e].listener
    OBVIOUS
  <2>5. notified(u, k, "disconnected") /\ \A m : Hears(sh, u, m) => m = k
    BY ONLY <2>2, <2>3, <2>4
  <2> HIDE DEF e, i
  <2> QED  BY ONLY NInv, <1>1, <1>7, <1>8, <1>9, <2>2, <2>5, EndKeeps
<1>12. CASE ~ differs(e, i)
  <2>1. verb'.then \notin Ends
    BY <1>5, <1>12, VerbsAre
  <2>2. Hears(sh', u, l)
    BY <1>7 DEF Hears
  <2>3. PICK what : what = IF e = 0 THEN "connected" ELSE "reconnected"
    OBVIOUS
  <2>4. notified(u, l, what) /\ what \in {"connected", "reconnected"}
    BY <1>5, <1>12, <2>3
  <2>5. told[u] = IF what = "connected" THEN NOTHING ELSE l
    <3>1. CASE e = 0
      <4>1. \A j \in DOMAIN sh : sh[j].player # u
        BY <1>1, <1>3, <3>1 DEF Sound, Fields
      <4> QED  BY <1>9, <2>3, <3>1, <4>1 DEF Hears
    <3>2. CASE e # 0
      <4>1. sh[e].listener = l
        BY <1>12, <3>2 DEF differs
      <4> QED  BY <1>9, <1>10, <2>3, <3>2, <4>1
    <3> QED  BY <3>1, <3>2
  <2> HIDE DEF e, i, l
  <2> QED  BY ONLY NInv, <1>1, <1>8, <1>9, <2>1, <2>2, <2>4, <2>5, BeginKeeps
<1> QED  BY <1>11, <1>12

\* recycle() of a user.
LEMMA RecycleTells ==
  ASSUME IInv, NInv, NEW u \in Users, recycle(u)
  PROVE  NInv'
<1>1. /\ users' = users \ {u} /\ told' = [told EXCEPT ![u] = NOTHING]
      /\ UNCHANGED <<sh, pc, verb, wrong, dump>>
  BY DEF recycle, Calls, MayCall, handles
<1>2. DOMAIN told' = Users /\ \A v \in users' : told'[v] = told[v]
  BY <1>1 DEF NInv
<1>3. CASE pc.at = "saved"
  <2>1. Starting(pc', verb', sh', users', told')
    BY <1>1, <1>2, <1>3 DEF NInv, Starting
  <2> QED  BY <1>1, <1>2, <1>3, <2>1 DEF NInv
<1>4. CASE pc.at # "saved"
  <2>1. Serving(verb', sh', users', told')
    BY <1>1, <1>2, <1>4 DEF NInv, Serving
  <2> QED  BY <1>1, <1>2, <1>4, <2>1 DEF NInv
<1> QED  BY <1>3, <1>4

\* A connection that the dump lists is gone after a restart.
LEMMA SavedTells ==
  ASSUME IInv, NInv, notify_saved
  PROVE  NInv'
<1>1. /\ pc.at = "saved" /\ verb = NoVerb /\ verb' = Verb("return", 0, 0)
      /\ UNCHANGED <<sh, users, dump>> /\ DOMAIN pc = DOMAIN Loop("top")
  BY DEF notify_saved, AtRest, handles, IInv, Looking
<1>2. /\ users \subseteq Users /\ DOMAIN told = Users /\ wrong = FALSE
      /\ Saved(dump) /\ Filed(pc.todo)
      /\ \A i \in DOMAIN sh : sh[i].player \notin users
      /\ \A u \in users : Hears(pc.todo, u, told[u])
  BY <1>1 DEF NInv, Starting
<1>3. verb'.then \notin Ends /\ verb'.then \in {"none", "return"}
  BY <1>1, VerbsAre
<1>4. CASE pc.todo = <<>>
  <2>1. pc'.at # "saved" /\ UNCHANGED <<told, wrong>>
    BY <1>4 DEF notify_saved, Loop
  <2>2. \A u \in users : Hears(sh, u, told[u])
    BY <1>2, <1>4 DEF Hears
  <2>3. Serving(verb', sh', users', told')
    BY <1>1, <1>3, <2>1, <2>2 DEF Serving, Ended
  <2> QED  BY <1>1, <1>2, <2>1, <2>3 DEF NInv
<1>5. CASE pc.todo # <<>>
  <2> DEFINE t == pc.todo
             p == t[1].player
             l == t[1].listener
  <2>1. /\ notified(p, l, "disconnected")
        /\ pc' = [pc EXCEPT !.todo = Tail(t)]
    BY <1>5 DEF notify_saved
  <2>2. pc'.at = "saved" /\ pc'.todo = Tail(t)
    BY <1>1, <2>1 DEF Loop
  <2>3. /\ \E S : t \in Seq(S)
        /\ \A j, k \in DOMAIN t : t[j].player = t[k].player => j = k
    BY <1>2 DEF Filed
  <2>4. /\ 1 \in DOMAIN t /\ \E S : Tail(t) \in Seq(S)
        /\ \A k \in DOMAIN Tail(t) : /\ k + 1 \in DOMAIN t /\ k \in Nat /\ k + 1 # 1
                                     /\ Tail(t)[k] = t[k + 1]
        /\ \A k \in DOMAIN t : k # 1 => /\ k - 1 \in DOMAIN Tail(t)
                                        /\ Tail(t)[k - 1] = t[k]
    BY <1>5, <2>3
  <2> HIDE DEF t
  <2>5. Filed(Tail(t))
    BY <2>3, <2>4 DEF Filed
  <2>6. p \in users => told[p] = l
    <3> SUFFICES ASSUME p \in users PROVE told[p] = l
      OBVIOUS
    <3>1. PICK m : m = told[p]
      OBVIOUS
    <3>2. Hears(t, t[1].player, m)
      BY <1>2, <3>1 DEF t
    <3>3. PICK k : k = 1
      OBVIOUS
    <3>4. k \in DOMAIN t /\ Hears(t, t[k].player, m)
      BY <2>4, <3>2, <3>3
    <3>5. m = t[k].listener
      BY ONLY <2>3, <3>4, HearsOne
    <3> QED  BY <3>1, <3>3, <3>5
  <2>7. wrong' = FALSE /\ DOMAIN told' = Users
        /\ \A u \in users : told'[u] = IF u = p THEN NOTHING ELSE told[u]
    <3> HIDE DEF p, l
    <3>1. CASE p \in users
      <4>1. told' = [told EXCEPT ![p] = NOTHING] /\ wrong' = (wrong \/ told[p] # l)
        BY <2>1, <3>1 DEF notified
      <4> QED  BY <1>2, <2>6, <3>1, <4>1
    <3>2. CASE p \notin users
      BY <1>2, <2>1, <3>2 DEF notified
    <3> QED  BY <3>1, <3>2
  <2>8. ASSUME NEW u \in users PROVE Hears(Tail(t), u, told'[u])
    <3>1. CASE u = p
      <4>1. \A k \in DOMAIN Tail(t) : Tail(t)[k].player # u
        BY <2>3, <2>4, <3>1
      <4> QED  BY <2>7, <3>1, <4>1 DEF Hears
    <3>2. CASE u # p
      <4>1. Hears(t, u, told[u])
        BY <1>2 DEF t
      <4>2. Hears(Tail(t), u, told[u])
        <5>1. CASE \E k \in DOMAIN t : t[k].player = u /\ told[u] = t[k].listener
          <6>1. PICK k \in DOMAIN t : t[k].player = u /\ told[u] = t[k].listener
            BY <5>1
          <6>2. k # 1
            BY <3>2, <6>1
          <6>3. k - 1 \in DOMAIN Tail(t) /\ Tail(t)[k - 1] = t[k]
            BY <2>4, <6>2
          <6> QED  BY ONLY <6>1, <6>3 DEF Hears
        <5>2. CASE (\A k \in DOMAIN t : t[k].player # u) /\ told[u] = NOTHING
          BY <2>4, <5>2 DEF Hears
        <5> QED  BY <4>1, <5>1, <5>2 DEF Hears
      <4> QED  BY <2>7, <3>2, <4>2
    <3> QED  BY <3>1, <3>2
  <2>9. Starting(pc', verb', sh', users', told')
    BY <1>1, <1>2, <1>3, <2>2, <2>5, <2>8 DEF Starting
  <2> QED  BY <1>1, <1>2, <2>2, <2>7, <2>9 DEF NInv
<1> QED  BY <1>4, <1>5

\* A restart goes by the dump.
LEMMA RestartTells ==
  ASSUME NInv, Restart
  PROVE  NInv'
<1>1. /\ sh' = no_handles /\ verb' = NoVerb
      /\ pc' = [Loop("saved") EXCEPT !.todo = dump.connections]
      /\ told' = dump.told /\ users' = dump.users /\ UNCHANGED <<wrong, dump>>
  BY DEF Restart
<1>2. pc'.at = "saved" /\ pc'.todo = dump.connections /\ DOMAIN sh' = {}
  BY <1>1 DEF Loop, no_handles
<1>3. Saved(dump) /\ wrong = FALSE
  BY DEF NInv
<1>4. Starting(pc', verb', sh', users', told')
  BY <1>1, <1>2, <1>3, VerbsAre DEF Starting, Saved
<1> QED  BY <1>1, <1>2, <1>3, <1>4 DEF NInv, Saved

LEMMA InitTells == Init => NInv
<1> SUFFICES ASSUME Init PROVE NInv
  OBVIOUS
<1>1. /\ sh = no_handles /\ pc = Loop("top") /\ verb = NoVerb /\ wrong = FALSE
      /\ users = Users /\ told = [u \in Users |-> NOTHING]
      /\ dump = [connections |-> <<>>, told |-> told, users |-> Users]
  BY DEF Init
<1>2. DOMAIN no_handles = {} /\ pc.at # "saved"
  BY <1>1 DEF no_handles, Loop
<1>3. /\ DOMAIN told = Users /\ \A u \in Users : told[u] = NOTHING
      /\ dump.connections = <<>> /\ dump.told = told /\ dump.users = Users
  BY <1>1
<1>4. Filed(<<>>)
  <2>1. <<>> \in Seq({}) /\ DOMAIN <<>> = {}
    OBVIOUS
  <2> QED  BY <2>1 DEF Filed
<1>5. \A u \in Users : Hears(<<>>, u, NOTHING) /\ Hears(sh, u, NOTHING)
  BY <1>1, <1>2 DEF Hears
<1>6. Saved(dump)
  BY <1>3, <1>4, <1>5 DEF Saved
<1>7. Serving(verb, sh, users, told)
  BY <1>1, <1>3, <1>5, VerbsAre DEF Serving, Ended
<1> QED  BY <1>1, <1>2, <1>3, <1>6, <1>7 DEF NInv

-----------------------------------------------------------------------------
(* The connections that a dump lists *)

Entry(s, i) == [player |-> s[i].player, listener |-> s[i].listener]
\* t has an entry for each of the first n shandles.
Listed(t, s, n) ==
  /\ \A k \in DOMAIN t : \E i \in DOMAIN s : i <= n /\ t[k] = Entry(s, i)
  /\ \A i \in DOMAIN s : i <= n => \E k \in DOMAIN t : t[k] = Entry(s, i)
  /\ \A j, k \in DOMAIN t : t[j].player = t[k].player => j = k
  /\ \E S : t \in Seq(S)

LEMMA ListedNext ==
  ASSUME Sound(sh, nh, tq, conns), NEW n \in Nat, NEW t, Listed(t, sh, n)
  PROVE  /\ n + 1 \in DOMAIN sh => Listed(<<Entry(sh, n + 1)>> \o t, sh, n + 1)
         /\ n + 1 \notin DOMAIN sh => Listed(t, sh, n + 1)
<1>0. \A i \in DOMAIN sh : i \in Nat
  BY DEF Sound, Fields
<1>1. ASSUME n + 1 \notin DOMAIN sh PROVE Listed(t, sh, n + 1)
  <2>1. \A i \in DOMAIN sh : i <= n <=> i <= n + 1
    BY <1>0, <1>1
  <2> QED  BY <2>1 DEF Listed
<1>2. ASSUME n + 1 \in DOMAIN sh
      PROVE  Listed(<<Entry(sh, n + 1)>> \o t, sh, n + 1)
  <2> DEFINE e == Entry(sh, n + 1)
             r == <<e>> \o t
  <2>1. e.player = sh[n + 1].player
    BY DEF Entry
  <2> HIDE DEF e
  <2>2. /\ \E S : r \in Seq(S)
        /\ 1 \in DOMAIN r /\ r[1] = e
        /\ \A k \in DOMAIN t : k + 1 \in DOMAIN r /\ r[k + 1] = t[k] /\ k \in Nat
        /\ \A k \in DOMAIN r : /\ k \in Nat
                               /\ k = 1 \/ (k - 1 \in DOMAIN t /\ r[k] = t[k - 1])
    <3>1. PICK S : t \in Seq(S)
      BY DEF Listed
    <3>2. PICK U : U = S \cup {e}
      OBVIOUS
    <3>3. t \in Seq(U) /\ <<e>> \in Seq(U)
      BY <3>1, <3>2
    <3>4. r \in Seq(U) /\ Len(r) = Len(t) + 1
      BY <3>3
    <3> QED  BY <3>3, <3>4
  <2> HIDE DEF r
  <2>3. ASSUME NEW k \in DOMAIN t
        PROVE  \E i \in DOMAIN sh : i <= n /\ t[k] = Entry(sh, i)
    BY DEF Listed
  <2>4. \A k \in DOMAIN r : \E i \in DOMAIN sh : i <= n + 1 /\ r[k] = Entry(sh, i)
    <3> SUFFICES ASSUME NEW k \in DOMAIN r
                 PROVE  \E i \in DOMAIN sh : i <= n + 1 /\ r[k] = Entry(sh, i)
      OBVIOUS
    <3>1. CASE k = 1
      BY <1>2, <2>2, <3>1 DEF e
    <3>2. CASE k # 1
      <4>1. k - 1 \in DOMAIN t /\ r[k] = t[k - 1]
        BY <2>2, <3>2
      <4>2. PICK i \in DOMAIN sh : i <= n /\ t[k - 1] = Entry(sh, i)
        BY <2>3, <4>1
      <4>3. i <= n + 1
        BY <1>0, <4>2
      <4> QED  BY <4>1, <4>2, <4>3
    <3> QED  BY <3>1, <3>2
  <2>5. \A i \in DOMAIN sh : i <= n + 1 => \E k \in DOMAIN r : r[k] = Entry(sh, i)
    <3> SUFFICES ASSUME NEW i \in DOMAIN sh, i <= n + 1
                 PROVE  \E k \in DOMAIN r : r[k] = Entry(sh, i)
      OBVIOUS
    <3>1. CASE i = n + 1
      BY <2>2, <3>1 DEF e
    <3>2. CASE i # n + 1
      <4>1. i <= n
        BY <1>0, <3>2
      <4>2. PICK k \in DOMAIN t : t[k] = Entry(sh, i)
        BY <4>1 DEF Listed
      <4> QED  BY <2>2, <4>2
    <3> QED  BY <3>1, <3>2
  <2>6. \A k \in DOMAIN t : t[k].player # e.player
    <3> SUFFICES ASSUME NEW k \in DOMAIN t, t[k].player = e.player PROVE FALSE
      OBVIOUS
    <3>1. PICK i \in DOMAIN sh : i <= n /\ t[k] = Entry(sh, i)
      BY <2>3
    <3>2. sh[i].player = sh[n + 1].player
      BY <2>1, <3>1 DEF Entry
    <3>3. i = n + 1
      BY <1>2, <3>2 DEF Sound, Numbered
    <3> QED  BY <3>1, <3>3
  <2>7. \A j, k \in DOMAIN r : r[j].player = r[k].player => j = k
    <3> SUFFICES ASSUME NEW j \in DOMAIN r, NEW k \in DOMAIN r,
                        r[j].player = r[k].player
                 PROVE  j = k
      OBVIOUS
    <3>1. CASE j = 1 \/ k = 1
      BY <2>2, <2>6, <3>1
    <3>2. CASE j # 1 /\ k # 1
      <4>1. /\ j - 1 \in DOMAIN t /\ k - 1 \in DOMAIN t
            /\ t[j - 1].player = t[k - 1].player /\ j \in Nat /\ k \in Nat
        BY <2>2, <3>2
      <4>2. j - 1 = k - 1
        BY <4>1 DEF Listed
      <4> QED  BY <4>1, <4>2
    <3> QED  BY <3>1, <3>2
  <2> QED  BY <2>2, <2>4, <2>5, <2>7 DEF Listed, r, e
<1> QED  BY <1>1, <1>2

\* What write_active_connections() writes.
LEMMA WrittenIs ==
  ASSUME Sound(sh, nh, tq, conns)
  PROVE  Listed(write_active_connections(conns), sh, conns)
<1> DEFINE n == conns
           S == Seq({Entry(sh, i) : i \in DOMAIN sh})
           next1(t, i) == IF i \in DOMAIN sh THEN <<Entry(sh, i)>> \o t ELSE t
<1>a. n \in Nat
  BY DEF Sound, Fields
<1>1. PICK g : IsStep(g, S, n) /\ \A t \in S, i \in 1 .. n : g[<<t, i>>] = next1(t, i)
  <2> DEFINE h == [p \in S \X (1 .. n) |-> next1(p[1], p[2])]
  <2>1. ASSUME NEW p \in S \X (1 .. n) PROVE next1(p[1], p[2]) \in S
    <3>1. PICK X : X = {Entry(sh, i) : i \in DOMAIN sh}
      OBVIOUS
    <3>2. PICK t, i : t = p[1] /\ i = p[2] /\ t \in Seq(X)
      BY <2>1, <3>1
    <3>3. ASSUME i \in DOMAIN sh PROVE <<Entry(sh, i)>> \o t \in Seq(X)
      <4>1. PICK e : e = Entry(sh, i) /\ e \in X
        BY <3>1, <3>3
      <4>2. <<e>> \o t \in Seq(X)
        BY ONLY <3>2, <4>1
      <4> QED  BY ONLY <4>1, <4>2
    <3>4. next1(t, i) \in Seq(X)
      BY <3>2, <3>3
    <3> HIDE DEF next1
    <3> QED  BY <3>1, <3>2, <3>4
  <2>2. h \in [S \X (1 .. n) -> S]
    BY <2>1
  <2>3. \A t \in S, i \in 1 .. n : h[<<t, i>>] = next1(t, i)
    OBVIOUS
  <2> HIDE DEF h, next1, S
  <2> QED  BY <2>2, <2>3 DEF IsStep
<1>2. <<>> \in S
  OBVIOUS
<1> HIDE DEF S
<1>3. PICK f \in [0 .. n -> S] :
        f[0] = <<>> /\ \A i \in 1 .. n : f[i] = g[<<f[i - 1], i>>]
  <2>1. \E f : IsRun(f, S, <<>>, n, g)
    BY <1>a, <1>1, <1>2, Recursion
  <2> QED  BY <2>1 DEF IsRun
<1>4. \A i \in 1 .. n : f[i] = next1(f[i - 1], i)
  <2> SUFFICES ASSUME NEW i \in 1 .. n PROVE f[i] = next1(f[i - 1], i)
    OBVIOUS
  <2>1. i - 1 \in 0 .. n
    BY <1>a
  <2> HIDE DEF next1
  <2> QED  BY <1>1, <1>3, <2>1
<1> DEFINE Rec(h) == h = [i \in 0 .. n |->
                            IF i = 0 THEN <<>>
                            ELSE IF i \in DOMAIN sh
                            THEN <<[player |-> sh[i].player,
                                    listener |-> sh[i].listener]>> \o h[i - 1]
                            ELSE h[i - 1]]
<1>5. Rec(f)
  <2>1. ASSUME NEW i \in 0 .. n
        PROVE  f[i] = IF i = 0 THEN <<>>
                      ELSE IF i \in DOMAIN sh
                      THEN <<[player |-> sh[i].player,
                              listener |-> sh[i].listener]>> \o f[i - 1]
                      ELSE f[i - 1]
    <3>1. CASE i = 0
      BY <1>3, <3>1
    <3>2. CASE i # 0
      <4>1. i \in 1 .. n
        BY <1>a, <3>2
      <4> QED  BY <1>4, <3>2, <4>1 DEF Entry
    <3> QED  BY <3>1, <3>2
  <2> QED  BY <1>3, <2>1
<1>6. PICK list : Rec(list) /\ write_active_connections(n) = list[n]
  <2>1. write_active_connections(n) = (CHOOSE h : Rec(h))[n]
    BY DEF write_active_connections
  <2> HIDE DEF Rec
  <2> QED  BY <1>5, <2>1
<1>7. /\ list[0] = <<>>
      /\ \A i \in 1 .. n : list[i] = next1(list[i - 1], i)
  <2>1. \A i \in 0 .. n :
          list[i] = IF i = 0 THEN <<>>
                    ELSE IF i \in DOMAIN sh
                    THEN <<[player |-> sh[i].player,
                            listener |-> sh[i].listener]>> \o list[i - 1]
                    ELSE list[i - 1]
    BY <1>6
  <2>2. 0 \in 0 .. n /\ \A i \in 1 .. n : i \in 0 .. n /\ i # 0
    BY <1>a
  <2> QED  BY <2>1, <2>2 DEF Entry
<1> HIDE DEF Rec, next1
<1> DEFINE T == {i \in Nat : i <= n => Listed(list[i], sh, i)}
<1>8. 0 \in T
  <2>1. \A i \in DOMAIN sh : ~ (i <= 0)
    BY DEF Sound, Fields
  <2>2. <<>> \in Seq({}) /\ DOMAIN <<>> = {}
    OBVIOUS
  <2>3. Listed(<<>>, sh, 0)
    BY <2>1, <2>2 DEF Listed
  <2> QED  BY <1>7, <2>3
<1>9. ASSUME NEW i \in Nat, i \in T PROVE i + 1 \in T
  <2> SUFFICES ASSUME i + 1 <= n PROVE Listed(list[i + 1], sh, i + 1)
    OBVIOUS
  <2>1. Listed(list[i], sh, i)
    BY <1>a, <1>9
  <2>2. list[i + 1] = next1(list[i], i + 1)
    <3>1. i + 1 \in 1 .. n /\ (i + 1) - 1 = i
      BY <1>a
    <3> QED  BY <1>7, <3>1
  <2>3. PICK t : t = list[i]
    OBVIOUS
  <2>4. /\ i + 1 \in DOMAIN sh => Listed(<<Entry(sh, i + 1)>> \o t, sh, i + 1)
        /\ i + 1 \notin DOMAIN sh => Listed(t, sh, i + 1)
    BY ONLY Sound(sh, nh, tq, conns), i \in Nat, <2>1, <2>3, ListedNext
  <2>5. list[i + 1] = next1(t, i + 1)
    BY ONLY <2>2, <2>3
  <2> QED  BY ONLY <2>4, <2>5 DEF next1
<1>10. Nat \subseteq T
  <2> HIDE DEF T
  <2> QED  BY <1>8, <1>9, NatClosed
<1>11. Listed(list[n], sh, n)
  BY <1>a, <1>10
<1> QED  BY <1>6, <1>11

\* A dump that is written at rest lists every user's connection.
LEMMA DumpTells ==
  ASSUME IInv, NInv, db_flush
  PROVE  NInv'
<1> DEFINE w == write_active_connections(conns)
<1>1. /\ UNCHANGED <<sh, users, told, wrong, verb>> /\ verb = NoVerb
      /\ pc.at = "dump" /\ pc' = Loop("wait")
      /\ dump' = [connections |-> w, told |-> told, users |-> users]
  BY DEF db_flush, AtRest, handles
<1>2. Sound(sh, nh, tq, conns)
  BY DEF IInv
<1>3. Listed(w, sh, conns)
  BY <1>2, WrittenIs
<1>4. \A i \in DOMAIN sh : i <= conns
  BY <1>2 DEF Sound, Fields
<1> HIDE DEF w
<1>5. /\ users \subseteq Users /\ DOMAIN told = Users /\ wrong = FALSE
      /\ Serving(verb, sh, users, told)
  BY <1>1 DEF NInv
<1>6. ASSUME NEW u \in users PROVE Hears(sh, u, told[u])
  BY <1>1, <1>5, VerbsAre DEF Serving, Ended
<1>7. ASSUME NEW u \in users PROVE Hears(w, u, told[u])
  <2>1. CASE \E i \in DOMAIN sh : sh[i].player = u /\ told[u] = sh[i].listener
    <3>1. PICK i \in DOMAIN sh : sh[i].player = u /\ told[u] = sh[i].listener
      BY <2>1
    <3>2. PICK k \in DOMAIN w : w[k] = Entry(sh, i)
      BY <1>3, <1>4 DEF Listed
    <3> QED  BY <3>1, <3>2 DEF Hears, Entry
  <2>2. CASE (\A i \in DOMAIN sh : sh[i].player # u) /\ told[u] = NOTHING
    <3>1. \A k \in DOMAIN w : w[k].player # u
      BY <1>3, <2>2 DEF Listed, Entry
    <3> QED  BY <2>2, <3>1 DEF Hears
  <2> QED  BY <1>6, <2>1, <2>2 DEF Hears
<1>8. Filed(w)
  BY <1>3 DEF Listed, Filed
<1>9. Saved(dump')
  BY <1>1, <1>5, <1>7, <1>8 DEF Saved
<1>10. pc'.at # "saved"
  BY <1>1 DEF Loop
<1> QED  BY <1>1, <1>5, <1>9, <1>10 DEF NInv

LEMMA StepTells == IInv /\ NInv /\ [Next]_vars => NInv'
<1> SUFFICES ASSUME IInv, NInv, [Next]_vars PROVE NInv'
  OBVIOUS
<1>1. CASE Restart
  BY <1>1, RestartTells
<1>2. ASSUME MainLoop PROVE NInv'
  BY <1>2, SavedTells, DumpTells, LoopTells, OpenTells, LostTells, GoneTells,
     RecycledTells, ReturnTells, LoginTells DEF MainLoop
<1>3. ASSUME BuiltIn PROVE NInv'
  BY <1>3, CallTells, OpenTells, RecycleTells DEF BuiltIn
<1>4. CASE UNCHANGED <<told, wrong, dump, users, sh, pc, verb>>
  BY <1>4 DEF NInv
<1>5. ASSUME Lookups PROVE NInv'
  <2>1. CASE accept_asks
    <3>1. UNCHANGED <<told, wrong, dump, users, sh, pc, verb>>
      BY <2>1 DEF accept_asks, server, handles, world
    <3> QED  BY <1>4, <3>1
  <2> QED  BY <1>5, <2>1, LoopTells, CallTells DEF Lookups
<1>6. CASE opened \/ accepted
  BY <1>6, OpenTells
<1>7. CASE Others \/ UNCHANGED vars
  <2>1. UNCHANGED <<told, wrong, dump, users, sh, pc, verb>>
    BY <1>7 DEF Others, vars, server, handles, world
  <2> QED  BY <1>4, <2>1
<1> QED  BY <1>1, <1>2, <1>3, <1>5, <1>6, <1>7 DEF Next, Server

\* For each user and listener the notifier verbs alternate, through
\* reconnections, redirections to another listener, restarts from any dump and
\* users that are recycled meanwhile; whenever the loop is at rest what the
\* database has been told is what is so (server.c:520, 1136).
THEOREM NotifiersDoAlternate == Spec => []NotifiersAlternate
<1>1. IInv /\ NInv => NotifiersAlternate
  <2> SUFFICES ASSUME IInv, NInv PROVE NotifiersAlternate
    OBVIOUS
  <2>1. ASSUME verb = NoVerb, pc.at # "saved", NEW u \in users
        PROVE  told[u] = connection_listener(u)
    <3>1. Sound(sh, nh, tq, conns)
      BY DEF IInv
    <3>2. Hears(sh, u, told[u])
      BY <2>1, VerbsAre DEF NInv, Serving, Ended
    <3> DEFINE h == find_shandle(u)
    <3>3. CASE h = 0
      <4>1. \A i \in DOMAIN sh : sh[i].player # u
        BY <3>1, <3>3, FindIs
      <4> QED  BY <3>2, <3>3, <4>1 DEF Hears, connection_listener
    <3>4. CASE h # 0
      <4>1. PICK i : i = h
        OBVIOUS
      <4>2. i \in DOMAIN sh /\ sh[i].player = u
        BY <3>1, <3>4, <4>1, FindIs
      <4>3. \A a, b \in DOMAIN sh : sh[a].player = sh[b].player => a = b
        BY <3>1 DEF Sound, Numbered
      <4>4. Hears(sh, sh[i].player, told[u])
        BY <3>2, <4>2
      <4>5. told[u] = sh[i].listener
        BY <4>2, <4>3, <4>4 DEF Hears
      <4> QED  BY <3>4, <4>1, <4>5 DEF connection_listener
    <3> QED  BY <3>3, <3>4
  <2> QED  BY <2>1 DEF NInv, NotifiersAlternate
<1> QED  BY <1>1, InitTells, StepTells, InvariantHolds, PTL DEF Spec

-----------------------------------------------------------------------------
(* The question the server waits with *)

Question(a) == [kind |-> a.kind, q |-> a.q]
\* Of the answer to a, s is all the server has yet to read, or its first half,
\* or nothing has been sent.
Whole(a, s) ==
  IF a.kind = "addr" THEN a.at = "wait" /\ \E v \in {a.q, 0, INADDR_NONE} : s = <<v>>
  ELSE \/ a.at = "wait" /\ (s = <<0>> \/ s = <<a.q, a.q>>)
       \/ a.at = "data" /\ s = <<a.q>>
Half(a, s) ==
  a.kind = "name" /\ ((a.at = "wait" /\ s = <<a.q>>) \/ (a.at = "data" /\ s = <<>>))
Nothing(a, s) == a.at = "wait" /\ s = <<>>

\* The lookup process l has nothing to do with any question.
Still(l) == l = Reading \/ l = Dead
Unasked(l, p) == Still(l) /\ p.to_looker = <<>> /\ p.from_looker = <<>>
\* It has the question a, or has answered, or died before it did.
Looked(a, l, p) ==
  \/ p.to_looker = <<Question(a)>> /\ p.from_looker = <<>> /\ Still(l)
  \/ /\ p.to_looker = <<>> /\ p.from_looker = <<>>
     /\ (l = Dead \/ l = [at |-> "resolve", r |-> Question(a)])
  \/ /\ p.to_looker = <<>> /\ a.kind = "addr" /\ Still(l)
     /\ \E v \in {a.q, INADDR_NONE} : p.from_looker = <<v>>
  \/ /\ p.to_looker = <<>> /\ a.kind = "name"
     /\ \/ p.from_looker = <<a.q>> /\ (l = Dead \/ l = [at |-> "put", r |-> Question(a)])
        \/ (p.from_looker = <<a.q, a.q>> \/ p.from_looker = <<0>>) /\ Still(l)
\* The length is with the intermediary process, and the name is to come.
Named(a, l, p) ==
  /\ p.to_looker = <<>> /\ a.kind = "name"
  /\ \/ p.from_looker = <<>> /\ (l = Dead \/ l = [at |-> "put", r |-> Question(a)])
     \/ p.from_looker = <<a.q>> /\ Still(l)

\* Where the question a is, by where the intermediary process m is.
Held(a, m) == m.kind = a.kind /\ m.q = a.q
Open(a, m, l, p) ==
  CASE m.at = "dead" -> Whole(a, p.to_server) \/ Half(a, p.to_server) \/ Nothing(a, p.to_server)
    [] m.at = "read" -> /\ Unasked(l, p)
                        /\ \/ p.to_middle = <<Question(a)>> /\ Nothing(a, p.to_server)
                           \/ p.to_middle = <<>> /\ Whole(a, p.to_server)
    [] m.at = "wait" -> /\ Held(a, m) /\ p.to_middle = <<>>
                        /\ Nothing(a, p.to_server) /\ Looked(a, l, p)
    [] m.at = "data" -> /\ Held(a, m) /\ p.to_middle = <<>> /\ m.len = a.q
                        /\ Nothing(a, p.to_server) /\ Named(a, l, p)
    [] m.at = "send" -> /\ Held(a, m) /\ p.to_middle = <<>> /\ Unasked(l, p)
                        /\ Nothing(a, p.to_server)
                        /\ IF a.kind = "addr" THEN m.addr \in {a.q, 0, INADDR_NONE}
                           ELSE m.len = 0 \/ (m.len = a.q /\ m.buffer = a.q)
    [] m.at = "put" -> /\ Held(a, m) /\ p.to_middle = <<>> /\ Unasked(l, p)
                       /\ Half(a, p.to_server) /\ m.buffer = a.q
    [] OTHER -> FALSE
\* Between two questions nothing of the first is left that could be taken for
\* an answer to the second.
Quiet(m, l, p) ==
  /\ p.to_server = <<>>
  /\ m.at # "dead" => m.at = "read" /\ p.to_middle = <<>> /\ Unasked(l, p)

SyncInv(a, d, m, l, p, n) ==
  /\ DOMAIN a = DOMAIN NoQuestion /\ DOMAIN p = DOMAIN NoLookups
  /\ m.at # "dead" => DOMAIN m = DOMAIN intermediary
  /\ a.answer \in {0, a.q} /\ n \in Nat
  /\ IF a.at \in {"wait", "data"}
     THEN /\ a.q \in Nat /\ a.q > 0 /\ a.kind \in {"addr", "name"} /\ ~ d
          /\ Open(a, m, l, p)
     ELSE ~ d => Quiet(m, l, p)

Sync == SyncInv(asked, dead_intermediary, middle, looker, pipes, asks)

\* The half of an answer is not a whole one.
LEMMA HalfIsNot ==
  ASSUME NEW a, NEW s, a.q \in Nat, a.q > 0, Half(a, s)
  PROVE  ~ Whole(a, s)
  BY DEF Half, Whole

\* The server asks when nothing is left of the question before.
LEMMA AskKeeps ==
  ASSUME Sync, NEW kind \in {"addr", "name"}, NEW listener, ask(kind, listener)
  PROVE  Sync'
<1> DEFINE Unheard == dead_intermediary \/ ~ (alive(middle) \/ alive(looker))
<1>1. /\ DOMAIN asked = DOMAIN NoQuestion /\ DOMAIN pipes = DOMAIN NoLookups
      /\ middle.at # "dead" => DOMAIN middle = DOMAIN intermediary
      /\ asks \in Nat /\ asks + 1 \in Nat /\ asks + 1 > 0
      /\ ~ dead_intermediary => Quiet(middle, looker, pipes)
  BY DEF Sync, SyncInv, ask
<1>2. /\ DOMAIN asked' = DOMAIN NoQuestion
      /\ asked'.kind = kind /\ asked'.q = asks + 1 /\ asked'.answer = 0
      /\ asked'.at = IF Unheard THEN "done" ELSE "wait"
      /\ dead_intermediary' = Unheard /\ asks' = asks + 1
      /\ middle' = middle /\ looker' = looker
  BY DEF ask, NoQuestion
<1>3. CASE Unheard
  <2>1. pipes' = pipes
    BY <1>3 DEF ask
  <2> QED  BY <1>1, <1>2, <1>3, <2>1 DEF Sync, SyncInv
<1>4. CASE ~ Unheard
  <2>1. Quiet(middle, looker, pipes)
    BY <1>1, <1>4
  <2>2. /\ DOMAIN pipes' = DOMAIN NoLookups
        /\ pipes'.to_server = pipes.to_server
        /\ pipes'.to_looker = pipes.to_looker /\ pipes'.from_looker = pipes.from_looker
        /\ pipes'.to_middle = Append(pipes.to_middle, [kind |-> kind, q |-> asks + 1])
    BY <1>1, <1>4 DEF ask, NoLookups
  <2>3. Question(asked') = [kind |-> kind, q |-> asks + 1]
    BY <1>2 DEF Question
  <2>4. Nothing(asked', pipes'.to_server)
    BY <1>2, <1>4, <2>1, <2>2 DEF Nothing, Quiet
  <2>5. Open(asked', middle', looker', pipes')
    <3>1. CASE middle.at = "dead"
      BY <1>2, <2>4, <3>1 DEF Open
    <3>2. CASE middle.at # "dead"
      <4>1. middle.at = "read" /\ pipes.to_middle = <<>> /\ Unasked(looker, pipes)
        BY <2>1, <3>2 DEF Quiet
      <4>2. pipes'.to_middle = <<Question(asked')>>
        BY <2>2, <2>3, <4>1
      <4>3. Unasked(looker', pipes')
        BY <1>2, <2>2, <4>1 DEF Unasked
      <4> QED  BY <1>2, <2>4, <4>1, <4>2, <4>3 DEF Open
    <3> QED  BY <3>1, <3>2
  <2> QED  BY <1>1, <1>2, <1>4, <2>2, <2>5 DEF Sync, SyncInv
<1> QED  BY <1>3, <1>4

\* An answer, or the first half of one, is read, or the end.
LEMMA AnswerKeeps ==
  ASSUME Sync, asks' = asks, read_answer \/ abandon_intermediary
  PROVE  Sync'
<1>1. /\ DOMAIN asked = DOMAIN NoQuestion /\ DOMAIN pipes = DOMAIN NoLookups
      /\ middle.at # "dead" => DOMAIN middle = DOMAIN intermediary
      /\ asks \in Nat
      /\ asked.q \in Nat /\ asked.q > 0 /\ asked.kind \in {"addr", "name"}
      /\ asked.at \in {"wait", "data"} /\ asked.answer \in {0, asked.q}
      /\ Open(asked, middle, looker, pipes)
  BY DEF Sync, SyncInv, read_answer, abandon_intermediary, Waiting
<1>2. CASE abandon_intermediary
  <2>1. /\ DOMAIN asked' = DOMAIN NoQuestion
        /\ asked'.answer = 0 /\ asked'.at = "done"
        /\ dead_intermediary' /\ middle' = middle /\ pipes' = pipes
    BY <1>1, <1>2 DEF abandon_intermediary, Answered, NoQuestion, INADDR_NONE
  <2> QED  BY <1>1, <2>1 DEF Sync, SyncInv
<1>3. CASE read_answer
  <2> DEFINE v == Head(pipes.to_server)
             more == asked.kind = "name" /\ asked.at = "wait" /\ v # 0
  <2>1. /\ DOMAIN pipes' = DOMAIN NoLookups
        /\ pipes'.to_server = Tail(pipes.to_server)
        /\ pipes'.to_middle = pipes.to_middle
        /\ pipes'.to_looker = pipes.to_looker /\ pipes'.from_looker = pipes.from_looker
    BY <1>1, <1>3 DEF read_answer, NoLookups
  <2>2. /\ DOMAIN asked' = DOMAIN NoQuestion
        /\ asked'.kind = asked.kind /\ asked'.q = asked.q
        /\ asked'.at = IF more THEN "data" ELSE "done"
        /\ asked'.answer = IF more THEN asked.answer ELSE IF v = INADDR_NONE THEN 0 ELSE v
    BY <1>1, <1>3 DEF read_answer, Answered, NoQuestion
  <2>3. pipes.to_server # <<>> /\ UNCHANGED <<dead_intermediary, middle, looker>>
    BY <1>3 DEF read_answer
  <2>4. /\ Whole(asked, pipes.to_server) \/ Half(asked, pipes.to_server)
        /\ Whole(asked, pipes.to_server) => middle.at \in {"dead", "read"}
        /\ middle.at = "read" => pipes.to_middle = <<>> /\ Unasked(looker, pipes)
        /\ middle.at \in {"dead", "read", "put"}
    <3>1. ~ Nothing(asked, pipes.to_server)
      BY <2>3 DEF Nothing
    <3>2. Half(asked, pipes.to_server) => ~ Whole(asked, pipes.to_server)
      BY <1>1, HalfIsNot
    <3>3. CASE middle.at = "dead"
      BY <1>1, <3>1, <3>3 DEF Open
    <3>4. CASE middle.at = "read"
      BY <1>1, <3>1, <3>4 DEF Open
    <3>5. CASE middle.at = "put"
      BY <1>1, <3>2, <3>5 DEF Open
    <3>6. middle.at \in {"dead", "read", "put"}
      BY <1>1, <3>1 DEF Open
    <3> QED  BY <3>3, <3>4, <3>5, <3>6
  <2>5. CASE more
    <3>1. \/ Whole(asked, pipes.to_server) /\ pipes.to_server = <<asked.q, asked.q>>
          \/ Half(asked, pipes.to_server) /\ pipes.to_server = <<asked.q>>
      BY <1>1, <2>4, <2>5 DEF Whole, Half
    <3>2. \/ Whole(asked, pipes.to_server) /\ Whole(asked', pipes'.to_server)
          \/ Half(asked, pipes.to_server) /\ Half(asked', pipes'.to_server)
      <4>1. CASE pipes.to_server = <<asked.q, asked.q>>
        <5>1. pipes'.to_server = <<asked.q>>
          BY <2>1, <4>1
        <5>2. Whole(asked', pipes'.to_server)
          BY <2>2, <2>5, <5>1 DEF Whole
        <5> QED  BY <1>1, <3>1, <4>1, <5>2 DEF Half
      <4>2. CASE pipes.to_server = <<asked.q>>
        <5>1. pipes'.to_server = <<>>
          BY <2>1, <4>2
        <5>2. Half(asked', pipes'.to_server)
          BY <2>2, <2>5, <5>1 DEF Half
        <5>3. Half(asked, pipes.to_server)
          BY <2>5, <4>2 DEF Half
        <5> QED  BY <5>2, <5>3
      <4> QED  BY <3>1, <4>1, <4>2
    <3>3. Unasked(looker, pipes) => Unasked(looker', pipes')
      BY <2>1, <2>3 DEF Unasked
    <3>4. Held(asked, middle) => Held(asked', middle')
      BY <2>2, <2>3 DEF Held
    <3>5. Open(asked', middle', looker', pipes')
      <4>1. CASE middle.at = "dead"
        BY <2>3, <3>2, <4>1 DEF Open
      <4>2. CASE middle.at = "read"
        <5>1. ~ Half(asked, pipes.to_server)
          BY <1>1, <2>3, <2>5, <3>1, <4>2 DEF Open, Half, Whole, Nothing
        <5> QED  BY <2>1, <2>3, <2>4, <3>2, <3>3, <4>2, <5>1 DEF Open
      <4>3. CASE middle.at = "put"
        <5>1. Half(asked', pipes'.to_server)
          BY <2>4, <3>2, <4>3
        <5> QED  BY <1>1, <2>1, <2>2, <2>3, <3>3, <3>4, <4>3, <5>1 DEF Open
      <4> QED  BY <2>4, <4>1, <4>2, <4>3
    <3>6. asked'.answer \in {0, asked'.q} /\ asked'.at = "data"
      BY <1>1, <2>2, <2>5
    <3>7. ~ dead_intermediary
      BY <1>1 DEF Sync, SyncInv
    <3> QED  BY <1>1, <2>1, <2>2, <2>3, <3>5, <3>6, <3>7 DEF Sync, SyncInv
  <2>6. CASE ~ more
    <3>1. /\ Whole(asked, pipes.to_server)
          /\ \E w \in {asked.q, 0, INADDR_NONE} : pipes.to_server = <<w>>
      <4>1. CASE Half(asked, pipes.to_server)
        <5>1. asked.kind = "name" /\ asked.at = "wait" /\ pipes.to_server = <<asked.q>>
          BY <2>3, <4>1 DEF Half
        <5> QED  BY <1>1, <2>6, <5>1
      <4>2. CASE Whole(asked, pipes.to_server)
        <5>1. CASE asked.kind = "addr"
          BY <4>2, <5>1 DEF Whole
        <5>2. CASE asked.kind = "name"
          <6>1. CASE asked.at = "wait"
            <7>1. pipes.to_server # <<asked.q, asked.q>>
              BY <1>1, <2>6, <5>2, <6>1
            <7> QED  BY <4>2, <5>2, <6>1, <7>1 DEF Whole
          <6>2. CASE asked.at = "data"
            BY <4>2, <5>2, <6>2 DEF Whole
          <6> QED  BY <1>1, <6>1, <6>2
        <5> QED  BY <1>1, <5>1, <5>2
      <4> QED  BY <2>4, <4>1, <4>2
    <3>2. pipes'.to_server = <<>> /\ v \in {asked.q, 0, INADDR_NONE}
      BY <2>1, <3>1
    <3>3. Unasked(looker, pipes) => Unasked(looker', pipes')
      BY <2>1, <2>3 DEF Unasked
    <3>4. Quiet(middle', looker', pipes')
      BY <2>1, <2>3, <2>4, <3>1, <3>2, <3>3 DEF Quiet
    <3>5. asked'.answer \in {0, asked'.q} /\ asked'.at = "done"
      BY <2>2, <2>6, <3>2
    <3> QED  BY <1>1, <2>1, <2>2, <2>3, <3>4, <3>5 DEF Sync, SyncInv
  <2> QED  BY <2>5, <2>6
<1> QED  BY <1>2, <1>3

\* Two values written one after the other.
LEMMA AppendTwo ==
  ASSUME NEW x, NEW y
  PROVE  Append(<<x>>, y) = <<x, y>>
<1> DEFINE s == Append(<<x>>, y)
           t == <<x, y>>
<1>1. <<x>> \in Seq({x, y}) /\ Len(<<x>>) = 1 /\ <<x>>[1] = x
  OBVIOUS
<1>2. s \in Seq({x, y}) /\ Len(s) = 2 /\ s[1] = x /\ s[2] = y
  <2> DEFINE one == <<x>>
  <2>1. one \in Seq({x, y}) /\ Len(one) = 1 /\ one[1] = x /\ y \in {x, y}
    BY <1>1
  <2> HIDE DEF one
  <2>2. /\ Append(one, y) \in Seq({x, y}) /\ Len(Append(one, y)) = 2
        /\ Append(one, y)[1] = x /\ Append(one, y)[2] = y
    <3>1. /\ Append(one, y) \in Seq({x, y}) /\ Len(Append(one, y)) = Len(one) + 1
          /\ \A i \in 1 .. Len(one) : Append(one, y)[i] = one[i]
          /\ Append(one, y)[Len(one) + 1] = y
      <4>1. y \in {x, y} /\ one \in Seq({x, y})
        BY <2>1
      <4> DEFINE U == {x, y}
      <4> HIDE DEF U
      <4>2. y \in U /\ one \in Seq(U)
        BY <4>1 DEF U
      <4>3. /\ Append(one, y) \in Seq(U) /\ Len(Append(one, y)) = Len(one) + 1
            /\ \A i \in 1 .. Len(one) : Append(one, y)[i] = one[i]
            /\ Append(one, y)[Len(one) + 1] = y
        BY ONLY <4>2, AppendProperties
      <4> QED  BY <4>3 DEF U
    <3>2. Len(one) + 1 = 2 /\ 1 \in 1 .. Len(one)
      BY <2>1
    <3>3. Append(one, y)[1] = one[1]
      BY <3>1, <3>2
    <3> QED  BY <2>1, <3>1, <3>2, <3>3
  <2> QED  BY <2>2 DEF one
<1>3. t \in Seq({x, y}) /\ Len(t) = 2 /\ t[1] = x /\ t[2] = y
  OBVIOUS
<1> HIDE DEF s, t
<1>4. s = t
  <2>1. s = [i \in 1 .. 2 |-> s[i]] /\ t = [i \in 1 .. 2 |-> t[i]]
    BY <1>2, <1>3
  <2>2. \A i \in 1 .. 2 : s[i] = t[i]
    BY <1>2, <1>3
  <2> QED  BY <2>1, <2>2
<1> QED  BY <1>4 DEF s, t

\* What a step of the other processes has to keep.
LEMMA ProcessKeeps ==
  ASSUME Sync, UNCHANGED <<asked, dead_intermediary, asks>>,
         DOMAIN pipes' = DOMAIN NoLookups,
         middle'.at # "dead" => DOMAIN middle' = DOMAIN intermediary,
         Waiting => Open(asked, middle', looker', pipes'),
         ~ Waiting /\ ~ dead_intermediary => Quiet(middle', looker', pipes')
  PROVE  Sync'
  BY DEF Sync, SyncInv, Waiting

LEMMA ProcessHas ==
  ASSUME Sync
  PROVE  /\ DOMAIN pipes = DOMAIN NoLookups
         /\ middle.at # "dead" => DOMAIN middle = DOMAIN intermediary
         /\ Waiting => /\ asked.q \in Nat /\ asked.q > 0 /\ asked.kind \in {"addr", "name"}
                       /\ Open(asked, middle, looker, pipes)
         /\ ~ Waiting /\ ~ dead_intermediary => Quiet(middle, looker, pipes)
  BY DEF Sync, SyncInv, Waiting

\* The intermediary takes the question up, or answers that it cannot.
LEMMA ReadsKeeps ==
  ASSUME Sync, asks' = asks, NEW started \in BOOLEAN, middle_reads(started)
  PROVE  Sync'
<1> DEFINE r == Head(pipes.to_middle)
           up == middle.lookup_pid \/ started
           asks_looker == IF started THEN <<>> ELSE pipes.to_looker
<1>1. /\ middle.at = "read" /\ middle.at # "dead" /\ pipes.to_middle # <<>>
      /\ UNCHANGED <<asked, dead_intermediary>>
      /\ looker' = IF started THEN Reading ELSE looker
  BY DEF middle_reads
<1>2. /\ DOMAIN middle' = DOMAIN intermediary
      /\ middle'.at = IF up THEN "wait" ELSE "read"
      /\ middle'.kind = r.kind /\ middle'.q = r.q
  BY <1>1, ProcessHas DEF middle_reads, intermediary
<1>3. /\ DOMAIN pipes' = DOMAIN NoLookups
      /\ pipes'.to_middle = Tail(pipes.to_middle)
      /\ pipes'.to_server = IF up THEN pipes.to_server ELSE Append(pipes.to_server, 0)
      /\ pipes'.from_looker = IF started THEN <<>> ELSE pipes.from_looker
      /\ pipes'.to_looker = IF up /\ alive(looker') THEN Append(asks_looker, r) ELSE asks_looker
  <2>1. CASE started
    BY <2>1, ProcessHas DEF middle_reads, NoLookups
  <2>2. CASE ~ started
    BY <2>2, ProcessHas DEF middle_reads, NoLookups
  <2> QED  BY <2>1, <2>2
<1>4. ~ Quiet(middle, looker, pipes)
  BY <1>1 DEF Quiet
<1>5. ASSUME Waiting PROVE Open(asked, middle', looker', pipes')
  <2>1. /\ asked.q \in Nat /\ asked.q > 0 /\ asked.kind \in {"addr", "name"}
        /\ Unasked(looker, pipes)
        /\ pipes.to_middle = <<Question(asked)>> /\ Nothing(asked, pipes.to_server)
    BY <1>1, <1>5, ProcessHas DEF Open
  <2>2. r = Question(asked) /\ pipes'.to_middle = <<>>
    BY <1>3, <2>1
  <2>3. pipes.to_looker = <<>> /\ pipes.from_looker = <<>> /\ Still(looker) /\ asks_looker = <<>>
    BY <2>1 DEF Unasked
  <2>4. Still(looker') /\ pipes'.from_looker = <<>>
    BY <1>1, <1>3, <2>3 DEF Still
  <2>5. CASE ~ up
    <3>1. pipes'.to_server = <<0>>
      BY <1>3, <2>1, <2>5 DEF Nothing
    <3>2. Whole(asked, pipes'.to_server)
      BY <2>1, <3>1 DEF Whole, Nothing
    <3>3. Unasked(looker', pipes')
      BY <1>3, <2>3, <2>4, <2>5 DEF Unasked
    <3> QED  BY <1>2, <2>2, <2>5, <3>2, <3>3 DEF Open
  <2>6. CASE up
    <3>1. Held(asked, middle')
      BY <1>2, <2>2 DEF Held, Question
    <3>2. Nothing(asked, pipes'.to_server)
      BY <1>3, <2>1, <2>6
    <3>3. CASE alive(looker')
      <4>1. pipes'.to_looker = <<Question(asked)>>
        BY <1>3, <2>2, <2>3, <2>6, <3>3
      <4>2. Looked(asked, looker', pipes')
        BY <2>4, <4>1 DEF Looked
      <4> QED  BY <1>2, <2>2, <2>6, <3>1, <3>2, <4>2 DEF Open
    <3>4. CASE ~ alive(looker')
      <4>1. pipes'.to_looker = <<>> /\ looker' = Dead
        BY <1>3, <2>3, <2>4, <3>4 DEF alive, Still, Reading
      <4>2. Looked(asked, looker', pipes')
        BY <2>4, <4>1 DEF Looked
      <4> QED  BY <1>2, <2>2, <2>6, <3>1, <3>2, <4>2 DEF Open
    <3> QED  BY <3>3, <3>4
  <2> QED  BY <2>5, <2>6
<1> QED  BY <1>1, <1>2, <1>3, <1>4, <1>5, ProcessHas, ProcessKeeps

\* It gets an address, a length or a name from the lookup process.
LEMMA GetsKeeps ==
  ASSUME Sync, asks' = asks, middle_gets
  PROVE  Sync'
<1> DEFINE v == Head(pipes.from_looker)
<1>1. /\ middle.at \in {"wait", "data"} /\ middle.at # "dead" /\ pipes.from_looker # <<>>
      /\ UNCHANGED <<asked, dead_intermediary, looker>>
  BY DEF middle_gets
<1>2. /\ DOMAIN middle' = DOMAIN intermediary
      /\ middle'.kind = middle.kind /\ middle'.q = middle.q
      /\ middle.at = "data" => /\ middle'.at = "send" /\ middle'.buffer = v
                               /\ middle'.len = middle.len
      /\ middle.at = "wait" /\ middle.kind = "addr" => middle'.at = "send" /\ middle'.addr = v
      /\ middle.at = "wait" /\ middle.kind # "addr"
           => middle'.len = v /\ middle'.at = IF v > 0 THEN "data" ELSE "send"
  <2>1. DOMAIN middle = DOMAIN intermediary
    BY <1>1, ProcessHas
  <2>2. CASE middle.at = "data"
    <3>1. middle' = [middle EXCEPT !.buffer = v, !.at = "send"]
      BY <2>2 DEF middle_gets
    <3> QED  BY <1>1, <2>1, <2>2, <3>1 DEF intermediary
  <2>3. CASE middle.at # "data" /\ middle.kind = "addr"
    <3>1. middle' = [middle EXCEPT !.addr = v, !.at = "send"]
      BY <2>3 DEF middle_gets
    <3> QED  BY <1>1, <2>1, <2>3, <3>1 DEF intermediary
  <2>4. CASE middle.at # "data" /\ middle.kind # "addr"
    BY <2>1, <2>4 DEF middle_gets, intermediary
  <2> QED  BY <1>1, <2>2, <2>3, <2>4
<1>3. /\ DOMAIN pipes' = DOMAIN NoLookups
      /\ pipes'.to_middle = pipes.to_middle /\ pipes'.to_server = pipes.to_server
      /\ pipes'.to_looker = pipes.to_looker
      /\ pipes'.from_looker = Tail(pipes.from_looker)
  BY ProcessHas DEF middle_gets, NoLookups
<1>4. ~ Quiet(middle, looker, pipes)
  BY <1>1 DEF Quiet
<1>5. ASSUME Waiting PROVE Open(asked, middle', looker', pipes')
  <2>1. /\ asked.q \in Nat /\ asked.q > 0 /\ asked.kind \in {"addr", "name"}
        /\ Held(asked, middle) /\ pipes.to_middle = <<>> /\ Nothing(asked, pipes.to_server)
        /\ middle.at = "wait" => Looked(asked, looker, pipes)
        /\ middle.at = "data" => Named(asked, looker, pipes) /\ middle.len = asked.q
    BY <1>1, <1>5, ProcessHas DEF Open
  <2>2. /\ Held(asked, middle') /\ pipes'.to_middle = <<>> /\ Nothing(asked, pipes'.to_server)
        /\ middle.kind = asked.kind
    BY <1>2, <1>3, <2>1 DEF Held
  <2>3. CASE middle.at = "data"
    <3>1. pipes.to_looker = <<>> /\ pipes.from_looker = <<asked.q>> /\ Still(looker) /\ asked.kind = "name"
      BY <1>1, <2>1, <2>3 DEF Named
    <3>2. pipes'.from_looker = <<>> /\ v = asked.q
      BY <1>3, <3>1
    <3>3. Unasked(looker', pipes')
      BY <1>1, <1>3, <3>1, <3>2 DEF Unasked
    <3>4. middle'.at = "send" /\ middle'.len = asked.q /\ middle'.buffer = asked.q
      BY <1>2, <2>1, <2>3, <3>2
    <3> QED  BY <2>2, <3>1, <3>3, <3>4 DEF Open
  <2>4. CASE middle.at = "wait" /\ asked.kind = "addr"
    <3>1. /\ pipes.to_looker = <<>> /\ Still(looker)
          /\ \E w \in {asked.q, INADDR_NONE} : pipes.from_looker = <<w>>
      BY <1>1, <2>1, <2>4 DEF Looked
    <3>2. pipes'.from_looker = <<>> /\ v \in {asked.q, 0, INADDR_NONE}
      BY <1>3, <3>1
    <3>3. Unasked(looker', pipes')
      BY <1>1, <1>3, <3>1, <3>2 DEF Unasked
    <3>4. middle'.at = "send" /\ middle'.addr = v
      BY <1>2, <2>2, <2>4
    <3> QED  BY <2>2, <2>4, <3>2, <3>3, <3>4 DEF Open
  <2>5. CASE middle.at = "wait" /\ asked.kind = "name"
    <3>1. middle'.len = v /\ middle'.at = IF v > 0 THEN "data" ELSE "send"
      BY <1>2, <2>2, <2>5
    <3>2. /\ pipes.to_looker = <<>>
          /\ \/ /\ pipes.from_looker = <<asked.q>>
                /\ (looker = Dead \/ looker = [at |-> "put", r |-> Question(asked)])
             \/ (pipes.from_looker = <<asked.q, asked.q>> \/ pipes.from_looker = <<0>>) /\ Still(looker)
      BY <1>1, <2>1, <2>5 DEF Looked
    <3>3. CASE pipes.from_looker = <<0>>
      <4>1. v = 0 /\ pipes'.from_looker = <<>> /\ Still(looker)
        BY <1>3, <2>1, <3>2, <3>3
      <4>2. Unasked(looker', pipes')
        BY <1>1, <1>3, <3>2, <4>1 DEF Unasked
      <4> QED  BY <2>2, <2>5, <3>1, <4>1, <4>2 DEF Open
    <3>4. CASE pipes.from_looker = <<asked.q, asked.q>>
      <4>1. v = asked.q /\ pipes'.from_looker = <<asked.q>> /\ Still(looker)
        BY <1>3, <2>1, <3>2, <3>4
      <4>2. Named(asked, looker', pipes')
        BY <1>1, <1>3, <2>5, <3>2, <4>1 DEF Named
      <4> QED  BY <2>1, <2>2, <3>1, <4>1, <4>2 DEF Open
    <3>5. CASE pipes.from_looker = <<asked.q>> /\ (looker = Dead \/ looker = [at |-> "put", r |-> Question(asked)])
      <4>1. v = asked.q /\ pipes'.from_looker = <<>>
        BY <1>3, <3>5
      <4>2. Named(asked, looker', pipes')
        BY <1>1, <1>3, <2>5, <3>2, <3>5, <4>1 DEF Named
      <4> QED  BY <2>1, <2>2, <3>1, <4>1, <4>2 DEF Open
    <3> QED  BY <3>2, <3>3, <3>4, <3>5
  <2> QED  BY <1>1, <2>1, <2>3, <2>4, <2>5
<1> QED  BY <1>1, <1>2, <1>3, <1>4, <1>5, ProcessHas, ProcessKeeps

\* It finds the lookup process gone: whatever that has not said is no answer.
LEMMA RestartsKeeps ==
  ASSUME Sync, asks' = asks, NEW started \in BOOLEAN, middle_restarts(started)
  PROVE  Sync'
<1>1. /\ middle.at \in {"wait", "data"} /\ middle.at # "dead"
      /\ UNCHANGED <<asked, dead_intermediary>>
      /\ looker' = IF started THEN Reading ELSE Dead
  BY DEF middle_restarts, restart_lookup
<1>2. /\ DOMAIN middle' = DOMAIN intermediary
      /\ middle'.at = "send" /\ middle'.kind = middle.kind /\ middle'.q = middle.q
      /\ middle.kind = "addr" => middle'.addr = 0
      /\ middle.kind # "addr" => middle'.len = 0
  <2>1. DOMAIN middle = DOMAIN intermediary
    BY <1>1, ProcessHas
  <2>2. CASE middle.kind = "addr"
    BY <2>1, <2>2 DEF middle_restarts, restart_lookup, no_answer, intermediary
  <2>3. CASE middle.kind # "addr"
    BY <2>1, <2>3 DEF middle_restarts, restart_lookup, no_answer, intermediary
  <2> QED  BY <2>2, <2>3
<1>3. /\ DOMAIN pipes' = DOMAIN NoLookups
      /\ pipes'.to_middle = pipes.to_middle /\ pipes'.to_server = pipes.to_server
      /\ pipes'.to_looker = <<>> /\ pipes'.from_looker = <<>>
  BY DEF middle_restarts, restart_lookup, NoLookups
<1>4. ~ Quiet(middle, looker, pipes)
  BY <1>1 DEF Quiet
<1>5. ASSUME Waiting PROVE Open(asked, middle', looker', pipes')
  <2>1. Held(asked, middle) /\ pipes.to_middle = <<>> /\ Nothing(asked, pipes.to_server)
    BY <1>1, <1>5, ProcessHas DEF Open
  <2>2. Unasked(looker', pipes')
    BY <1>1, <1>3 DEF Unasked, Still
  <2>3. Held(asked, middle') /\ middle.kind = asked.kind
    BY <1>2, <2>1 DEF Held
  <2> QED  BY <1>2, <1>3, <2>1, <2>2, <2>3 DEF Open
<1> QED  BY <1>1, <1>2, <1>3, <1>4, <1>5, ProcessHas, ProcessKeeps

\* It sends the address, the length or the name.
LEMMA SendsKeeps ==
  ASSUME Sync, asks' = asks, middle_sends
  PROVE  Sync'
<1> DEFINE more == middle.at = "send" /\ middle.kind = "name" /\ middle.len > 0
           sent == IF middle.at = "put" THEN middle.buffer
                   ELSE IF middle.kind = "addr" THEN middle.addr ELSE middle.len
<1>1. /\ middle.at \in {"send", "put"} /\ middle.at # "dead"
      /\ UNCHANGED <<asked, dead_intermediary, looker>>
  BY DEF middle_sends
<1>2. /\ DOMAIN middle' = DOMAIN intermediary
      /\ middle'.at = IF more THEN "put" ELSE "read"
      /\ middle'.kind = middle.kind /\ middle'.q = middle.q /\ middle'.buffer = middle.buffer
  <2>1. DOMAIN middle = DOMAIN intermediary
    BY <1>1, ProcessHas
  <2> QED  BY <2>1 DEF middle_sends, intermediary
<1>3. /\ DOMAIN pipes' = DOMAIN NoLookups
      /\ pipes'.to_middle = pipes.to_middle /\ pipes'.to_looker = pipes.to_looker
      /\ pipes'.from_looker = pipes.from_looker
      /\ pipes'.to_server = Append(pipes.to_server, sent)
  BY ProcessHas DEF middle_sends, NoLookups
<1>4. ~ Quiet(middle, looker, pipes)
  BY <1>1 DEF Quiet
<1>5. ASSUME Waiting PROVE Open(asked, middle', looker', pipes')
  <2>1. /\ asked.q \in Nat /\ asked.q > 0 /\ asked.kind \in {"addr", "name"}
        /\ Held(asked, middle) /\ pipes.to_middle = <<>> /\ Unasked(looker, pipes)
        /\ middle.at = "send" => /\ Nothing(asked, pipes.to_server)
                                 /\ IF asked.kind = "addr"
                                    THEN middle.addr \in {asked.q, 0, INADDR_NONE}
                                    ELSE middle.len = 0 \/ (middle.len = asked.q /\ middle.buffer = asked.q)
        /\ middle.at = "put" => Half(asked, pipes.to_server) /\ middle.buffer = asked.q
    BY <1>1, <1>5, ProcessHas DEF Open
  <2>2. Held(asked, middle') /\ Unasked(looker', pipes') /\ middle.kind = asked.kind
    BY <1>1, <1>2, <1>3, <2>1 DEF Held, Unasked
  <2>3. CASE middle.at = "put"
    <3>1. pipes'.to_server = Append(pipes.to_server, asked.q)
      BY <1>3, <2>1, <2>3
    <3>2. Whole(asked, pipes'.to_server)
      <4>1. /\ asked.kind = "name"
            /\ \/ asked.at = "wait" /\ pipes.to_server = <<asked.q>>
               \/ asked.at = "data" /\ pipes.to_server = <<>>
        BY <2>1, <2>3 DEF Half
      <4>2. CASE asked.at = "wait" /\ pipes.to_server = <<asked.q>>
        <5>1. pipes'.to_server = <<asked.q, asked.q>>
          BY <3>1, <4>2, AppendTwo
        <5> QED  BY <4>1, <4>2, <5>1 DEF Whole
      <4>3. CASE asked.at = "data" /\ pipes.to_server = <<>>
        <5>1. pipes'.to_server = <<asked.q>>
          BY <3>1, <4>3
        <5> QED  BY <4>1, <4>3, <5>1 DEF Whole
      <4> QED  BY <4>1, <4>2, <4>3
    <3> QED  BY <1>2, <1>3, <2>1, <2>2, <2>3, <3>2 DEF Open
  <2>4. CASE middle.at = "send" /\ more
    <3>1. pipes'.to_server = <<asked.q>> /\ middle.buffer = asked.q
      <4>1. sent = asked.q /\ middle.buffer = asked.q
        BY <2>1, <2>2, <2>4
      <4>2. pipes.to_server = <<>>
        BY <2>1, <2>4 DEF Nothing
      <4> QED  BY <1>3, <4>1, <4>2
    <3>2. Half(asked, pipes'.to_server)
      BY <2>1, <2>2, <2>4, <3>1 DEF Nothing, Half
    <3> QED  BY <1>2, <1>3, <2>1, <2>2, <2>4, <3>1, <3>2 DEF Open
  <2>5. CASE middle.at = "send" /\ ~ more
    <3>1. CASE asked.kind = "addr"
      <4>1. pipes'.to_server = <<middle.addr>>
        <5>1. sent = middle.addr
          BY <2>2, <2>5, <3>1
        <5>2. pipes.to_server = <<>>
          BY <2>1, <2>5 DEF Nothing
        <5> QED  BY <1>3, <5>1, <5>2
      <4>2. Whole(asked, pipes'.to_server)
        BY <2>1, <2>5, <3>1, <4>1 DEF Nothing, Whole
      <4> QED  BY <1>2, <1>3, <2>1, <2>2, <2>5, <4>2 DEF Open
    <3>2. CASE asked.kind = "name"
      <4>1. pipes'.to_server = <<0>>
        <5>1. sent = 0
          BY <2>1, <2>2, <2>5, <3>2
        <5>2. pipes.to_server = <<>>
          BY <2>1, <2>5 DEF Nothing
        <5> QED  BY <1>3, <5>1, <5>2
      <4>2. Whole(asked, pipes'.to_server)
        BY <2>1, <2>5, <3>2, <4>1 DEF Nothing, Whole
      <4> QED  BY <1>2, <1>3, <2>1, <2>2, <2>5, <4>2 DEF Open
    <3> QED  BY <2>1, <3>1, <3>2
  <2> QED  BY <1>1, <2>3, <2>4, <2>5
<1> QED  BY <1>1, <1>2, <1>3, <1>4, <1>5, ProcessHas, ProcessKeeps

\* The lookup process takes the question, answers it, runs out of time, or
\* exits because nobody asks any more.
LEMMA LookerKeeps ==
  ASSUME Sync, asks' = asks,
         \/ lookup_reads \/ \E found \in BOOLEAN : lookup_answers(found)
         \/ lookup_puts_name \/ timeout_proc \/ killed_looker
  PROVE  Sync'
<1>1. UNCHANGED <<asked, dead_intermediary, middle>>
  BY DEF lookup_reads, lookup_answers, lookup_puts_name, timeout_proc, killed_looker
<1>2. /\ DOMAIN pipes' = DOMAIN NoLookups
      /\ pipes'.to_middle = pipes.to_middle /\ pipes'.to_server = pipes.to_server
  BY ProcessHas DEF lookup_reads, lookup_answers, lookup_puts_name, timeout_proc,
     killed_looker, NoLookups
<1>3. CASE middle.at = "dead"
  <2>1. Waiting => Open(asked, middle', looker', pipes')
    BY <1>1, <1>2, <1>3, ProcessHas DEF Open
  <2>2. ~ Waiting /\ ~ dead_intermediary => Quiet(middle', looker', pipes')
    BY <1>1, <1>2, <1>3, ProcessHas DEF Quiet
  <2> QED  BY <1>1, <1>2, <1>3, <2>1, <2>2, ProcessHas, ProcessKeeps
<1>4. CASE middle.at # "dead"
  <2>1. \/ lookup_reads /\ looker.at = "read" /\ pipes.to_looker # <<>>
           /\ looker' = [at |-> "resolve", r |-> Head(pipes.to_looker)]
           /\ pipes'.to_looker = Tail(pipes.to_looker)
           /\ pipes'.from_looker = pipes.from_looker
        \/ looker.at \in {"resolve", "put"}
        \/ looker' = Dead /\ pipes' = pipes
    <3>1. CASE lookup_reads
      BY <1>4, <3>1, ProcessHas DEF lookup_reads, alive, NoLookups
    <3>2. CASE killed_looker
      BY <3>2 DEF killed_looker
    <3> QED  BY <3>1, <3>2 DEF lookup_answers, lookup_puts_name, timeout_proc
  <2>2. ASSUME Unasked(looker, pipes) PROVE Unasked(looker', pipes')
    <3>1. ~ (looker.at \in {"resolve", "put"}) /\ pipes.to_looker = <<>>
      BY <2>2 DEF Unasked, Still, Reading, Dead
    <3> QED  BY <2>1, <2>2, <3>1 DEF Unasked, Still
  <2>3. ASSUME Waiting, Looked(asked, looker, pipes) PROVE Looked(asked, looker', pipes')
    <3>0. asked.kind \in {"addr", "name"}
      BY <2>3, ProcessHas
    <3>1. CASE lookup_reads /\ pipes.to_looker # <<>>
      <4>1. pipes.to_looker = <<Question(asked)>> /\ pipes.from_looker = <<>>
        BY <2>3, <3>1 DEF Looked
      <4>2. /\ looker' = [at |-> "resolve", r |-> Question(asked)]
            /\ pipes'.to_looker = <<>> /\ pipes'.from_looker = <<>>
        BY <3>1, <4>1, ProcessHas DEF lookup_reads, NoLookups
      <4> QED  BY <4>2 DEF Looked
    <3>2. CASE looker' = Dead /\ pipes' = pipes /\ looker.at # "dead"
      BY <2>3, <3>2 DEF Looked, Still
    <3>3. ASSUME NEW found \in BOOLEAN, lookup_answers(found) PROVE Looked(asked, looker', pipes')
      <4>1. /\ looker = [at |-> "resolve", r |-> Question(asked)]
            /\ pipes.to_looker = <<>> /\ pipes.from_looker = <<>>
        BY <2>3, <3>3 DEF Looked, lookup_answers, Still, Reading, Dead
      <4>2. looker.r = Question(asked) /\ looker.r.kind = asked.kind /\ looker.r.q = asked.q
        BY <4>1 DEF Question
      <4> DEFINE said == IF found THEN asked.q ELSE IF asked.kind = "addr" THEN INADDR_NONE ELSE 0
      <4>3. pipes'.to_looker = <<>> /\ pipes'.from_looker = <<said>>
        <5>1. /\ pipes'.to_looker = pipes.to_looker
              /\ pipes'.from_looker = Append(pipes.from_looker, said)
          BY <3>3, <4>2, ProcessHas DEF lookup_answers, NoLookups
        <5> QED  BY <4>1, <5>1
      <4>4. looker' = IF found /\ asked.kind = "name" THEN [at |-> "put", r |-> Question(asked)]
                      ELSE Reading
        BY <3>3, <4>1, <4>2 DEF lookup_answers
      <4>5. CASE asked.kind = "addr"
        BY <4>3, <4>4, <4>5 DEF Looked, Still
      <4>6. CASE asked.kind = "name"
        BY <4>3, <4>4, <4>6 DEF Looked, Still
      <4> QED  BY <3>0, <4>5, <4>6
    <3>4. CASE lookup_puts_name
      <4>1. /\ looker = [at |-> "put", r |-> Question(asked)]
            /\ pipes.to_looker = <<>> /\ pipes.from_looker = <<asked.q>> /\ asked.kind = "name"
        BY <2>3, <3>4 DEF Looked, lookup_puts_name, Still, Reading, Dead
      <4>2. looker.r.q = asked.q
        BY <4>1 DEF Question
      <4>3. /\ pipes'.to_looker = pipes.to_looker
            /\ pipes'.from_looker = Append(pipes.from_looker, asked.q) /\ looker' = Reading
        BY <3>4, <4>2, ProcessHas DEF lookup_puts_name, NoLookups
      <4>4. pipes'.to_looker = <<>> /\ pipes'.from_looker = <<asked.q, asked.q>>
        BY <4>1, <4>3, AppendTwo
      <4> QED  BY <4>1, <4>3, <4>4 DEF Looked, Still
    <3> QED  BY <1>4, <3>1, <3>2, <3>3, <3>4 DEF lookup_reads, timeout_proc, killed_looker, alive
  <2>4. ASSUME Waiting, Named(asked, looker, pipes) PROVE Named(asked, looker', pipes')
    <3>1. CASE lookup_reads /\ pipes.to_looker # <<>>
      BY <2>4, <3>1 DEF Named
    <3>2. CASE looker' = Dead /\ pipes' = pipes /\ looker.at # "dead"
      BY <2>4, <3>2 DEF Named, Still
    <3>3. CASE \E found \in BOOLEAN : lookup_answers(found)
      BY <2>4, <3>3 DEF Named, lookup_answers, Still, Reading, Dead
    <3>4. CASE lookup_puts_name
      <4>1. /\ looker = [at |-> "put", r |-> Question(asked)]
            /\ pipes.to_looker = <<>> /\ pipes.from_looker = <<>> /\ asked.kind = "name"
        BY <2>4, <3>4 DEF Named, lookup_puts_name, Still, Reading, Dead
      <4>2. looker.r.q = asked.q
        BY <4>1 DEF Question
      <4>3. /\ pipes'.to_looker = pipes.to_looker
            /\ pipes'.from_looker = Append(pipes.from_looker, asked.q) /\ looker' = Reading
        BY <3>4, <4>2, ProcessHas DEF lookup_puts_name, NoLookups
      <4>4. pipes'.to_looker = <<>> /\ pipes'.from_looker = <<asked.q>>
        BY <4>1, <4>3
      <4> QED  BY <4>1, <4>3, <4>4 DEF Named, Still
    <3> QED  BY <1>4, <3>1, <3>2, <3>3, <3>4 DEF lookup_reads, timeout_proc, killed_looker, alive
  <2>5. Waiting => Open(asked, middle', looker', pipes')
    <3> SUFFICES ASSUME Waiting PROVE Open(asked, middle', looker', pipes')
      OBVIOUS
    <3>1. Open(asked, middle, looker, pipes)
      BY ProcessHas
    <3> QED  BY <1>1, <1>2, <1>4, <2>2, <2>3, <2>4, <3>1 DEF Open
  <2>6. ~ Waiting /\ ~ dead_intermediary => Quiet(middle', looker', pipes')
    BY <1>1, <1>2, <1>4, <2>2, ProcessHas DEF Quiet
  <2> QED  BY <1>1, <1>2, <1>4, <2>5, <2>6, ProcessHas, ProcessKeeps
<1> QED  BY <1>3, <1>4

\* The intermediary is killed: what it has not sent will not come.
LEMMA KilledKeeps ==
  ASSUME Sync, asks' = asks, killed_middle
  PROVE  Sync'
<1>1. UNCHANGED <<asked, dead_intermediary, looker, pipes>> /\ middle'.at = "dead" /\ middle.at # "dead"
  BY DEF killed_middle, Dead, alive
<1>2. Waiting => Open(asked, middle', looker', pipes')
  BY <1>1, ProcessHas DEF Open
<1>3. ~ Waiting /\ ~ dead_intermediary => Quiet(middle', looker', pipes')
  BY <1>1, ProcessHas DEF Quiet
<1> QED  BY <1>1, <1>2, <1>3, ProcessHas, ProcessKeeps

-----------------------------------------------------------------------------
(* name_lookup() *)

Slot(info) == [fd |-> info.fd, task |-> info.task]
Positive == Nat \ {0}
Infos == [task : Positive, fd : Positive]
\* The suspended tasks s, of n that asked, each with a descriptor of its own.
Queued(s, n) ==
  /\ s \in Seq(Infos) /\ n \in Nat /\ Len(s) <= n
  /\ \A i \in DOMAIN s : s[i].task <= n
  /\ \A i, j \in DOMAIN s : i < j => s[i].task < s[j].task
  /\ \A i, j \in DOMAIN s : s[i].fd = s[j].fd => i = j
\* The slots r are those of the tasks s, or free.
Registered(r, s) ==
  /\ r \in Seq([task : Nat, fd : Nat])
  /\ \A k \in DOMAIN r : r[k] = FREE_FD \/ \E i \in DOMAIN s : r[k] = Slot(s[i])
  /\ \A i \in DOMAIN s : \E k \in DOMAIN r : r[k] = Slot(s[i])
  /\ \A k, l \in DOMAIN r : r[k] = r[l] => r[k] = FREE_FD \/ k = l
\* A child has written nothing before it resolves the name, and all of the
\* answer or nothing when it has exited.
ChildFields == DOMAIN [q |-> 0, timeout |-> 0, at |-> 0, out |-> 0]
Child(c) ==
  /\ DOMAIN c = ChildFields
  /\ \/ c.at \in {"resolve", "failed"} /\ c.out = 0
     \/ c.at = "write" /\ c.out \in 0 .. WRITES - 1
     \/ c.at = "exit" /\ c.out \in {0, WRITES}
\* The children c are those of the tasks s.
Parented(c, s) ==
  /\ DOMAIN c = {s[i].fd : i \in DOMAIN s}
  /\ \A i \in DOMAIN s : c[s[i].fd].q = s[i].task
  /\ \A fd \in DOMAIN c : Child(c[fd])

AInv ==
  /\ Queued(infos, asks) /\ Registered(reg_fds, infos) /\ Parented(children, infos)
  /\ async_name_lookup_len = Len(infos)
  /\ 0 \notin readable /\ panicked = FALSE
  /\ resumed.answer \in {0, resumed.task}
  /\ pc.at = "check" => pc.todo \in Seq(DOMAIN reg_fds)

LEMMA InfoIs ==
  ASSUME NEW S, NEW s \in Seq(S), NEW i \in DOMAIN s
  PROVE  s[i] \in S
  OBVIOUS

\* A free descriptor is found for each task.
LEMMA FreshIs ==
  ASSUME NEW s, NEW n, Queued(s, n), NEW c, Parented(c, s)
  PROVE  LET fd == Min((1 .. n + 1) \ DOMAIN c)
         IN  fd \in Positive /\ fd \notin DOMAIN c
<1> DEFINE T == (1 .. n + 1) \ DOMAIN c
<1>1. n \in Nat /\ Len(s) \in Nat /\ Len(s) <= n /\ DOMAIN s = 1 .. Len(s)
  BY DEF Queued
<1>2. T # {}
  <2> SUFFICES ASSUME T = {} PROVE FALSE
    OBVIOUS
  <2>1. \A x \in 1 .. n + 1 : \E i \in 1 .. Len(s) : s[i].fd = x
    BY <1>1 DEF Parented
  <2> DEFINE f == [x \in 1 .. n + 1 |-> CHOOSE i \in 1 .. Len(s) : s[i].fd = x]
  <2>2. \A x \in 1 .. n + 1 : f[x] \in 1 .. Len(s) /\ s[f[x]].fd = x
    BY <2>1
  <2>3. f \in [1 .. n + 1 -> 1 .. Len(s)]
    BY <2>2
  <2>4. /\ IsFiniteSet(1 .. n + 1) /\ Cardinality(1 .. n + 1) = n + 1
        /\ IsFiniteSet(1 .. Len(s)) /\ Cardinality(1 .. Len(s)) = Len(s)
    <3>1. 1 \in Int /\ n + 1 \in Int /\ Len(s) \in Int /\ ~ (1 > n + 1)
      BY <1>1
    <3>2. /\ IsFiniteSet(1 .. n + 1)
          /\ Cardinality(1 .. n + 1) = IF 1 > n + 1 THEN 0 ELSE (n + 1) - 1 + 1
      BY ONLY <3>1, FS_Interval
    <3>3. /\ IsFiniteSet(1 .. Len(s))
          /\ Cardinality(1 .. Len(s)) = IF 1 > Len(s) THEN 0 ELSE Len(s) - 1 + 1
      BY ONLY <3>1, FS_Interval
    <3> QED  BY <1>1, <3>1, <3>2, <3>3
  <2>5. Cardinality(1 .. Len(s)) < Cardinality(1 .. n + 1)
    BY <1>1, <2>4
  <2> HIDE DEF f
  <2>6. \E x, y \in 1 .. n + 1 : x # y /\ f[x] = f[y]
    BY ONLY <2>3, <2>4, <2>5, FS_PigeonHole
  <2> QED  BY <2>2, <2>6
<1>3. T \in SUBSET Nat
  BY <1>1
<1>4. \E x \in T : \A y \in T : x <= y
  BY ONLY <1>2, <1>3, Least
<1>5. Min(T) \in T
  BY <1>4 DEF Min
<1> QED  BY <1>1, <1>5 DEF Positive

\* network_register_fd() takes the first free slot, or a new one.
Placed(r, s, new) ==
  /\ r \in Seq([task : Nat, fd : Nat]) /\ DOMAIN s \subseteq DOMAIN r
  /\ \E k \in DOMAIN r :
       /\ r[k] = new
       /\ \A l \in DOMAIN r : l = k \/ (l \in DOMAIN s /\ r[l] = s[l])
       /\ k \in DOMAIN s => s[k] = FREE_FD
LEMMA RegisterIs ==
  ASSUME NEW fd \in Positive, NEW task \in Positive,
         reg_fds \in Seq([task : Nat, fd : Nat])
  PROVE  Placed(network_register_fd(fd, task), reg_fds, [fd |-> fd, task |-> task])
<1> DEFINE new == [fd |-> fd, task |-> task]
           free == {i \in DOMAIN reg_fds : reg_fds[i] = FREE_FD}
           r == network_register_fd(fd, task)
<1>1. new \in [task : Nat, fd : Nat]
  BY DEF Positive
<1>2. DOMAIN reg_fds = 1 .. Len(reg_fds) /\ Len(reg_fds) \in Nat
  OBVIOUS
<1>3. CASE free = {}
  <2>1. r = Append(reg_fds, new)
    BY <1>3 DEF network_register_fd
  <2> HIDE DEF new, r
  <2>2. /\ r \in Seq([task : Nat, fd : Nat]) /\ Len(r) = Len(reg_fds) + 1
        /\ \A i \in 1 .. Len(reg_fds) : r[i] = reg_fds[i]
        /\ r[Len(reg_fds) + 1] = new
    BY <1>1, <2>1, AppendProperties
  <2>3. DOMAIN r = 1 .. Len(reg_fds) + 1
    BY <1>2, <2>2
  <2>4. /\ Len(reg_fds) + 1 \in DOMAIN r /\ Len(reg_fds) + 1 \notin DOMAIN reg_fds
        /\ \A l \in DOMAIN r : l = Len(reg_fds) + 1 \/ l \in DOMAIN reg_fds
    BY <1>2, <2>3
  <2>5. Placed(r, reg_fds, new)
    BY <1>2, <2>2, <2>3, <2>4 DEF Placed
  <2> QED  BY <2>5 DEF new, r
<1>4. CASE free # {}
  <2> DEFINE k == Min(free)
  <2>1. free \in SUBSET Nat
    BY <1>2
  <2>2. \E x \in free : \A y \in free : x <= y
    BY ONLY <1>4, <2>1, Least
  <2>3. k \in DOMAIN reg_fds /\ reg_fds[k] = FREE_FD
    BY <2>2 DEF Min
  <2>4. r = [reg_fds EXCEPT ![k] = new]
    BY <1>4 DEF network_register_fd
  <2> HIDE DEF new, r, k
  <2>5. /\ r \in Seq([task : Nat, fd : Nat]) /\ DOMAIN r = DOMAIN reg_fds
        /\ r[k] = new /\ \A l \in DOMAIN r : l = k \/ r[l] = reg_fds[l]
    BY <1>1, <2>3, <2>4
  <2>6. Placed(r, reg_fds, new)
    BY <2>3, <2>5 DEF Placed
  <2> QED  BY <2>6 DEF new, r
<1> QED  BY <1>3, <1>4

\* A task is suspended, with a child and a slot.
LEMMA SpawnKeeps ==
  ASSUME Queued(infos, asks), Registered(reg_fds, infos), Parented(children, infos),
         async_name_lookup_len = Len(infos),
         NEW timeout \in BOOLEAN, name_lookup(timeout)
  PROVE  /\ Queued(infos, asks)' /\ Registered(reg_fds, infos)' /\ Parented(children, infos)'
         /\ (async_name_lookup_len = Len(infos))'
         /\ DOMAIN reg_fds \subseteq DOMAIN reg_fds'
         /\ UNCHANGED <<readable, resumed, panicked>>
<1> DEFINE task == asks + 1
           fd == Min((1 .. asks + 1) \ DOMAIN children)
           info == [task |-> task, fd |-> fd]
           child == [q |-> task, timeout |-> timeout, at |-> "resolve", out |-> 0]
           n == Len(infos)
<1>1. fd \in Positive /\ fd \notin DOMAIN children
  BY FreshIs
<1>2. asks \in Nat /\ n \in Nat /\ n <= asks /\ task \in Positive /\ asks < task
  BY DEF Queued, Positive
<1>3. /\ asks' = asks + 1 /\ children' = added(children, fd, child)
      /\ infos' = Append(infos, info) /\ reg_fds' = network_register_fd(fd, task)
      /\ async_name_lookup_len' = async_name_lookup_len + 1
      /\ UNCHANGED <<readable, resumed, panicked>>
  BY DEF name_lookup, enqueue_lookup_task
<1>4. info \in Infos /\ info.task = task /\ info.fd = fd
      /\ Slot(info) = [fd |-> fd, task |-> task]
  BY <1>1, <1>2 DEF Slot, Infos
<1>5. Child(child) /\ child.q = task
  BY DEF Child, ChildFields, WRITES
<1>6. infos \in Seq(Infos) /\ DOMAIN infos = 1 .. n
  BY DEF Queued
<1> HIDE DEF fd, info, child
<1>7. /\ infos' \in Seq(Infos) /\ Len(infos') = n + 1
      /\ \A i \in 1 .. n : infos'[i] = infos[i]
      /\ infos'[n + 1] = info
  BY <1>3, <1>4, <1>6, AppendProperties
<1>8. /\ DOMAIN infos' = DOMAIN infos \cup {n + 1} /\ n + 1 \notin DOMAIN infos
      /\ \A i \in DOMAIN infos : infos'[i] = infos[i] /\ i < n + 1
  BY <1>2, <1>6, <1>7
<1>9. \A i \in DOMAIN infos : infos[i].fd # fd /\ infos[i].task <= asks /\ infos[i].task \in Nat
  <2>1. \A i \in DOMAIN infos : infos[i].fd # fd
    BY <1>1 DEF Parented
  <2>2. \A i \in DOMAIN infos : infos[i] \in Infos
    BY <1>6, InfoIs
  <2> QED  BY <2>1, <2>2 DEF Queued, Positive, Infos
<1>10. Queued(infos, asks)'
  <2>1. \A i \in DOMAIN infos' : infos'[i].task <= asks + 1
    BY <1>2, <1>4, <1>7, <1>8, <1>9
  <2>2. \A i, j \in DOMAIN infos' : i < j => infos'[i].task < infos'[j].task
    <3> SUFFICES ASSUME NEW i \in DOMAIN infos', NEW j \in DOMAIN infos', i < j
                 PROVE  infos'[i].task < infos'[j].task
      OBVIOUS
    <3>1. i \in DOMAIN infos
      BY <1>2, <1>6, <1>8
    <3>2. CASE j \in DOMAIN infos
      BY <1>8, <3>1, <3>2 DEF Queued
    <3>3. CASE j = n + 1
      BY <1>2, <1>4, <1>7, <1>8, <1>9, <3>1, <3>3
    <3> QED  BY <1>8, <3>2, <3>3
  <2>3. \A i, j \in DOMAIN infos' : infos'[i].fd = infos'[j].fd => i = j
    BY <1>4, <1>7, <1>8, <1>9 DEF Queued
  <2>4. asks' \in Nat /\ Len(infos') <= asks'
    BY <1>2, <1>3, <1>7
  <2> QED  BY <1>3, <1>7, <2>1, <2>2, <2>3, <2>4 DEF Queued
<1>11. Parented(children, infos)'
  <2>1. DOMAIN children' = DOMAIN children \cup {fd} /\ children'[fd] = child
        /\ \A x \in DOMAIN children : children'[x] = children[x]
    BY <1>1, <1>3 DEF added
  <2>2. DOMAIN children' = {infos'[i].fd : i \in DOMAIN infos'}
    <3>1. {infos'[i].fd : i \in DOMAIN infos'} = {infos[i].fd : i \in DOMAIN infos} \cup {fd}
      BY <1>4, <1>7, <1>8
    <3> QED  BY <2>1, <3>1 DEF Parented
  <2>3. \A i \in DOMAIN infos : infos[i].fd \in DOMAIN children /\ children[infos[i].fd].q = infos[i].task
    BY DEF Parented
  <2>4. \A i \in DOMAIN infos' : children'[infos'[i].fd].q = infos'[i].task
    <3> SUFFICES ASSUME NEW i \in DOMAIN infos' PROVE children'[infos'[i].fd].q = infos'[i].task
      OBVIOUS
    <3>1. CASE i \in DOMAIN infos
      BY <1>8, <2>1, <2>3, <3>1
    <3>2. CASE i = n + 1
      BY <1>4, <1>5, <1>7, <2>1, <3>2
    <3> QED  BY <1>8, <3>1, <3>2
  <2>5. \A x \in DOMAIN children' : Child(children'[x])
    BY <1>5, <2>1 DEF Parented
  <2> QED  BY <2>2, <2>4, <2>5 DEF Parented
<1>12. Registered(reg_fds, infos)' /\ DOMAIN reg_fds \subseteq DOMAIN reg_fds'
  <2>1. PICK k \in DOMAIN reg_fds' :
          /\ reg_fds'[k] = Slot(info)
          /\ \A l \in DOMAIN reg_fds' : l = k \/ (l \in DOMAIN reg_fds /\ reg_fds'[l] = reg_fds[l])
          /\ k \in DOMAIN reg_fds => reg_fds[k] = FREE_FD
    BY <1>1, <1>2, <1>3, <1>4, RegisterIs DEF Registered, Placed
  <2>2. reg_fds' \in Seq([task : Nat, fd : Nat]) /\ DOMAIN reg_fds \subseteq DOMAIN reg_fds'
    BY <1>1, <1>2, <1>3, RegisterIs DEF Registered, Placed
  <2>3. \A i \in DOMAIN infos : Slot(infos[i]) # Slot(info) /\ Slot(infos[i]) # FREE_FD
    <3> SUFFICES ASSUME NEW i \in DOMAIN infos PROVE Slot(infos[i]) # Slot(info) /\ Slot(infos[i]) # FREE_FD
      OBVIOUS
    <3>1. Slot(infos[i]).fd = infos[i].fd /\ Slot(info).fd = fd /\ FREE_FD.fd = 0
      BY <1>4 DEF Slot, FREE_FD
    <3>2. infos[i] \in Infos
      BY <1>6, InfoIs
    <3> QED  BY <1>9, <3>1, <3>2 DEF Positive, Infos
  <2>4. \A l \in DOMAIN reg_fds' : reg_fds'[l] = FREE_FD \/ \E i \in DOMAIN infos' : reg_fds'[l] = Slot(infos'[i])
    <3> SUFFICES ASSUME NEW l \in DOMAIN reg_fds', l # k
                 PROVE  reg_fds'[l] = FREE_FD \/ \E i \in DOMAIN infos' : reg_fds'[l] = Slot(infos'[i])
      BY <1>7, <1>8, <2>1
    <3>1. reg_fds'[l] = reg_fds[l] /\ l \in DOMAIN reg_fds
      BY <2>1
    <3> QED  BY <1>8, <3>1 DEF Registered
  <2>5. \A i \in DOMAIN infos' : \E l \in DOMAIN reg_fds' : reg_fds'[l] = Slot(infos'[i])
    <3> SUFFICES ASSUME NEW i \in DOMAIN infos'
                 PROVE  \E l \in DOMAIN reg_fds' : reg_fds'[l] = Slot(infos'[i])
      OBVIOUS
    <3>1. CASE i = n + 1
      BY <1>7, <2>1, <3>1
    <3>2. CASE i \in DOMAIN infos
      <4>1. PICK l \in DOMAIN reg_fds : reg_fds[l] = Slot(infos[i])
        BY <3>2 DEF Registered
      <4>2. l # k
        BY <2>1, <2>3, <3>2, <4>1
      <4> QED  BY <1>8, <2>1, <2>2, <3>2, <4>1, <4>2
    <3> QED  BY <1>8, <3>1, <3>2
  <2>6. \A l, m \in DOMAIN reg_fds' : reg_fds'[l] = reg_fds'[m] => reg_fds'[l] = FREE_FD \/ l = m
    <3>1. \A l \in DOMAIN reg_fds' : l # k => reg_fds'[l] # Slot(info)
      <4> SUFFICES ASSUME NEW l \in DOMAIN reg_fds', l # k PROVE reg_fds'[l] # Slot(info)
        OBVIOUS
      <4>1. reg_fds'[l] = reg_fds[l] /\ l \in DOMAIN reg_fds
        BY <2>1
      <4>2. Slot(info).fd # 0 /\ FREE_FD.fd = 0
        BY <1>1, <1>4 DEF FREE_FD, Positive
      <4> QED  BY <2>3, <4>1, <4>2 DEF Registered
    <3> QED  BY <2>1, <3>1 DEF Registered
  <2> QED  BY <2>2, <2>4, <2>5, <2>6 DEF Registered
<1>13. (async_name_lookup_len = Len(infos))'
  BY <1>3, <1>7
<1> QED  BY <1>3, <1>10, <1>11, <1>12, <1>13

\* A sequence without its k-th element.
LEMMA RemovedIs ==
  ASSUME NEW S, NEW s \in Seq(S), NEW k \in 1 .. Len(s)
  PROVE  /\ RemoveAt(s, k) \in Seq(S) /\ Len(RemoveAt(s, k)) = Len(s) - 1
         /\ \A i \in 1 .. Len(s) - 1 : RemoveAt(s, k)[i] = IF i < k THEN s[i] ELSE s[i + 1]
<1> DEFINE a == SubSeq(s, 1, k - 1)
           b == SubSeq(s, k + 1, Len(s))
<1>1. Len(s) \in Nat /\ k \in Nat /\ k >= 1 /\ k <= Len(s)
  OBVIOUS
<1>2. /\ a \in Seq(S) /\ Len(a) = k - 1
      /\ \A i \in 1 .. k - 1 : a[i] = s[i]
  BY <1>1
<1>3. /\ b \in Seq(S) /\ Len(b) = Len(s) - k
      /\ \A i \in 1 .. Len(s) - k : b[i] = s[k + i]
  <2>1. CASE k = Len(s)
    <3>1. b = <<>>
      BY <1>1, <2>1
    <3> QED  BY <1>1, <2>1, <3>1
  <2>2. CASE k < Len(s)
    BY <1>1, <2>2
  <2> QED  BY <1>1, <2>1, <2>2
<1>4. RemoveAt(s, k) = a \o b
  BY DEF RemoveAt
<1> HIDE DEF a, b
<1>5. /\ a \o b \in Seq(S) /\ Len(a \o b) = Len(a) + Len(b)
      /\ \A i \in 1 .. Len(a) + Len(b) :
           (a \o b)[i] = IF i <= Len(a) THEN a[i] ELSE b[i - Len(a)]
  BY <1>2, <1>3, ConcatProperties
<1>6. ASSUME NEW i \in 1 .. Len(s) - 1
      PROVE  (a \o b)[i] = IF i < k THEN s[i] ELSE s[i + 1]
  <2>1. CASE i < k
    BY <1>1, <1>2, <1>3, <1>5, <2>1
  <2>2. CASE ~ (i < k)
    <3>1. i - (k - 1) \in 1 .. Len(s) - k /\ k + (i - (k - 1)) = i + 1
      BY <1>1, <2>2
    <3>2. (a \o b)[i] = b[i - (k - 1)]
      BY <1>1, <1>2, <1>3, <1>5, <2>2
    <3>3. b[i - (k - 1)] = s[k + (i - (k - 1))]
      BY <1>3, <3>1
    <3> QED  BY <2>2, <3>1, <3>2, <3>3
  <2> QED  BY <2>1, <2>2
<1> QED  BY <1>1, <1>2, <1>3, <1>4, <1>5, <1>6

LEMMA FreedIs ==
  ASSUME NEW U, NEW s \in Seq(U), NEW x \in U, NEW P
  PROVE  [i \in DOMAIN s |-> IF i \in P THEN x ELSE s[i]] \in Seq(U)
  OBVIOUS

\* A task is resumed or killed: its child and its slot go with it.
LEMMA DequeueKeeps ==
  ASSUME Queued(infos, asks), Registered(reg_fds, infos), Parented(children, infos),
         async_name_lookup_len = Len(infos),
         NEW p \in DOMAIN infos, dequeue_lookup_task(infos[p].task), asks' = asks
  PROVE  /\ Queued(infos, asks)' /\ Registered(reg_fds, infos)' /\ Parented(children, infos)'
         /\ (async_name_lookup_len = Len(infos))'
         /\ DOMAIN reg_fds' = DOMAIN reg_fds
<1> DEFINE task == infos[p].task
           k == SelectInSeq(infos, LAMBDA i : i.task = task)
           fd == infos[k].fd
           n == Len(infos)
           at(i) == IF i < k THEN i ELSE i + 1
<1>1. infos \in Seq(Infos) /\ n \in Nat /\ DOMAIN infos = 1 .. n /\ asks \in Nat /\ n <= asks
  BY DEF Queued
<1>2. k \in 1 .. n /\ infos[k].task = task
  <2> DEFINE I == {i \in 1 .. n : infos[i].task = task}
  <2>1. I \in SUBSET Nat /\ I # {}
    BY <1>1
  <2>2. \E x \in I : \A y \in I : x <= y
    BY ONLY <2>1, Least
  <2>3. Min(I) \in I
    BY <2>2 DEF Min
  <2>4. k = Min(I)
    BY <2>1 DEF SelectInSeq
  <2> QED  BY <2>3, <2>4
<1>3. /\ reg_fds' = network_unregister_fd(fd)
      /\ children' = Restrict(children, DOMAIN children \ {fd})
      /\ infos' = RemoveAt(infos, k)
      /\ async_name_lookup_len' = async_name_lookup_len - 1
  BY DEF dequeue_lookup_task
<1> HIDE DEF k
<1>4. /\ infos' \in Seq(Infos) /\ Len(infos') = n - 1
      /\ \A i \in 1 .. n - 1 : infos'[i] = infos[at(i)]
  <2>1. /\ RemoveAt(infos, k) \in Seq(Infos) /\ Len(RemoveAt(infos, k)) = n - 1
        /\ \A i \in 1 .. n - 1 : RemoveAt(infos, k)[i] = IF i < k THEN infos[i] ELSE infos[i + 1]
    BY ONLY <1>1, <1>2, RemovedIs
  <2> QED  BY <1>3, <2>1
<1>5. /\ DOMAIN infos' = 1 .. n - 1
      /\ \A i \in 1 .. n - 1 : at(i) \in 1 .. n /\ at(i) # k
      /\ \A i, j \in 1 .. n - 1 : i < j => at(i) < at(j)
      /\ \A i, j \in 1 .. n - 1 : at(i) = at(j) => i = j
      /\ \A i \in 1 .. n : i # k => \E j \in 1 .. n - 1 : at(j) = i
  <2>1. DOMAIN infos' = 1 .. n - 1
    BY <1>1, <1>4
  <2>2. /\ \A i \in 1 .. n - 1 : at(i) \in 1 .. n /\ at(i) # k
        /\ \A i, j \in 1 .. n - 1 : i < j => at(i) < at(j)
        /\ \A i, j \in 1 .. n - 1 : at(i) = at(j) => i = j
    BY <1>1, <1>2
  <2>3. ASSUME NEW i \in 1 .. n, i # k PROVE \E j \in 1 .. n - 1 : at(j) = i
    <3>1. CASE i < k
      <4>1. i \in 1 .. n - 1 /\ at(i) = i
        BY <1>1, <1>2, <3>1
      <4> QED  BY <4>1
    <3>2. CASE i > k
      <4>1. i - 1 \in 1 .. n - 1 /\ at(i - 1) = i
        BY <1>1, <1>2, <3>2
      <4> QED  BY <4>1
    <3> QED  BY <1>1, <1>2, <2>3, <3>1, <3>2
  <2> QED  BY <2>1, <2>2, <2>3
<1> HIDE DEF at, fd, n
<1>6. /\ \A i \in DOMAIN infos' : /\ at(i) \in DOMAIN infos /\ at(i) # k
                                  /\ infos'[i] = infos[at(i)]
      /\ \A i \in DOMAIN infos : i # k => \E j \in DOMAIN infos' : infos'[j] = infos[i]
  BY <1>1, <1>4, <1>5
<1>7. k \in DOMAIN infos /\ infos[k].fd = fd /\ \A i \in DOMAIN infos : i # k => infos[i].fd # fd
  BY <1>1, <1>2 DEF Queued, fd
<1>8. Queued(infos, asks)'
  <2>1. \A i \in DOMAIN infos' : infos'[i].task <= asks
    BY <1>6 DEF Queued
  <2>2. \A i, j \in DOMAIN infos' : i < j => infos'[i].task < infos'[j].task
    <3> SUFFICES ASSUME NEW i \in DOMAIN infos', NEW j \in DOMAIN infos', i < j
                 PROVE  infos'[i].task < infos'[j].task
      OBVIOUS
    <3>1. at(i) < at(j)
      BY <1>5
    <3>2. /\ at(i) \in DOMAIN infos /\ at(j) \in DOMAIN infos
          /\ infos'[i] = infos[at(i)] /\ infos'[j] = infos[at(j)]
      BY <1>6
    <3>3. infos[at(i)].task < infos[at(j)].task
      BY <3>1, <3>2 DEF Queued
    <3> QED  BY <3>2, <3>3
  <2>3. \A i, j \in DOMAIN infos' : infos'[i].fd = infos'[j].fd => i = j
    <3> SUFFICES ASSUME NEW i \in DOMAIN infos', NEW j \in DOMAIN infos',
                        infos'[i].fd = infos'[j].fd
                 PROVE  i = j
      OBVIOUS
    <3>1. infos[at(i)].fd = infos[at(j)].fd /\ at(i) \in DOMAIN infos /\ at(j) \in DOMAIN infos
      BY <1>6
    <3>2. at(i) = at(j)
      BY <3>1 DEF Queued
    <3> QED  BY <1>5, <3>2
  <2>4. Len(infos') <= asks
    BY <1>1, <1>4
  <2> QED  BY <1>1, <1>4, <2>1, <2>2, <2>3, <2>4 DEF Queued
<1>9. Parented(children, infos)'
  <2>1. /\ DOMAIN children' = DOMAIN children \ {fd}
        /\ \A x \in DOMAIN children' : children'[x] = children[x]
    BY <1>3 DEF Restrict
  <2>2. DOMAIN children' = {infos'[i].fd : i \in DOMAIN infos'}
    <3>1. {infos'[i].fd : i \in DOMAIN infos'} = {infos[i].fd : i \in DOMAIN infos} \ {fd}
      BY <1>6, <1>7
    <3> QED  BY <2>1, <3>1 DEF Parented
  <2>3. \A i \in DOMAIN infos' : children'[infos'[i].fd].q = infos'[i].task
    <3> SUFFICES ASSUME NEW i \in DOMAIN infos' PROVE children'[infos'[i].fd].q = infos'[i].task
      OBVIOUS
    <3>1. infos'[i].fd \in DOMAIN children' /\ infos'[i] = infos[at(i)] /\ at(i) \in DOMAIN infos
      BY <1>6, <2>2
    <3> QED  BY <2>1, <3>1 DEF Parented
  <2>4. \A x \in DOMAIN children' : Child(children'[x])
    BY <2>1 DEF Parented
  <2> QED  BY <2>2, <2>3, <2>4 DEF Parented
<1>10. Registered(reg_fds, infos)' /\ DOMAIN reg_fds' = DOMAIN reg_fds
  <2>1. reg_fds' = [i \in DOMAIN reg_fds |-> IF reg_fds[i].fd = fd THEN FREE_FD ELSE reg_fds[i]]
    BY <1>3 DEF network_unregister_fd
  <2>2. /\ reg_fds' \in Seq([task : Nat, fd : Nat]) /\ DOMAIN reg_fds' = DOMAIN reg_fds
    <3>1. FREE_FD \in [task : Nat, fd : Nat]
      BY DEF FREE_FD
    <3>2. reg_fds \in Seq([task : Nat, fd : Nat])
      BY DEF Registered
    <3> DEFINE U == [task : Nat, fd : Nat]
               P == {i \in DOMAIN reg_fds : reg_fds[i].fd = fd}
    <3>3. FREE_FD \in U /\ reg_fds \in Seq(U)
      BY <3>1, <3>2
    <3>4. reg_fds' = [i \in DOMAIN reg_fds |-> IF i \in P THEN FREE_FD ELSE reg_fds[i]]
      BY <2>1
    <3> HIDE DEF U, P
    <3>5. reg_fds' \in Seq(U)
      BY <3>3, <3>4, FreedIs
    <3> QED  BY <3>4, <3>5 DEF U
  <2>3. \A l \in DOMAIN reg_fds :
          /\ reg_fds[l].fd = fd => reg_fds'[l] = FREE_FD
          /\ reg_fds[l].fd # fd => reg_fds'[l] = reg_fds[l]
    BY <2>1
  <2>4. /\ \A i \in DOMAIN infos : Slot(infos[i]).fd = infos[i].fd
        /\ \A i \in DOMAIN infos' : Slot(infos'[i]).fd = infos'[i].fd
    BY DEF Slot
  <2>5. \A l \in DOMAIN reg_fds' : reg_fds'[l] = FREE_FD \/ \E i \in DOMAIN infos' : reg_fds'[l] = Slot(infos'[i])
    <3> SUFFICES ASSUME NEW l \in DOMAIN reg_fds, reg_fds'[l] # FREE_FD
                 PROVE  \E i \in DOMAIN infos' : reg_fds'[l] = Slot(infos'[i])
      BY <2>2
    <3>1. reg_fds[l].fd # fd /\ reg_fds'[l] = reg_fds[l]
      BY <2>3
    <3>2. PICK i \in DOMAIN infos : reg_fds[l] = Slot(infos[i])
      BY <3>1 DEF Registered
    <3>3. i # k
      BY <1>7, <2>4, <3>1, <3>2
    <3> QED  BY <1>6, <3>1, <3>2, <3>3
  <2>6. \A i \in DOMAIN infos' : \E l \in DOMAIN reg_fds' : reg_fds'[l] = Slot(infos'[i])
    <3> SUFFICES ASSUME NEW i \in DOMAIN infos'
                 PROVE  \E l \in DOMAIN reg_fds' : reg_fds'[l] = Slot(infos'[i])
      OBVIOUS
    <3>1. at(i) \in DOMAIN infos /\ at(i) # k /\ infos'[i] = infos[at(i)]
      BY <1>6
    <3>2. PICK l \in DOMAIN reg_fds : reg_fds[l] = Slot(infos[at(i)])
      BY <3>1 DEF Registered
    <3>3. reg_fds[l].fd # fd
      BY <1>7, <2>4, <3>1, <3>2
    <3> QED  BY <2>2, <2>3, <3>1, <3>2, <3>3
  <2>7. \A l, m \in DOMAIN reg_fds' : reg_fds'[l] = reg_fds'[m] => reg_fds'[l] = FREE_FD \/ l = m
    BY <2>2, <2>3 DEF Registered
  <2> QED  BY <2>2, <2>5, <2>6, <2>7 DEF Registered
<1>11. (async_name_lookup_len = Len(infos))'
  BY <1>1, <1>3, <1>4
<1> QED  BY <1>8, <1>9, <1>10, <1>11

\* A child goes on, exits or times out.
LEMMA ChildKeeps ==
  ASSUME Parented(children, infos), NEW fd \in DOMAIN children, child_step(fd)
  PROVE  Parented(children', infos)
<1> DEFINE c == children[fd]
           d == children'[fd]
<1>1. Child(c) /\ DOMAIN c = ChildFields
  BY DEF Parented, Child
<1>2. /\ DOMAIN children' = DOMAIN children
      /\ \A x \in DOMAIN children : x # fd => children'[x] = children[x]
  BY DEF child_step
<1>3. Child(d) /\ d.q = c.q
  <2>1. ASSUME NEW at \in {"write", "failed"}, c.at = "resolve",
               children' = [children EXCEPT ![fd].at = at]
        PROVE  Child(d) /\ d.q = c.q
    <3>1. DOMAIN d = ChildFields /\ d.at = at /\ d.out = c.out /\ d.q = c.q
      BY <1>1, <2>1 DEF ChildFields
    <3>2. c.out = 0
      BY <1>1, <2>1 DEF Child
    <3> QED  BY <2>1, <3>1, <3>2 DEF Child, WRITES
  <2>2. ASSUME c.at = "write",
               children' = [children EXCEPT ![fd].out = @ + 1,
                              ![fd].at = IF c.out + 1 = WRITES THEN "exit" ELSE "write"]
        PROVE  Child(d) /\ d.q = c.q
    <3>1. /\ DOMAIN d = ChildFields /\ d.out = c.out + 1 /\ d.q = c.q
          /\ d.at = IF c.out + 1 = WRITES THEN "exit" ELSE "write"
      BY <1>1, <2>2 DEF ChildFields
    <3>2. c.out \in 0 .. WRITES - 1
      BY <1>1, <2>2 DEF Child
    <3> QED  BY <3>1, <3>2 DEF Child, WRITES
  <2>3. ASSUME alarm_set(c), children' = [children EXCEPT ![fd].at = "exit"]
        PROVE  Child(d) /\ d.q = c.q
    <3>1. DOMAIN d = ChildFields /\ d.at = "exit" /\ d.out = c.out /\ d.q = c.q
      BY <1>1, <2>3 DEF ChildFields
    <3>2. c.out = 0
      BY <1>1, <2>3 DEF Child, alarm_set
    <3> QED  BY <3>1, <3>2 DEF Child, WRITES
  <2> QED  BY <2>1, <2>2, <2>3 DEF child_step
<1>4. \A x \in DOMAIN children' : Child(children'[x]) /\ children'[x].q = children[x].q
  BY <1>2, <1>3 DEF Parented
<1> QED  BY <1>2, <1>4 DEF Parented

\* What is left of the round over the registered descriptors.
Todo(p) == p.at = "check" => p.todo \in Seq(DOMAIN reg_fds)

LEMMA TodoIs ==
  ASSUME DOMAIN pc = DOMAIN Loop("top"), Registered(reg_fds, infos)
  PROVE  /\ \A i, D : Todo(Polled(i, D)) /\ Todo(Swept(i, D))
         /\ \A at : at # "check" => Todo(Loop(at))
         /\ Todo([Loop("wait") EXCEPT !.cp = TRUE])
         /\ Todo([pc EXCEPT !.at = "write"])
         /\ pc.at # "check" => \A t : Todo([pc EXCEPT !.todo = t])
<1>1. DOMAIN reg_fds = 1 .. Len(reg_fds) /\ Len(reg_fds) \in Nat
  BY DEF Registered
<1>2. ASSUME NEW i, NEW D PROVE Todo(Polled(i, D))
  <2>1. CASE i # 0
    <3>1. Polled(i, D).at = "read"
      BY <2>1 DEF Polled, Visit, Loop
    <3> QED  BY <3>1 DEF Todo
  <2>2. CASE i = 0
    <3>1. Polled(i, D).todo = [x \in DOMAIN reg_fds |-> x]
      BY <2>2 DEF Polled, Loop
    <3>2. [x \in 1 .. Len(reg_fds) |-> x] \in Seq(1 .. Len(reg_fds))
      BY <1>1
    <3> QED  BY <1>1, <3>1, <3>2 DEF Todo
  <2> QED  BY <2>1, <2>2
<1>3. ASSUME NEW i, NEW D PROVE Todo(Swept(i, D))
  <2>1. Swept(i, D).at # "check"
    BY DEF Swept, Visit, Loop
  <2> QED  BY <2>1 DEF Todo
<1>4. \A at : at # "check" => Todo(Loop(at))
  BY DEF Todo, Loop
<1>5. Todo([Loop("wait") EXCEPT !.cp = TRUE]) /\ Todo([pc EXCEPT !.at = "write"])
  BY DEF Todo, Loop
<1>6. pc.at # "check" => \A t : Todo([pc EXCEPT !.todo = t])
  BY DEF Todo, Loop
<1> QED  BY <1>2, <1>3, <1>4, <1>5, <1>6

\* The round over the descriptors begins with every slot there is, and no
\* other step touches what is left of it.
LEMMA TodoKeeps ==
  ASSUME IInv, AInv, MainLoop \/ BuiltIn
  PROVE  Todo(pc')
<1>1. DOMAIN pc = DOMAIN Loop("top") /\ Registered(reg_fds, infos) /\ Todo(pc)
  BY DEF IInv, AInv, Looking, Todo
<1>2. CASE BuiltIn
  <2>1. pc' = pc
    BY <1>2 DEF BuiltIn, boot_player, notify, set_connection_binary, force_input,
       open_network_connection, listen, unlisten, recycle, Calls, MayCall
  <2> QED  BY <1>1, <2>1
<1>3. CASE notify_saved \/ checkpoint_started \/ db_flush \/ accept_new_connection
             \/ accept_nothing \/ read_nothing \/ read_fails \/ write_nothing
  <2>1. CASE notify_saved
    BY <1>1, <2>1, TodoIs DEF notify_saved
  <2>2. CASE checkpoint_started \/ db_flush
    BY <1>1, <2>2, TodoIs DEF checkpoint_started, db_flush
  <2>3. CASE accept_new_connection \/ accept_nothing
    <3>1. /\ pc.at = "accept"
          /\ pc' = [pc EXCEPT !.todo = Tail(pc.todo)] \/ pc' = Polled(first(DOMAIN nh), DOMAIN nh)
      BY <2>3 DEF accept_new_connection, accept_nothing
    <3>2. pc.at # "check"
      BY <3>1
    <3> QED  BY <1>1, <3>1, <3>2, TodoIs
  <2>4. CASE read_nothing \/ read_fails \/ write_nothing
    BY <1>1, <2>4, TodoIs DEF read_nothing, read_fails, write_nothing, server_close
  <2> QED  BY <1>3, <2>1, <2>2, <2>3, <2>4
<1>4. ASSUME write_some \/ \E chunk \in focus.chunks, idle \in BOOLEAN : read_chunk(chunk, idle)
      PROVE  Todo(pc')
  <2>1. pc' = pc \/ pc' = [pc EXCEPT !.at = "write"] \/ pc' = Polled(pc.next, DOMAIN nh)
    BY <1>4 DEF write_some, read_chunk, server_close
  <2> QED  BY <1>1, <2>1, TodoIs
<1>5. ASSUME (\E i \in DOMAIN tq : run_command(i)) \/ run_in_background \/ run_nothing
             \/ free_tqueues \/ sweep_notified \/ sweep_recycled \/ sweep_kept
      PROVE  Todo(pc')
  <2>1. CASE (\E i \in DOMAIN tq : run_command(i)) \/ run_in_background \/ run_nothing
    <3>1. pc' = Loop("free")
      BY <2>1 DEF run_command, run_in_background, run_nothing
    <3> QED  BY <1>1, <3>1, TodoIs
  <2>2. CASE free_tqueues \/ sweep_notified \/ sweep_recycled \/ sweep_kept
    <3>1. pc' = pc \/ \E i, D : pc' = Swept(i, D)
      BY <2>2 DEF free_tqueues, sweep_notified, sweep_recycled, sweep_kept
    <3> QED  BY <1>1, <3>1, TodoIs
  <2> QED  BY <1>5, <2>1, <2>2
<1>6. ASSUME returned \/ unidled \/ closed \/ dropped \/ redirected
             \/ \E u \in Users : player_connected(u)
      PROVE  Todo(pc')
  <2>1. \/ pc' = pc
        \/ \E i, D : pc' = Polled(i, D) \/ pc' = Swept(i, D)
    BY <1>6 DEF returned, unidled, closed, dropped, redirected, player_connected
  <2> QED  BY <1>1, <2>1, TodoIs
<1> QED  BY <1>2, <1>3, <1>4, <1>5, <1>6 DEF MainLoop

\* What leaves the lookups alone keeps what is said of them.
LEMMA LookupsStay ==
  ASSUME AInv, UNCHANGED <<infos, async_name_lookup_len, reg_fds, children, resumed, panicked>>,
         asks' \in Nat, asks' >= asks, 0 \notin readable', Todo(pc')
  PROVE  AInv'
<1>1. Queued(infos, asks')
  <2>1. Queued(infos, asks)
    BY DEF AInv
  <2>2. \A i \in DOMAIN infos : infos[i].task \in Nat
    <3>1. \A i \in DOMAIN infos : infos[i] \in Infos
      BY <2>1, InfoIs DEF Queued
    <3> QED  BY <3>1 DEF Infos, Positive
  <2>3. Len(infos) \in Nat
    BY <2>1 DEF Queued
  <2> QED  BY <2>1, <2>2, <2>3 DEF Queued
<1> QED  BY <1>1 DEF AInv, Registered, Parented, Todo

LEMMA SyncStays ==
  ASSUME Sync, UNCHANGED sync, asks' \in Nat
  PROVE  Sync'
  BY DEF Sync, SyncInv, sync

\* A registered descriptor is looked at.
LEMMA CheckKeeps ==
  ASSUME IInv, Sync, AInv, check_registered_fds
  PROVE  Sync' /\ AInv'
<1>1. /\ DOMAIN pc = DOMAIN Loop("top") /\ pc.at = "check" /\ pc.todo \in Seq(DOMAIN reg_fds)
      /\ asks \in Nat /\ 0 \notin readable
      /\ Queued(infos, asks) /\ Registered(reg_fds, infos) /\ Parented(children, infos)
      /\ async_name_lookup_len = Len(infos)
  BY DEF IInv, AInv, Looking, check_registered_fds, Sync, SyncInv
<1>2. ASSUME UNCHANGED lookups PROVE Sync' /\ AInv'
  <2>1. UNCHANGED sync /\ asks' = asks /\ UNCHANGED <<infos, async_name_lookup_len, reg_fds, children, resumed, panicked, readable>>
    BY <1>2 DEF lookups, async
  <2>2. Todo(pc')
    <3>1. CASE pc.todo = <<>>
      <4>1. pc' = Loop("dump") \/ pc' = Loop("tasks")
        BY <3>1 DEF check_registered_fds
      <4> QED  BY <1>1, <4>1, TodoIs
    <3>2. CASE pc.todo # <<>>
      <4>1. pc'.todo = Tail(pc.todo)
        BY <1>1, <3>2 DEF check_registered_fds, Loop
      <4>2. Tail(pc.todo) \in Seq(DOMAIN reg_fds)
        <5> DEFINE D == DOMAIN reg_fds
        <5>1. pc.todo \in Seq(D) /\ pc.todo # <<>>
          BY <1>1, <3>2
        <5> HIDE DEF D
        <5>2. Tail(pc.todo) \in Seq(D)
          BY ONLY <5>1, HeadTailProperties
        <5> QED  BY <5>2 DEF D
      <4> QED  BY <4>1, <4>2 DEF Todo
    <3> QED  BY <3>1, <3>2
  <2> QED  BY <1>1, <2>1, <2>2, LookupsStay, SyncStays
<1>3. ASSUME pc.todo # <<>>, reg_fds[Head(pc.todo)].fd \in readable,
             async_name_lookup_readable(reg_fds[Head(pc.todo)])
      PROVE  Sync' /\ AInv'
  <2> DEFINE k == Head(pc.todo)
             reg == reg_fds[k]
             c == children[reg.fd]
  <2>1. k \in DOMAIN reg_fds /\ Tail(pc.todo) \in Seq(DOMAIN reg_fds)
    <3> DEFINE D == DOMAIN reg_fds
    <3>1. pc.todo \in Seq(D) /\ pc.todo # <<>>
      BY <1>1, <1>3
    <3> HIDE DEF D
    <3>2. Head(pc.todo) \in D /\ Tail(pc.todo) \in Seq(D)
      BY ONLY <3>1, HeadTailProperties
    <3> QED  BY <3>2 DEF D
  <2>2. reg # FREE_FD
    BY <1>1, <1>3 DEF FREE_FD
  <2>3. PICK p \in DOMAIN infos : reg = Slot(infos[p])
    BY <1>1, <2>1, <2>2 DEF Registered
  <2>4. reg.fd = infos[p].fd /\ reg.task = infos[p].task
    BY <2>3 DEF Slot
  <2>5. Child(c) /\ c.q = reg.task
    BY <1>1, <2>4 DEF Parented
  <2>6. /\ c.at \in {"failed", "exit"}
        /\ panicked' = (c.at = "exit" /\ c.out \in 2 .. WRITES - 1)
        /\ resumed' = [task |-> reg.task, answer |-> IF c.out = WRITES THEN c.q ELSE 0]
        /\ dequeue_lookup_task(infos[p].task)
        /\ UNCHANGED <<sync, readable, asks>>
    BY <1>3, <2>4 DEF async_name_lookup_readable
  <2>7. c.out \in {0, WRITES}
    BY <2>5, <2>6 DEF Child
  <2>8. panicked' = FALSE
    <3>1. ~ (c.out \in 2 .. WRITES - 1)
      BY <2>7 DEF WRITES
    <3> QED  BY <2>6, <3>1
  <2>9. resumed'.answer \in {0, resumed'.task}
    BY <2>5, <2>6
  <2>10. /\ Queued(infos, asks)' /\ Registered(reg_fds, infos)' /\ Parented(children, infos)'
         /\ (async_name_lookup_len = Len(infos))' /\ DOMAIN reg_fds' = DOMAIN reg_fds
    BY <1>1, <2>6, DequeueKeeps
  <2>11. pc'.todo \in Seq(DOMAIN reg_fds')
    <3>1. pc'.todo = Tail(pc.todo)
      BY <1>1, <1>3 DEF check_registered_fds, Loop
    <3> QED  BY <2>1, <2>10, <3>1
  <2>12. AInv'
    BY <1>1, <2>6, <2>8, <2>9, <2>10, <2>11 DEF AInv
  <2> QED  BY <1>1, <2>6, <2>12, SyncStays
<1> QED  BY <1>2, <1>3 DEF check_registered_fds

LEMMA LookupsInit == Init => Sync /\ AInv
<1> SUFFICES ASSUME Init PROVE Sync /\ AInv
  OBVIOUS
<1> DEFINE up == focus.asks > 0
<1>1. LookupInit(up)
  BY DEF Init
<1>2. /\ asked = NoQuestion /\ dead_intermediary = ~ up /\ pipes = NoLookups
      /\ middle = IF up THEN intermediary ELSE Dead
      /\ looker = IF up THEN Reading ELSE Dead
      /\ asks = 0
  BY <1>1 DEF LookupInit, Start
<1>3. Quiet(middle, looker, pipes)
  BY <1>2 DEF Quiet, Unasked, Still, NoLookups, intermediary, Dead
<1>4. Sync
  BY <1>2, <1>3 DEF Sync, SyncInv, NoQuestion, Dead
<1>5. AInv
  BY <1>1 DEF Init, LookupInit, Loop, AInv, Queued, Registered, Parented
<1> QED  BY <1>4, <1>5

LEMMA LookupsRestart == Restart => Sync' /\ AInv'
<1> SUFFICES ASSUME Restart PROVE Sync' /\ AInv'
  OBVIOUS
<1> DEFINE up == focus.asks > 0
<1>1. LookupRestart(up)
  BY DEF Restart
<1>2. /\ asked' = NoQuestion /\ dead_intermediary' = ~ up /\ pipes' = NoLookups
      /\ middle' = IF up THEN intermediary ELSE Dead
      /\ looker' = IF up THEN Reading ELSE Dead
      /\ asks' = 0
  BY <1>1 DEF LookupRestart, Start
<1>3. Quiet(middle', looker', pipes')
  BY <1>2 DEF Quiet, Unasked, Still, NoLookups, intermediary, Dead
<1>4. Sync'
  BY <1>2, <1>3 DEF Sync, SyncInv, NoQuestion, Dead
<1>5. AInv'
  BY <1>1 DEF Restart, LookupRestart, Loop, AInv, Queued, Registered, Parented
<1> QED  BY <1>4, <1>5

\* The server takes the answer and goes on.
LEMMA AnsweredKeeps ==
  ASSUME IInv, Sync, AInv, opened \/ accepted
  PROVE  Sync' /\ AInv'
<1>1. /\ asked.at = "done" /\ asked' = NoQuestion
      /\ UNCHANGED <<dead_intermediary, middle, looker, pipes, async, asks>>
  BY DEF opened, accepted, answered
<1>2. asks \in Nat /\ asks' = asks /\ Todo(pc)
      /\ DOMAIN pc = DOMAIN Loop("top") /\ Registered(reg_fds, infos) /\ 0 \notin readable
  BY <1>1 DEF Sync, SyncInv, AInv, Todo, IInv, Looking
<1>3. Sync'
  BY <1>1, <1>2 DEF Sync, SyncInv, NoQuestion
<1>4. Todo(pc')
  <2>1. CASE opened
    BY <1>2, <2>1 DEF opened
  <2>2. CASE accepted
    <3>1. pc' = [pc EXCEPT !.todo = Tail(pc.todo)] /\ pc.at = "accept"
      BY <2>2 DEF accepted, accept_new_connection
    <3>2. pc.at # "check"
      BY <3>1
    <3> QED  BY <1>2, <3>1, <3>2, TodoIs
  <2> QED  BY <2>1, <2>2
<1>5. AInv'
  BY <1>1, <1>2, <1>4, LookupsStay DEF async
<1> QED  BY <1>3, <1>5

LEMMA LookupsKeep ==
  ASSUME IInv, Sync, AInv, Lookups
  PROVE  Sync' /\ AInv'
<1>1. /\ asks \in Nat /\ asks + 1 \in Nat /\ asks + 1 >= asks /\ Todo(pc) /\ 0 \notin readable
      /\ DOMAIN pc = DOMAIN Loop("top")
      /\ Queued(infos, asks) /\ Registered(reg_fds, infos) /\ Parented(children, infos)
      /\ async_name_lookup_len = Len(infos)
      /\ panicked = FALSE /\ resumed.answer \in {0, resumed.task}
  BY DEF Sync, SyncInv, AInv, Todo, IInv, Looking
<1>2. CASE mplex_wait
  <2>1. /\ readable' \subseteq DOMAIN children
        /\ UNCHANGED <<sync, infos, async_name_lookup_len, reg_fds, children, resumed, panicked, asks>>
    BY <1>2 DEF mplex_wait, find_readable
  <2>2. 0 \notin DOMAIN children
    <3>1. \A i \in DOMAIN infos : infos[i] \in Infos
      BY <1>1, InfoIs DEF Queued
    <3> QED  BY <1>1, <3>1 DEF Parented, Infos, Positive
  <2>3. Todo(pc')
    <3>1. pc'.at = "accept"
      BY <1>2 DEF mplex_wait, Loop
    <3> QED  BY <3>1 DEF Todo
  <2> QED  BY <1>1, <2>1, <2>2, <2>3, LookupsStay, SyncStays
<1>3. CASE check_registered_fds
  BY <1>3, CheckKeeps
<1>4. ASSUME accept_asks \/ \E l \in {NOTHING, SYSTEM_OBJECT, PORT} : open_asks(l)
      PROVE  Sync' /\ AInv'
  <2>1. PICK kind, listener : kind \in {"addr", "name"} /\ ask(kind, listener)
    BY <1>4 DEF accept_asks, open_asks
  <2>2. UNCHANGED async /\ asks' = asks + 1
    BY <2>1 DEF ask
  <2>3. pc' = pc
    BY <1>4 DEF accept_asks, open_asks, server, Calls, MayCall
  <2> QED  BY <1>1, <2>1, <2>2, <2>3, AskKeeps, LookupsStay DEF async
<1>5. CASE name_lookup_call
  <2>1. pc' = pc
    BY <1>5 DEF name_lookup_call, MayCall
  <2>2. CASE spawn_fails
    BY <1>1, <2>1, <2>2, LookupsStay, SyncStays DEF spawn_fails, async
  <2>3. ASSUME NEW timeout \in BOOLEAN, name_lookup(timeout)
        PROVE  Sync' /\ AInv'
    <3>1. asks' = asks + 1 /\ UNCHANGED sync
      BY <2>3 DEF name_lookup
    <3>2. /\ Queued(infos, asks)' /\ Registered(reg_fds, infos)' /\ Parented(children, infos)'
          /\ (async_name_lookup_len = Len(infos))'
          /\ DOMAIN reg_fds \subseteq DOMAIN reg_fds'
          /\ UNCHANGED <<readable, resumed, panicked>>
      BY <1>1, <2>3, SpawnKeeps
    <3>3. pc'.at = "check" => pc'.todo \in Seq(DOMAIN reg_fds')
      BY <1>1, <2>1, <3>2 DEF Todo
    <3> QED  BY <1>1, <3>1, <3>2, <3>3, SyncStays DEF AInv
  <2> QED  BY <1>5, <2>2, <2>3 DEF name_lookup_call
<1>6. ASSUME NEW i \in DOMAIN infos, kill_task(infos[i].task)
      PROVE  Sync' /\ AInv'
  <2>1. /\ pc' = pc /\ asks' = asks /\ dequeue_lookup_task(infos[i].task)
        /\ UNCHANGED <<sync, readable, resumed, panicked>>
    BY <1>6 DEF kill_task, kill_lookup, Calls, MayCall
  <2>2. /\ Queued(infos, asks)' /\ Registered(reg_fds, infos)' /\ Parented(children, infos)'
        /\ (async_name_lookup_len = Len(infos))' /\ DOMAIN reg_fds' = DOMAIN reg_fds
    BY <1>1, <2>1, DequeueKeeps
  <2>3. pc'.at = "check" => pc'.todo \in Seq(DOMAIN reg_fds')
    BY <1>1, <2>1, <2>2 DEF Todo
  <2> QED  BY <1>1, <2>1, <2>2, <2>3, SyncStays DEF AInv
<1> QED  BY <1>2, <1>3, <1>4, <1>5, <1>6 DEF Lookups

\* The other processes.
LEMMA OthersKeep ==
  ASSUME IInv, Sync, AInv, Others
  PROVE  Sync' /\ AInv'
<1>1. /\ asks \in Nat /\ Todo(pc) /\ 0 \notin readable
      /\ Parented(children, infos)
      /\ panicked = FALSE /\ resumed.answer \in {0, resumed.task}
  BY DEF Sync, SyncInv, AInv, Todo
<1>2. pc' = pc
  BY DEF Others, server
<1>3. CASE Processes \/ Killed
  <2>1. UNCHANGED async /\ asks' = asks
    BY <1>3 DEF Processes, Killed
  <2>2. AInv'
    BY <1>1, <1>2, <2>1, LookupsStay DEF async
  <2>3. Sync'
    <3>1. CASE Killed
      BY <2>1, <3>1, KilledKeeps, LookerKeeps DEF Killed
    <3>2. CASE Processes
      BY <2>1, <3>2, AnswerKeeps, ReadsKeeps, RestartsKeeps, GetsKeeps, SendsKeeps,
         LookerKeeps DEF Processes
    <3> QED  BY <1>3, <3>1, <3>2
  <2> QED  BY <2>2, <2>3
<1>4. ASSUME NEW fd \in DOMAIN children, child_step(fd)
      PROVE  Sync' /\ AInv'
  <2>1. UNCHANGED <<sync, infos, async_name_lookup_len, reg_fds, readable, resumed, panicked, asks>>
    BY <1>4 DEF child_step
  <2>2. Parented(children', infos)
    BY <1>1, <1>4, ChildKeeps
  <2>3. AInv'
    BY <1>2, <2>1, <2>2 DEF AInv
  <2> QED  BY <1>1, <2>1, <2>3, SyncStays
<1> QED  BY <1>3, <1>4 DEF Others

LEMMA LookupsStep == IInv /\ Sync /\ AInv /\ [Next]_vars => Sync' /\ AInv'
<1> SUFFICES ASSUME IInv, Sync, AInv, [Next]_vars PROVE Sync' /\ AInv'
  OBVIOUS
<1>1. ASSUME UNCHANGED lookups, Todo(pc') PROVE Sync' /\ AInv'
  <2>1. UNCHANGED sync /\ UNCHANGED async /\ asks' = asks /\ asks \in Nat /\ 0 \notin readable
    BY <1>1 DEF lookups, Sync, SyncInv, AInv
  <2> QED  BY <1>1, <2>1, LookupsStay, SyncStays DEF async
<1>2. CASE Restart
  BY <1>2, LookupsRestart
<1>3. ASSUME (MainLoop \/ BuiltIn) /\ UNCHANGED lookups PROVE Sync' /\ AInv'
  BY <1>1, <1>3, TodoKeeps
<1>4. CASE Lookups
  BY <1>4, LookupsKeep
<1>5. CASE opened \/ accepted
  BY <1>5, AnsweredKeeps
<1>6. CASE Others
  BY <1>6, OthersKeep
<1>7. CASE UNCHANGED vars
  <2>1. UNCHANGED lookups /\ pc' = pc
    BY <1>7 DEF vars, server
  <2>2. Todo(pc')
    BY <2>1 DEF AInv, Todo
  <2> QED  BY <1>1, <2>1, <2>2
<1> QED  BY <1>2, <1>3, <1>4, <1>5, <1>6, <1>7 DEF Next, Server

\* Whoever asks for a name or an address, by either way, gets the answer to his
\* own question or none, though the lookup processes exit in the middle of an
\* answer, are killed and replaced or cannot be (name_lookup.c:268,
\* bg_name_lookup.c:297).
THEOREM AnswersAreTheAsked == Spec => []AnswersAreAsked
<1>1. Sync /\ AInv => AnswersAreAsked
  BY DEF Sync, SyncInv, AInv, AnswersAreAsked
<1> QED  BY <1>1, LookupsInit, LookupsStep, InvariantHolds, PTL DEF Spec

\* The descriptors, the children and the queue of name_lookup() stay those of
\* the same tasks however many are suspended, killed and answered, and no
\* broken answer makes the server panic (bg_name_lookup.c:343, 353).
THEOREM LookupsAreSound == Spec => []LookupsSound
<1>1. AInv => LookupsSound
  <2> SUFFICES ASSUME AInv PROVE LookupsSound
    OBVIOUS
  <2>1. /\ Queued(infos, asks) /\ Registered(reg_fds, infos) /\ Parented(children, infos)
        /\ async_name_lookup_len = Len(infos) /\ panicked = FALSE
    BY DEF AInv
  <2>2. \A i \in DOMAIN infos : Slot(infos[i]) # FREE_FD
    <3> SUFFICES ASSUME NEW i \in DOMAIN infos PROVE Slot(infos[i]) # FREE_FD
      OBVIOUS
    <3>1. infos[i] \in Infos
      BY <2>1, InfoIs DEF Queued
    <3>2. Slot(infos[i]).fd = infos[i].fd /\ FREE_FD.fd = 0
      BY DEF Slot, FREE_FD
    <3> QED  BY <3>1, <3>2 DEF Infos, Positive
  <2>3. {reg_fds[k] : k \in DOMAIN reg_fds} \ {FREE_FD} = {Slot(infos[i]) : i \in DOMAIN infos}
    BY <2>1, <2>2 DEF Registered
  <2>4. {reg_fds[k] : k \in DOMAIN reg_fds} \ {FREE_FD}
          = {[fd |-> infos[i].fd, task |-> infos[i].task] : i \in DOMAIN infos}
    BY <2>3 DEF Slot
  <2>5. \A i, j \in DOMAIN infos : i < j => infos[i].task < infos[j].task
    BY <2>1 DEF Queued
  <2>6. \A k, l \in DOMAIN reg_fds : reg_fds[k] = reg_fds[l] => reg_fds[k] = FREE_FD \/ k = l
    BY <2>1 DEF Registered
  <2>7. /\ DOMAIN children = {infos[i].fd : i \in DOMAIN infos}
        /\ \A i \in DOMAIN infos : children[infos[i].fd].q = infos[i].task
    BY <2>1 DEF Parented
  <2> QED  BY <2>1, <2>4, <2>5, <2>6, <2>7 DEF LookupsSound
<1> QED  BY <1>1, LookupsInit, LookupsStep, InvariantHolds, PTL DEF Spec

-----------------------------------------------------------------------------
(* The queue of output: its bytes, and what the client makes of its lines *)

\* The queued blocks, and what the client makes of what it got.
Block == [line : Nat, left : Nat]
Blocks == Seq(Block)
Seen == [lines : Nat, inside : BOOLEAN, ok : BOOLEAN]

LEMMA BlocksAre ==
  ASSUME NEW b \in Blocks
  PROVE  /\ Len(b) \in Nat /\ DOMAIN b = 1 .. Len(b)
         /\ \A i \in 1 .. Len(b) : /\ b[i] \in Block
                                  /\ b[i].left \in Nat /\ b[i].line \in Nat
<1>1. /\ Len(b) \in Nat /\ DOMAIN b = 1 .. Len(b)
      /\ \A i \in 1 .. Len(b) : b[i] \in Block
  BY DEF Blocks
<1>2. \A x \in Block : x.left \in Nat /\ x.line \in Nat
  BY DEF Block
<1> QED  BY <1>1, <1>2

\* The bytes of the first k blocks, as a recursion.
LEMMA BytesAre ==
  ASSUME NEW b \in Blocks
  PROVE  /\ Bytes(b, 0) = 0
         /\ \A k \in 1 .. Len(b) : Bytes(b, k) = Bytes(b, k - 1) + b[k].left
         /\ \A k \in 0 .. Len(b) : Bytes(b, k) \in Nat
<1> DEFINE n == Len(b)
           g == [p \in Nat \X (1 .. n) |-> p[1] + b[p[2]].left]
           Rec(h) == h = [i \in 0 .. n |-> IF i = 0 THEN 0 ELSE h[i - 1] + b[i].left]
<1>1. n \in Nat /\ \A i \in 1 .. n : b[i].left \in Nat
  BY BlocksAre
<1>2. IsStep(g, Nat, n) /\ \A t \in Nat, i \in 1 .. n : g[<<t, i>>] = t + b[i].left
  BY <1>1 DEF IsStep
<1> HIDE DEF g, n
<1>3. PICK f : IsRun(f, Nat, 0, n, g)
  BY <1>1, <1>2, Recursion
<1>4. /\ f \in [0 .. n -> Nat] /\ f[0] = 0
      /\ \A i \in 1 .. n : f[i] = f[i - 1] + b[i].left
  <2>1. /\ f \in [0 .. n -> Nat] /\ f[0] = 0
        /\ \A i \in 1 .. n : f[i] = g[<<f[i - 1], i>>]
    BY <1>3 DEF IsRun
  <2>2. \A i \in 1 .. n : f[i - 1] \in Nat
    BY <1>1, <2>1
  <2> QED  BY <1>2, <2>1, <2>2
<1>5. Rec(f)
  <2>1. \A i \in 0 .. n : f[i] = IF i = 0 THEN 0 ELSE f[i - 1] + b[i].left
    BY <1>1, <1>4
  <2> QED  BY <1>4, <2>1
<1>6. PICK bytes : Rec(bytes) /\ \A k : Bytes(b, k) = bytes[k]
  <2>1. \A k : Bytes(b, k) = (CHOOSE h : Rec(h))[k]
    BY DEF Bytes, n
  <2> HIDE DEF Rec
  <2> QED  BY <1>5, <2>1
<1>7. bytes[0] = 0 /\ \A i \in 1 .. n : bytes[i] = bytes[i - 1] + b[i].left
  BY <1>1, <1>6
<1> HIDE DEF Rec
<1> DEFINE T == {i \in Nat : i <= n => bytes[i] \in Nat}
<1>8. 0 \in T
  BY <1>7
<1>9. ASSUME NEW i \in Nat, i \in T PROVE i + 1 \in T
  <2> SUFFICES ASSUME i + 1 <= n PROVE bytes[i + 1] \in Nat
    OBVIOUS
  <2>1. i + 1 \in 1 .. n /\ (i + 1) - 1 = i /\ bytes[i] \in Nat
    BY <1>1, <1>9
  <2>2. bytes[i + 1] = bytes[i] + b[i + 1].left
    BY <1>7, <2>1
  <2> QED  BY <1>1, <2>1, <2>2
<1>10. Nat \subseteq T
  <2> HIDE DEF T
  <2> QED  BY <1>8, <1>9, NatClosed
<1>11. \A i \in 0 .. n : bytes[i] \in Nat
  BY <1>1, <1>10
<1> QED  BY <1>6, <1>7, <1>11 DEF n

\* m blocks of c after the first j are like those of b after the first k.
Alike(c, j, b, k, m) == \A i \in 1 .. m : c[j + i].left = b[k + i].left

\* They are as many bytes.
LEMMA BytesShift ==
  ASSUME NEW b \in Blocks, NEW c \in Blocks, NEW j \in Nat, NEW k \in Nat,
         NEW m \in Nat, j + m <= Len(c), k + m <= Len(b), Alike(c, j, b, k, m)
  PROVE  \A e, f : e = j + m /\ f = k + m
                     => Bytes(c, e) - Bytes(c, j) = Bytes(b, f) - Bytes(b, k)
<1> DEFINE T == {i \in Nat : i <= m =>
                   Bytes(c, j + i) - Bytes(c, j) = Bytes(b, k + i) - Bytes(b, k)}
<1>0. Len(b) \in Nat /\ Len(c) \in Nat
  BY DEF Blocks
<1>1. \A i \in 0 .. m : Bytes(c, j + i) \in Nat /\ Bytes(b, k + i) \in Nat
  <2> SUFFICES ASSUME NEW i \in 0 .. m
               PROVE  Bytes(c, j + i) \in Nat /\ Bytes(b, k + i) \in Nat
    OBVIOUS
  <2>1. j + i \in 0 .. Len(c) /\ k + i \in 0 .. Len(b)
    BY <1>0
  <2> QED  BY <2>1, BytesAre
<1>2. 0 \in T
  <2>1. j + 0 = j /\ k + 0 = k /\ 0 \in 0 .. m
    OBVIOUS
  <2>2. Bytes(c, j) \in Nat /\ Bytes(b, k) \in Nat
    BY <1>1, <2>1
  <2> QED  BY <2>1, <2>2
<1>3. ASSUME NEW i \in Nat, i \in T PROVE i + 1 \in T
  <2> SUFFICES ASSUME i + 1 <= m
               PROVE  Bytes(c, j + (i + 1)) - Bytes(c, j)
                        = Bytes(b, k + (i + 1)) - Bytes(b, k)
    OBVIOUS
  <2>1. /\ j + (i + 1) \in 1 .. Len(c) /\ (j + (i + 1)) - 1 = j + i
        /\ k + (i + 1) \in 1 .. Len(b) /\ (k + (i + 1)) - 1 = k + i
        /\ i + 1 \in 1 .. m /\ i \in 0 .. m /\ 0 \in 0 .. m /\ i + 1 \in 0 .. m
    BY <1>0
  <2>2. /\ Bytes(c, j + (i + 1)) = Bytes(c, j + i) + c[j + (i + 1)].left
        /\ Bytes(b, k + (i + 1)) = Bytes(b, k + i) + b[k + (i + 1)].left
    BY <2>1, BytesAre
  <2>3. c[j + (i + 1)].left = b[k + (i + 1)].left
    BY <2>1 DEF Alike
  <2>4. Bytes(c, j + i) - Bytes(c, j) = Bytes(b, k + i) - Bytes(b, k)
    BY <1>3, <2>1
  <2>5. b[k + (i + 1)].left \in Nat
    BY <2>1, BlocksAre
  <2>6. /\ Bytes(c, j + i) \in Nat /\ Bytes(b, k + i) \in Nat
        /\ Bytes(c, j) \in Nat /\ Bytes(b, k) \in Nat
    <3>1. j + 0 = j /\ k + 0 = k
      OBVIOUS
    <3> QED  BY <1>1, <2>1, <3>1
  <2> QED
    <3>1. PICK x \in Nat, y \in Nat, z \in Nat, u \in Nat, v \in Nat :
            /\ x = Bytes(c, j + i) /\ y = Bytes(b, k + i)
            /\ z = Bytes(c, j) /\ u = Bytes(b, k) /\ v = b[k + (i + 1)].left
      BY <2>5, <2>6
    <3>2. x - z = y - u => (x + v) - z = (y + v) - u
      OBVIOUS
    <3> QED  BY <2>2, <2>3, <2>4, <3>1, <3>2
<1>4. Nat \subseteq T
  <2> HIDE DEF T
  <2> QED  BY <1>2, <1>3, NatClosed
<1>5. m \in T
  BY <1>4
<1> QED  BY <1>5

\* More blocks are no fewer bytes.
LEMMA BytesGrow ==
  ASSUME NEW b \in Blocks, NEW j \in Nat, NEW k \in Nat, j <= k, k <= Len(b)
  PROVE  Bytes(b, j) <= Bytes(b, k)
<1> DEFINE T == {i \in Nat : j + i <= Len(b) => Bytes(b, j) <= Bytes(b, j + i)}
<1>0. Len(b) \in Nat
  BY DEF Blocks
<1>1. 0 \in T
  <2>1. j \in 0 .. Len(b) /\ j + 0 = j
    BY <1>0
  <2>2. Bytes(b, j) \in Nat
    BY <2>1, BytesAre
  <2> QED  BY <2>1, <2>2
<1>2. ASSUME NEW i \in Nat, i \in T PROVE i + 1 \in T
  <2> SUFFICES ASSUME j + (i + 1) <= Len(b)
               PROVE  Bytes(b, j) <= Bytes(b, j + (i + 1))
    OBVIOUS
  <2>1. /\ j + (i + 1) \in 1 .. Len(b) /\ (j + (i + 1)) - 1 = j + i
        /\ j \in 0 .. Len(b) /\ j + i \in 0 .. Len(b)
    BY <1>0
  <2>2. Bytes(b, j + (i + 1)) = Bytes(b, j + i) + b[j + (i + 1)].left
    BY <2>1, BytesAre
  <2>3. b[j + (i + 1)].left \in Nat
    BY <2>1, BlocksAre
  <2>4. Bytes(b, j) \in Nat /\ Bytes(b, j + i) \in Nat
    BY <2>1, BytesAre
  <2>5. Bytes(b, j) <= Bytes(b, j + i)
    BY <1>2, <2>1
  <2> QED  BY <2>2, <2>3, <2>4, <2>5
<1>3. Nat \subseteq T
  <2> HIDE DEF T
  <2> QED  BY <1>1, <1>2, NatClosed
<1>4. k - j \in Nat /\ j + (k - j) = k
  OBVIOUS
<1>5. k - j \in T
  BY <1>3, <1>4
<1> QED  BY <1>4, <1>5

\* Two blocks are part of all.
LEMMA BytesParts ==
  ASSUME NEW b \in Blocks, NEW k \in 1 .. Len(b)
  PROVE  /\ Bytes(b, k - 1) + b[k].left <= Bytes(b, Len(b))
         /\ \A j \in Nat : j < k => Bytes(b, j) + b[k].left <= Bytes(b, Len(b))
<1>0. Len(b) \in Nat /\ k \in Nat /\ k \in 0 .. Len(b) /\ b[k].left \in Nat
  BY BlocksAre
<1>1. Bytes(b, k) <= Bytes(b, Len(b)) /\ Bytes(b, k) = Bytes(b, k - 1) + b[k].left
  BY <1>0, BytesGrow, BytesAre
<1>2. ASSUME NEW j \in Nat, j < k PROVE Bytes(b, j) + b[k].left <= Bytes(b, Len(b))
  <2>1. /\ j \in 0 .. Len(b) /\ k - 1 \in 0 .. Len(b) /\ Len(b) \in 0 .. Len(b)
        /\ k - 1 \in Nat /\ j <= k - 1 /\ k - 1 <= Len(b)
    BY <1>0, <1>2
  <2>2. Bytes(b, j) <= Bytes(b, k - 1)
    BY <2>1, BytesGrow
  <2>3. Bytes(b, j) \in Nat /\ Bytes(b, k - 1) \in Nat /\ Bytes(b, Len(b)) \in Nat
    BY <2>1, BytesAre
  <2> QED  BY <1>0, <1>1, <2>2, <2>3
<1> QED  BY <1>1, <1>2

\* A queue of more bytes than the limit is one line.
Within(b) ==
  Bytes(b, Len(b)) <= MAX_QUEUED_OUTPUT \/ \E k \in 1 .. Len(b) : Bytes(b, Len(b)) = b[k].left

\* The queue c is b without its first k blocks,
Shorter(b, k, c) ==
  /\ c \in Blocks /\ Len(c) = Len(b) - k
  /\ \A i \in 1 .. Len(c) : c[i] = b[k + i]
  /\ Bytes(c, Len(c)) = Bytes(b, Len(b)) - Bytes(b, k)
  /\ Within(b) => Within(c)
\* b with p bytes less of its first block,
Lighter(b, p, c) ==
  /\ c \in Blocks /\ Len(c) = Len(b)
  /\ \A i \in 1 .. Len(b) : c[i].line = b[i].line
  /\ Bytes(c, Len(c)) = Bytes(b, Len(b)) - p
  /\ Within(b) => Within(c)
\* and b with one block more.
Longer(b, x, c) ==
  /\ c \in Blocks /\ Len(c) = Len(b) + 1 /\ c[Len(b) + 1] = x
  /\ \A i \in 1 .. Len(b) : c[i] = b[i]
  /\ Bytes(c, Len(c)) = Bytes(b, Len(b)) + x.left
  /\ Within(c)

LEMMA RestIs ==
  ASSUME NEW b \in Blocks, NEW k \in 0 .. Len(b)
  PROVE  Shorter(b, k, SubSeq(b, k + 1, Len(b)))
<1> SUFFICES ASSUME NEW c, c = SubSeq(b, k + 1, Len(b)) PROVE Shorter(b, k, c)
  OBVIOUS
<1>0. Len(b) \in Nat /\ k \in Nat
  BY BlocksAre
<1>1. /\ c \in Blocks /\ Len(c) = Len(b) - k
      /\ \A i \in 1 .. Len(c) : c[i] = b[k + i]
  <2>1. /\ b \in Seq(Block) /\ k + 1 \in 1 .. Len(b) + 1
    BY <1>0 DEF Blocks
  <2>2. \A i \in k + 1 .. Len(b) : i \in 1 .. Len(b)
    BY <1>0
  <2>3. c \in Seq(Block)
    <3>1. \A i \in k + 1 .. Len(b) : b[i] \in Block
      BY <2>2, BlocksAre
    <3> QED  BY <1>0, <2>1, <2>2, SubSeqProperties
  <2>4. Len(c) = Len(b) - k
    BY <1>0, <2>1, SubSeqProperties
  <2>5. \A i \in 1 .. Len(c) : c[i] = b[k + i]
    BY <1>0, <2>1, <2>4, SubSeqProperties
  <2> QED  BY <2>3, <2>4, <2>5 DEF Blocks
<1> DEFINE m == Len(b) - k
<1>2. m \in Nat /\ 0 + m = Len(c) /\ k + m = Len(b) /\ k \in 0 .. Len(b)
      /\ Len(b) \in 0 .. Len(b) /\ Len(c) \in 0 .. Len(c)
  BY <1>0, <1>1
<1>3. /\ Bytes(c, 0) = 0 /\ Bytes(c, Len(c)) \in Nat
      /\ Bytes(b, k) \in Nat /\ Bytes(b, Len(b)) \in Nat
  BY <1>1, <1>2, BytesAre
<1>4. Bytes(c, Len(c)) = Bytes(b, Len(b)) - Bytes(b, k)
  <2>1. PICK j \in Nat : j = 0
    OBVIOUS
  <2>2. Bytes(c, Len(c)) - Bytes(c, j) = Bytes(b, Len(b)) - Bytes(b, k)
    <3>1. Alike(c, j, b, k, m)
      BY <1>0, <1>1, <2>1 DEF Alike
    <3>2. Len(c) = j + m /\ Len(b) = k + m /\ j + m <= Len(c) /\ k + m <= Len(b)
      BY <1>0, <1>1, <2>1
    <3>3. PICK n \in Nat : n = m
      BY <1>2
    <3>4. /\ Alike(c, j, b, k, n) /\ j + n <= Len(c) /\ k + n <= Len(b)
          /\ Len(c) = j + n /\ Len(b) = k + n
      BY ONLY <3>1, <3>2, <3>3
    <3> HIDE DEF m
    <3>5. \A e, f : e = j + n /\ f = k + n
                     => Bytes(c, e) - Bytes(c, j) = Bytes(b, f) - Bytes(b, k)
      BY ONLY <1>0, <1>1, <3>4, BytesShift
    <3> QED  BY ONLY <3>4, <3>5
  <2> QED  BY <1>3, <2>1, <2>2
<1>5. ASSUME Within(b) PROVE Within(c)
  <2>1. CASE Bytes(b, Len(b)) <= MAX_QUEUED_OUTPUT
    BY <1>3, <1>4, <2>1, OutputAssumption DEF Within
  <2>2. CASE \E j \in 1 .. Len(b) : Bytes(b, Len(b)) = b[j].left
    <3>1. PICK j \in 1 .. Len(b) : Bytes(b, Len(b)) = b[j].left
      BY <2>2
    <3>2. CASE j <= k
      <4>1. Bytes(b, j - 1) + b[j].left = Bytes(b, j) /\ Bytes(b, j) <= Bytes(b, k)
        BY <1>0, <3>2, BytesAre, BytesGrow
      <4>2. j - 1 \in 0 .. Len(b) /\ j \in 0 .. Len(b)
        BY <1>0
      <4>3. Bytes(b, j - 1) \in Nat /\ Bytes(b, j) \in Nat
        BY <4>2, BytesAre
      <4>4. Bytes(c, Len(c)) <= 0
        BY <1>3, <1>4, <3>1, <4>1, <4>3
      <4> QED  BY <1>3, <4>4, OutputAssumption DEF Within
    <3>3. CASE j > k
      <4>1. Bytes(b, k) + b[j].left <= Bytes(b, Len(b))
        BY <1>0, <3>3, BytesParts
      <4>2. j - k \in 1 .. Len(c) /\ k + (j - k) = j
        BY <1>0, <1>1, <3>3
      <4>3. c[j - k] = b[j]
        BY <1>1, <4>2
      <4>4. Bytes(c, Len(c)) = b[j].left
        BY <1>3, <1>4, <3>1, <4>1
      <4> QED  BY <4>2, <4>3, <4>4 DEF Within
    <3> QED  BY <1>0, <3>2, <3>3
  <2> QED  BY <1>5, <2>1, <2>2 DEF Within
<1> QED  BY <1>1, <1>4, <1>5 DEF Shorter

LEMMA PartIs ==
  ASSUME NEW b \in Blocks, b # <<>>, NEW p \in Nat, 0 < p, p < b[1].left
  PROVE  Lighter(b, p, <<[b[1] EXCEPT !.left = @ - p]>> \o Tail(b))
<1> SUFFICES ASSUME NEW c, c = <<[b[1] EXCEPT !.left = @ - p]>> \o Tail(b)
             PROVE  Lighter(b, p, c)
  OBVIOUS
<1> DEFINE x == [b[1] EXCEPT !.left = @ - p]
<1>0. /\ Len(b) \in Nat /\ Len(b) >= 1 /\ 1 \in 1 .. Len(b)
      /\ b[1] \in Block /\ b[1].left \in Nat
  <2>1. Len(b) \in Nat /\ Len(b) >= 1
    BY BlocksAre, EmptySeq DEF Blocks
  <2> QED  BY <2>1, BlocksAre
<1>1. x \in Block /\ x.left = b[1].left - p /\ x.line = b[1].line
  BY <1>0 DEF Block
<1> HIDE DEF x
<1>2. /\ c \in Blocks /\ Len(c) = Len(b)
      /\ c[1] = x /\ \A i \in 2 .. Len(b) : c[i] = b[i]
  <2>1. PICK t : t = Tail(b)
    OBVIOUS
  <2>2. /\ t \in Seq(Block) /\ Len(t) = Len(b) - 1
        /\ \A i \in 1 .. Len(b) - 1 : t[i] = b[i + 1]
    BY <1>0, <2>1 DEF Blocks
  <2>3. c = <<x>> \o t
    BY <2>1 DEF x
  <2>4. <<x>> \in Seq(Block) /\ Len(<<x>>) = 1 /\ <<x>>[1] = x
    BY <1>1
  <2>5. c \in Seq(Block) /\ Len(c) = 1 + Len(t)
        /\ \A i \in 1 .. 1 + Len(t) : c[i] = IF i <= 1 THEN <<x>>[i] ELSE t[i - 1]
    BY ONLY <2>2, <2>3, <2>4, ConcatProperties
  <2>6. \A i \in 2 .. Len(b) : i - 1 \in 1 .. Len(b) - 1 /\ (i - 1) + 1 = i /\ ~ (i <= 1)
                               /\ i \in 1 .. 1 + Len(t)
    BY <1>0, <2>2
  <2>7. 1 \in 1 .. 1 + Len(t)
    BY <1>0, <2>2
  <2> QED  BY <1>0, <2>2, <2>4, <2>5, <2>6, <2>7 DEF Blocks
<1> DEFINE m == Len(b) - 1
<1>3. /\ m \in Nat /\ 1 + m = Len(b) /\ Len(b) \in 0 .. Len(b) /\ 1 \in 0 .. Len(b)
      /\ 1 - 1 = 0
  BY <1>0
<1>4. Bytes(c, Len(c)) - Bytes(c, 1) = Bytes(b, Len(b)) - Bytes(b, 1)
  <2>1. PICK j \in Nat : j = 1
    OBVIOUS
  <2>2. Alike(c, j, b, j, m)
    BY <1>0, <1>2, <2>1 DEF Alike
  <2>3. Len(c) = j + m /\ Len(b) = j + m /\ j + m <= Len(c) /\ j + m <= Len(b)
    BY <1>2, <1>3, <1>0, <2>1
  <2>4. Bytes(c, Len(c)) - Bytes(c, j) = Bytes(b, Len(b)) - Bytes(b, j)
    <3>1. PICK n \in Nat : n = m
      BY <1>3
    <3>2. /\ Alike(c, j, b, j, n) /\ j + n <= Len(c) /\ j + n <= Len(b)
          /\ Len(c) = j + n /\ Len(b) = j + n
      BY ONLY <2>2, <2>3, <3>1
    <3> HIDE DEF m
    <3>3. \A e, f : e = j + n /\ f = j + n
                     => Bytes(c, e) - Bytes(c, j) = Bytes(b, f) - Bytes(b, j)
      BY ONLY <1>2, <3>2, BytesShift
    <3> QED  BY ONLY <3>2, <3>3
  <2> QED  BY <2>1, <2>4
<1> HIDE DEF m
<1>5. /\ Bytes(c, 1) = x.left /\ Bytes(b, 1) = b[1].left
      /\ Bytes(c, Len(c)) \in Nat /\ Bytes(b, Len(b)) \in Nat
  <2>1. ASSUME NEW d \in Blocks, Len(d) = Len(b)
        PROVE  Bytes(d, 1) = d[1].left /\ Bytes(d, Len(d)) \in Nat
    <3>1. \A k \in 1 .. Len(d) : Bytes(d, k) = Bytes(d, k - 1) + d[k].left
      BY BytesAre
    <3>2. 1 \in 1 .. Len(d) /\ Len(d) \in 0 .. Len(d)
      BY <1>0, <2>1
    <3>3. Bytes(d, 1) = Bytes(d, 1 - 1) + d[1].left
      BY <3>1, <3>2
    <3>4. Bytes(d, 0) = 0 /\ d[1].left \in Nat
      BY <3>2, BytesAre, BlocksAre
    <3>5. Bytes(d, Len(d)) \in Nat
      BY <3>2, BytesAre
    <3> QED  BY <3>3, <3>4, <3>5
  <2> QED  BY <1>1, <1>2, <2>1
<1>6. Bytes(c, Len(c)) = Bytes(b, Len(b)) - p
  BY <1>0, <1>1, <1>2, <1>3, <1>4, <1>5
<1>7. ASSUME Within(b) PROVE Within(c)
  <2>1. CASE Bytes(b, Len(b)) <= MAX_QUEUED_OUTPUT
    BY <1>5, <1>6, <2>1, OutputAssumption DEF Within
  <2>2. CASE \E j \in 1 .. Len(b) : Bytes(b, Len(b)) = b[j].left
    <3>1. PICK j \in 1 .. Len(b) : Bytes(b, Len(b)) = b[j].left
      BY <2>2
    <3>2. CASE j = 1
      <4>1. Bytes(c, Len(c)) = c[1].left
        BY <1>1, <1>2, <1>6, <3>1, <3>2
      <4> QED  BY <1>0, <1>2, <4>1 DEF Within
    <3>3. CASE j # 1
      <4>1. Bytes(b, 1) + b[j].left <= Bytes(b, Len(b))
        BY <1>0, <3>3, BytesParts
      <4>2. FALSE
        BY <1>0, <1>5, <3>1, <4>1
      <4> QED  BY <4>2
    <3> QED  BY <3>2, <3>3
  <2> QED  BY <1>7, <2>1, <2>2 DEF Within
<1>8. ASSUME NEW i \in 1 .. Len(b) PROVE c[i].line = b[i].line
  <2>1. CASE i = 1
    BY <1>1, <1>2, <2>1
  <2>2. CASE i # 1
    <3>1. i \in 2 .. Len(b)
      BY <1>0, <2>2
    <3> QED  BY <1>2, <3>1
  <2> QED  BY <2>1, <2>2
<1> QED  BY <1>2, <1>6, <1>7, <1>8 DEF Lighter

LEMMA AppendIs ==
  ASSUME NEW b \in Blocks, NEW x \in Block,
         Bytes(b, Len(b)) = 0 \/ Bytes(b, Len(b)) + x.left <= MAX_QUEUED_OUTPUT
  PROVE  Longer(b, x, Append(b, x))
<1> SUFFICES ASSUME NEW c, c = Append(b, x) PROVE Longer(b, x, c)
  OBVIOUS
<1> DEFINE m == Len(b)
<1>1. m \in Nat /\ x.left \in Nat
  BY BlocksAre DEF Block
<1>2. /\ c \in Blocks /\ Len(c) = m + 1 /\ c[m + 1] = x
      /\ \A i \in 1 .. m : c[i] = b[i]
  <2>1. b \in Seq(Block)
    BY DEF Blocks
  <2>2. c \in Seq(Block) /\ Len(c) = m + 1 /\ c[m + 1] = x
    BY <2>1, AppendProperties
  <2>3. \A i \in 1 .. m : c[i] = b[i]
    BY <2>1, AppendProperties
  <2> QED  BY <2>2, <2>3 DEF Blocks
<1>3. Bytes(c, m) - Bytes(c, 0) = Bytes(b, m) - Bytes(b, 0)
  <2>1. PICK j \in Nat : j = 0
    OBVIOUS
  <2>2. Alike(c, j, b, j, m) /\ m = j + m /\ j + m <= Len(c) /\ j + m <= Len(b)
    BY <1>1, <1>2, <2>1 DEF Alike
  <2>3. Bytes(c, m) - Bytes(c, j) = Bytes(b, m) - Bytes(b, j)
    <3>1. PICK n \in Nat : n = m
      BY <1>1
    <3>2. \A e, f : e = j + n /\ f = j + n
                     => Bytes(c, e) - Bytes(c, j) = Bytes(b, f) - Bytes(b, j)
      BY ONLY <1>2, <2>2, <3>1, BytesShift
    <3> QED  BY ONLY <2>2, <3>1, <3>2
  <2> QED  BY <2>1, <2>3
<1>4. /\ Bytes(c, 0) = 0 /\ Bytes(b, 0) = 0 /\ Bytes(b, m) \in Nat /\ Bytes(c, m) \in Nat
      /\ Bytes(c, m + 1) = Bytes(c, (m + 1) - 1) + c[m + 1].left
  <2>1. m \in 0 .. Len(b) /\ m \in 0 .. Len(c) /\ m + 1 \in 1 .. Len(c)
    BY <1>1, <1>2
  <2> HIDE DEF m
  <2> QED  BY <1>1, <1>2, <2>1, BytesAre
<1>5. Bytes(c, Len(c)) = Bytes(b, m) + x.left
  <2>1. (m + 1) - 1 = m
    BY <1>1
  <2> HIDE DEF m
  <2> QED  BY <1>1, <1>2, <1>3, <1>4, <2>1
<1>6. Within(c)
  <2>1. CASE Bytes(b, m) + x.left <= MAX_QUEUED_OUTPUT
    BY <1>5, <2>1 DEF Within
  <2>2. CASE Bytes(b, m) = 0
    <3>1. m + 1 \in 1 .. Len(c) /\ Bytes(c, Len(c)) = c[m + 1].left
      BY <1>1, <1>2, <1>5, <2>2
    <3> HIDE DEF m
    <3> QED  BY <3>1 DEF Within
  <2> QED  BY <2>1, <2>2
<1> QED  BY <1>2, <1>5, <1>6 DEF Longer

\* What the client makes of k lines that come in their order.
LEMMA SeeLinesIs ==
  ASSUME NEW b, NEW k \in Nat, NEW s \in Seen, s.ok = TRUE,
         \A i \in 1 .. k : b[i].line = s.lines + i
  PROVE  /\ SeeLines(b, k, s) \in Seen /\ SeeLines(b, k, s).ok = TRUE
         /\ SeeLines(b, k, s).lines = s.lines + k
<1> DEFINE Rec(h) == h = [i \in 0 .. k |->
                            IF i = 0 THEN s ELSE SeeLine(b[i].line, TRUE, h[i - 1])]
           f == [i \in 0 .. k |->
                   [lines |-> s.lines + i, inside |-> IF i = 0 THEN s.inside ELSE FALSE,
                    ok |-> TRUE]]
<1>1. /\ s.lines \in Nat /\ s.inside \in BOOLEAN
      /\ s = [lines |-> s.lines, inside |-> s.inside, ok |-> TRUE]
  BY DEF Seen
<1>2. Rec(f)
  <2>1. ASSUME NEW i \in 0 .. k
        PROVE  f[i] = IF i = 0 THEN s ELSE SeeLine(b[i].line, TRUE, f[i - 1])
    <3>1. CASE i = 0
      <4>1. s.lines + 0 = s.lines
        BY <1>1
      <4>2. f[i] = [lines |-> s.lines + 0, inside |-> s.inside, ok |-> TRUE]
        BY <3>1
      <4> QED  BY <1>1, <3>1, <4>1, <4>2
    <3>2. CASE i # 0
      <4>1. /\ i \in 1 .. k /\ i - 1 \in 0 .. k
            /\ (s.lines + (i - 1)) + 1 = s.lines + i /\ b[i].line = s.lines + i
        BY <1>1, <3>2
      <4>2. /\ f[i - 1].lines = s.lines + (i - 1) /\ f[i - 1].ok = TRUE
            /\ f[i] = [lines |-> s.lines + i, inside |-> FALSE, ok |-> TRUE]
        BY <3>2, <4>1
      <4> HIDE DEF f
      <4>3. SeeLine(b[i].line, TRUE, f[i - 1])
              = [lines |-> s.lines + i, inside |-> FALSE, ok |-> TRUE]
        BY <4>1, <4>2 DEF SeeLine
      <4> QED  BY <3>2, <4>2, <4>3
    <3> QED  BY <3>1, <3>2
  <2>2. f = [i \in 0 .. k |-> f[i]]
    OBVIOUS
  <2> HIDE DEF f
  <2> QED  BY <2>1, <2>2
<1>3. PICK seen : Rec(seen) /\ SeeLines(b, k, s) = seen[k]
  <2>1. SeeLines(b, k, s) = (CHOOSE h : Rec(h))[k]
    BY DEF SeeLines
  <2> HIDE DEF Rec, f
  <2> QED  BY <1>2, <2>1
<1>4. seen[0] = s /\ \A i \in 1 .. k : seen[i] = SeeLine(b[i].line, TRUE, seen[i - 1])
  <2>1. \A i \in 0 .. k : seen[i] = IF i = 0 THEN s ELSE SeeLine(b[i].line, TRUE, seen[i - 1])
    BY <1>3
  <2>2. 0 \in 0 .. k /\ \A i \in 1 .. k : i \in 0 .. k /\ i # 0
    OBVIOUS
  <2> HIDE DEF Rec, f
  <2> QED  BY <2>1, <2>2
<1> HIDE DEF Rec, f
<1> DEFINE Good(i) == seen[i] \in Seen /\ seen[i].ok = TRUE /\ seen[i].lines = s.lines + i
           T == {i \in Nat : i <= k => Good(i)}
<1>5. 0 \in T
  <2>1. s.lines + 0 = s.lines
    BY <1>1
  <2> QED  BY <1>4, <2>1
<1>6. ASSUME NEW i \in Nat, i \in T PROVE i + 1 \in T
  <2> SUFFICES ASSUME i + 1 <= k PROVE Good(i + 1)
    <3> HIDE DEF Good
    <3> QED  OBVIOUS
  <2>1. /\ i + 1 \in 1 .. k /\ (i + 1) - 1 = i /\ Good(i)
        /\ b[i + 1].line = s.lines + (i + 1) /\ (s.lines + i) + 1 = s.lines + (i + 1)
    BY <1>1, <1>6
  <2>2. seen[i + 1] = SeeLine(b[i + 1].line, TRUE, seen[i])
    BY <1>4, <2>1
  <2>3. seen[i + 1] = [lines |-> s.lines + (i + 1), inside |-> FALSE, ok |-> TRUE]
    BY <2>1, <2>2 DEF SeeLine
  <2> QED  BY <1>1, <2>3 DEF Seen
<1>7. Nat \subseteq T
  <2> HIDE DEF T
  <2> QED  BY <1>5, <1>6, NatClosed
<1>8. Good(k)
  BY <1>7
<1> QED  BY <1>3, <1>8

-----------------------------------------------------------------------------
(* The output of a handle: the queue b of l bytes, f lines flushed, s sent, *)
(* and the client's view v.                                                 *)

Balanced(b, l, f, s, v) ==
  /\ b \in Blocks /\ l \in Nat /\ f \in Nat /\ s \in Nat /\ v \in Seen
  /\ v.ok = TRUE
  /\ \A k \in 1 .. Len(b) : b[k].line = v.lines + f + k
  /\ s = v.lines + f + Len(b)
  /\ l = Bytes(b, Len(b))
  /\ Within(b)

\* The first k blocks are flushed.
LEMMA FlushKeeps ==
  ASSUME NEW b, NEW l, NEW f, NEW s, NEW v, Balanced(b, l, f, s, v),
         NEW k \in 0 .. Len(b)
  PROVE  Balanced(SubSeq(b, k + 1, Len(b)), l - Bytes(b, k), f + k, s, v)
<1>1. PICK c : c = SubSeq(b, k + 1, Len(b))
  OBVIOUS
<1>2. /\ c \in Blocks /\ Len(c) = Len(b) - k
      /\ \A i \in 1 .. Len(c) : c[i] = b[k + i]
      /\ Bytes(c, Len(c)) = Bytes(b, Len(b)) - Bytes(b, k)
      /\ Within(c)
  <2>1. b \in Blocks /\ Within(b)
    BY DEF Balanced
  <2>2. Shorter(b, k, SubSeq(b, k + 1, Len(b)))
    BY <2>1, RestIs
  <2>3. Shorter(b, k, c)
    BY <1>1, <2>2
  <2> QED  BY ONLY <2>1, <2>3 DEF Shorter
<1>3. /\ Len(b) \in Nat /\ k \in Nat /\ v.lines \in Nat
      /\ Len(c) \in 0 .. Len(c) /\ f \in Nat /\ v \in Seen
  BY <1>2, BlocksAre DEF Balanced, Seen
<1>4. Bytes(c, Len(c)) \in Nat
  BY <1>2, <1>3, BytesAre
<1>5. \A i \in 1 .. Len(c) : c[i].line = v.lines + (f + k) + i
  <2> SUFFICES ASSUME NEW i \in 1 .. Len(c) PROVE c[i].line = v.lines + (f + k) + i
    OBVIOUS
  <2>1. k + i \in 1 .. Len(b)
    BY <1>2, <1>3
  <2>2. b[k + i].line = v.lines + f + (k + i)
    BY <2>1 DEF Balanced
  <2> QED  BY <1>2, <1>3, <2>2
<1>6. s = v.lines + (f + k) + Len(c)
  BY <1>2, <1>3 DEF Balanced
<1> QED  BY <1>1, <1>2, <1>3, <1>4, <1>5, <1>6 DEF Balanced

\* The first k blocks are written.
LEMMA SeenKeeps ==
  ASSUME NEW b, NEW l, NEW s, NEW v, Balanced(b, l, 0, s, v), NEW k \in 0 .. Len(b)
  PROVE  Balanced(SubSeq(b, k + 1, Len(b)), l - Bytes(b, k), 0, s, SeeLines(b, k, v))
<1>1. PICK c : c = SubSeq(b, k + 1, Len(b))
  OBVIOUS
<1>2. Balanced(c, l - Bytes(b, k), 0 + k, s, v)
  <2>1. Balanced(SubSeq(b, k + 1, Len(b)), l - Bytes(b, k), 0 + k, s, v)
    BY FlushKeeps
  <2> QED  BY <1>1, <2>1
<1>3. v \in Seen /\ v.ok = TRUE /\ v.lines \in Nat /\ Len(b) \in Nat /\ k \in Nat
  BY BlocksAre DEF Balanced, Seen
<1>4. PICK w : w = SeeLines(b, k, v)
  OBVIOUS
<1>5. w \in Seen /\ w.ok = TRUE /\ w.lines = v.lines + k
  <2>1. \A i \in 1 .. k : b[i].line = v.lines + i
    <3>1. \A i \in 1 .. k : i \in 1 .. Len(b) /\ v.lines + 0 + i = v.lines + i
      BY <1>3
    <3> QED  BY <3>1 DEF Balanced
  <2> QED  BY <1>3, <1>4, <2>1, SeeLinesIs
<1>6. Len(c) \in Nat
  BY <1>2, BlocksAre DEF Balanced
<1>7. /\ \A i \in 1 .. Len(c) : c[i].line = w.lines + 0 + i
      /\ s = w.lines + 0 + Len(c)
  <2>1. /\ \A i \in 1 .. Len(c) : v.lines + (0 + k) + i = w.lines + 0 + i
        /\ v.lines + (0 + k) + Len(c) = w.lines + 0 + Len(c)
    BY <1>3, <1>5, <1>6
  <2> QED  BY <1>2, <2>1 DEF Balanced
<1>8. Balanced(c, l - Bytes(b, k), 0, s, w)
  BY <1>2, <1>5, <1>7 DEF Balanced
<1> QED  BY <1>1, <1>4, <1>8

\* p bytes of the first block are written.
LEMMA PartKeeps ==
  ASSUME NEW b, NEW l, NEW s, NEW v, Balanced(b, l, 0, s, v),
         b # <<>>, NEW p \in Nat, 0 < p, p < b[1].left
  PROVE  Balanced(<<[b[1] EXCEPT !.left = @ - p]>> \o Tail(b), l - p, 0, s,
                  SeeLine(b[1].line, FALSE, v))
<1>1. PICK c : c = <<[b[1] EXCEPT !.left = @ - p]>> \o Tail(b)
  OBVIOUS
<1>2. b \in Blocks /\ Within(b)
  BY DEF Balanced
<1>3. /\ c \in Blocks /\ Len(c) = Len(b)
      /\ \A i \in 1 .. Len(b) : c[i].line = b[i].line
      /\ Bytes(c, Len(c)) = Bytes(b, Len(b)) - p
      /\ Within(c)
  <2>1. Lighter(b, p, <<[b[1] EXCEPT !.left = @ - p]>> \o Tail(b))
    BY <1>2, PartIs
  <2>2. Lighter(b, p, c)
    BY <1>1, <2>1
  <2> QED  BY <1>2, <2>2 DEF Lighter
<1>4. Len(b) \in Nat /\ 1 \in 1 .. Len(b) /\ v.lines \in Nat
  <2>1. Len(b) \in Nat /\ Len(b) >= 1
    BY <1>2, BlocksAre, EmptySeq DEF Blocks
  <2> QED  BY <2>1 DEF Balanced, Seen
<1>5. PICK w : w = SeeLine(b[1].line, FALSE, v)
  OBVIOUS
<1>6. w \in Seen /\ w.ok = TRUE /\ w.lines = v.lines
  <2>1. b[1].line = v.lines + 1
    BY <1>4 DEF Balanced
  <2>2. w = [lines |-> v.lines, inside |-> TRUE, ok |-> v.ok /\ b[1].line = v.lines + 1]
    BY <1>5 DEF SeeLine
  <2> QED  BY <1>4, <2>1, <2>2 DEF Balanced, Seen
<1>7. Bytes(c, Len(c)) \in Nat
  BY <1>3, <1>4, BytesAre
<1> QED  BY <1>1, <1>3, <1>5, <1>6, <1>7 DEF Balanced

\* The client is told of the lines flushed.
LEMMA LostKeeps ==
  ASSUME NEW b, NEW l, NEW f, NEW s, NEW v, Balanced(b, l, f, s, v)
  PROVE  Balanced(b, l, 0, s, SeeLost(f, v))
<1>1. PICK w : w = SeeLost(f, v)
  OBVIOUS
<1>2. v.lines \in Nat /\ f \in Nat /\ v \in Seen /\ Len(b) \in Nat
  BY BlocksAre DEF Balanced, Seen
<1>3. w \in Seen /\ w.ok = v.ok /\ w.lines = v.lines + f
  <2>1. v = [lines |-> v.lines, inside |-> v.inside, ok |-> v.ok] /\ v.ok \in BOOLEAN
    BY <1>2 DEF Seen
  <2>2. w = [lines |-> v.lines + f, inside |-> FALSE, ok |-> v.ok]
    BY <1>1, <2>1 DEF SeeLost
  <2> QED  BY <1>2, <2>1, <2>2 DEF Seen
<1>4. \A i \in Nat : v.lines + f + i = w.lines + 0 + i
  BY <1>2, <1>3
<1> QED  BY <1>1, <1>2, <1>3, <1>4 DEF Balanced

\* A line is queued.
LEMMA QueueKeeps ==
  ASSUME NEW b, NEW l, NEW f, NEW s, NEW v, Balanced(b, l, f, s, v), NEW len \in Nat,
         l = 0 \/ l + len <= MAX_QUEUED_OUTPUT
  PROVE  Balanced(Append(b, [line |-> s + 1, left |-> len]), l + len, f, s + 1, v)
<1>1. PICK x : x = [line |-> s + 1, left |-> len]
  OBVIOUS
<1>2. PICK c : c = Append(b, x)
  OBVIOUS
<1>0. /\ b \in Blocks /\ l = Bytes(b, Len(b)) /\ l \in Nat /\ s \in Nat
      /\ s = v.lines + f + Len(b)
  BY DEF Balanced
<1>3. x \in Block /\ x.left = len /\ x.line = s + 1
  BY <1>0, <1>1 DEF Block
<1>4. /\ c \in Blocks /\ Len(c) = Len(b) + 1 /\ c[Len(b) + 1] = x
      /\ \A i \in 1 .. Len(b) : c[i] = b[i]
      /\ Bytes(c, Len(c)) = Bytes(b, Len(b)) + x.left
      /\ Within(c)
  <2>1. Bytes(b, Len(b)) = 0 \/ Bytes(b, Len(b)) + x.left <= MAX_QUEUED_OUTPUT
    BY <1>0, <1>3
  <2>2. Longer(b, x, Append(b, x))
    BY <1>0, <1>3, <2>1, AppendIs
  <2>3. Longer(b, x, c)
    BY <1>2, <2>2
  <2> QED  BY ONLY <2>3 DEF Longer
<1>5. v.lines \in Nat /\ f \in Nat /\ Len(b) \in Nat
  BY BlocksAre DEF Balanced, Seen
<1>6. s + 1 = v.lines + f + Len(c)
  BY <1>0, <1>4, <1>5
<1>7. ASSUME NEW i \in 1 .. Len(c) PROVE c[i].line = v.lines + f + i
  <2>1. CASE i = Len(b) + 1
    BY <1>3, <1>4, <1>6, <2>1
  <2>2. CASE i # Len(b) + 1
    <3>1. i \in 1 .. Len(b)
      BY <1>4, <1>5, <2>2
    <3> QED  BY <1>4, <3>1 DEF Balanced
  <2> QED  BY <2>1, <2>2
<1>8. Balanced(c, l + len, f, s + 1, v)
  BY <1>3, <1>4, <1>6, <1>7 DEF Balanced
<1> QED  BY <1>1, <1>2, <1>8

\* The output of the handle n.
Fits(n) == /\ DOMAIN n = NhandleFields
           /\ Balanced(n.output, n.length, n.flushed, n.sent, n.seen)
\* m has the output of n.
SameOutput(n, m) ==
  DOMAIN n = NhandleFields
    => /\ DOMAIN m = NhandleFields
       /\ m.output = n.output /\ m.length = n.length /\ m.flushed = n.flushed
       /\ m.sent = n.sent /\ m.seen = n.seen

LEMMA SameFits ==
  ASSUME NEW n, NEW m, Fits(n), SameOutput(n, m)
  PROVE  Fits(m)
  BY DEF Fits, SameOutput

LEMMA WriteFits ==
  ASSUME NEW n, Fits(n), n.flushed = 0, NEW r \in WriteBlocks(n)
  PROVE  Fits(r.n)
<1> DEFINE b == n.output
<1>1. PICK k \in 0 .. Len(b), p \in 0 .. Bytes(b, Len(b)) :
        /\ p = 0 \/ (k < Len(b) /\ p < b[k + 1].left)
        /\ r.n = Written(n, k, p)
  <2>1. PICK q \in (0 .. Len(b)) \X (0 .. Bytes(b, Len(b))) :
          /\ q[2] = 0 \/ (q[1] < Len(b) /\ q[2] < b[q[1] + 1].left)
          /\ r.n = Written(n, q[1], q[2])
    BY DEF WriteBlocks
  <2>2. q[1] \in 0 .. Len(b) /\ q[2] \in 0 .. Bytes(b, Len(b))
    OBVIOUS
  <2> QED  BY <2>1, <2>2
<1>2. /\ DOMAIN n = NhandleFields /\ Balanced(b, n.length, 0, n.sent, n.seen)
      /\ b \in Blocks /\ n.length \in Nat
  BY DEF Fits, Balanced
<1> DEFINE c == SubSeq(b, k + 1, Len(b))
           v == SeeLines(b, k, n.seen)
           l == n.length - Bytes(b, k)
<1>3. Balanced(c, l, 0, n.sent, v)
  BY <1>2, SeenKeeps
<1>4. Len(b) \in Nat /\ k \in Nat /\ Bytes(b, k) \in Nat /\ p \in Int
  BY <1>2, BlocksAre, BytesAre
<1>5. CASE p = 0
  <2>1. r.n = [n EXCEPT !.output = c, !.length = n.length - p - Bytes(b, k), !.seen = v]
    BY <1>1, <1>5 DEF Written
  <2>2. n.length - p - Bytes(b, k) = l
    BY <1>2, <1>4, <1>5
  <2> HIDE DEF b, c, v, l
  <2>3. /\ DOMAIN r.n = NhandleFields /\ r.n.output = c /\ r.n.length = l
        /\ r.n.flushed = n.flushed /\ r.n.sent = n.sent /\ r.n.seen = v
    BY <1>2, <2>1, <2>2 DEF NhandleFields, new_nhandle
  <2> QED  BY <1>3, <2>3 DEF Fits
<1>6. CASE p # 0
  <2>1. k < Len(b) /\ p < b[k + 1].left /\ p \in Nat /\ 0 < p
    BY <1>1, <1>4, <1>6
  <2>2. /\ c # <<>> /\ c[1] = b[k + 1]
    <3>1. Shorter(b, k, c)
      BY <1>2, RestIs
    <3>2. Len(c) = Len(b) - k /\ \A i \in 1 .. Len(c) : c[i] = b[k + i]
      BY <3>1 DEF Shorter
    <3> HIDE DEF b, c
    <3>3. 1 \in 1 .. Len(c)
      BY <1>4, <2>1, <3>2
    <3>4. c # <<>>
      BY <3>3
    <3> QED  BY <3>2, <3>3, <3>4
  <2> DEFINE d == <<[c[1] EXCEPT !.left = @ - p]>> \o Tail(c)
             w == SeeLine(c[1].line, FALSE, v)
  <2>3. r.n = [n EXCEPT !.output = d, !.length = n.length - p - Bytes(b, k), !.seen = w]
    BY <1>1, <1>6 DEF Written
  <2>4. n.length - p - Bytes(b, k) = l - p
    BY <1>2, <1>4
  <2> HIDE DEF b, c, v, l
  <2>5. Balanced(d, l - p, 0, n.sent, w)
    <3>1. p < c[1].left
      BY <2>1, <2>2
    <3> QED  BY <1>3, <2>1, <2>2, <3>1, PartKeeps
  <2> HIDE DEF d, w
  <2>6. /\ DOMAIN r.n = NhandleFields /\ r.n.output = d /\ r.n.length = l - p
        /\ r.n.flushed = n.flushed /\ r.n.sent = n.sent /\ r.n.seen = w
    BY <1>2, <2>3, <2>4 DEF NhandleFields, new_nhandle
  <2> QED  BY <2>5, <2>6 DEF Fits
<1> QED  BY <1>5, <1>6

LEMMA PushFits ==
  ASSUME NEW n, Fits(n), NEW r \in push_output(n)
  PROVE  Fits(r.n)
<1>1. CASE n.flushed = 0
  <2>1. r \in WriteBlocks(n)
    BY <1>1 DEF push_output
  <2> QED  BY <1>1, <2>1, WriteFits
<1>2. CASE n.flushed # 0
  <2>1. PICK m : m = [n EXCEPT !.flushed = 0, !.seen = SeeLost(n.flushed, @)]
    OBVIOUS
  <2>2. r.n = n \/ r \in WriteBlocks(m)
    BY <1>2, <2>1 DEF push_output
  <2>3. Fits(m) /\ m.flushed = 0
    <3>1. DOMAIN n = NhandleFields
      BY DEF Fits
    <3>2. /\ DOMAIN m = NhandleFields /\ m.output = n.output /\ m.length = n.length
          /\ m.flushed = 0 /\ m.sent = n.sent /\ m.seen = SeeLost(n.flushed, n.seen)
      BY <2>1, <3>1 DEF NhandleFields, new_nhandle
    <3>3. Balanced(n.output, n.length, 0, n.sent, SeeLost(n.flushed, n.seen))
      BY LostKeeps DEF Fits
    <3> QED  BY <3>2, <3>3 DEF Fits
  <2> QED  BY <2>2, <2>3, WriteFits
<1> QED  BY <1>1, <1>2

LEMMA AppendFits ==
  ASSUME NEW n, Fits(n), NEW len \in Nat, n.length = 0 \/ n.length + len <= MAX_QUEUED_OUTPUT
  PROVE  Fits(Append1(len, n))
<1>1. PICK m : m = Append1(len, n)
  OBVIOUS
<1>2. DOMAIN n = NhandleFields
  BY DEF Fits
<1>3. /\ DOMAIN m = NhandleFields
      /\ m.output = Append(n.output, [line |-> n.sent + 1, left |-> len])
      /\ m.length = n.length + len
      /\ m.flushed = n.flushed /\ m.sent = n.sent + 1 /\ m.seen = n.seen
  BY <1>1, <1>2 DEF Append1, NhandleFields, new_nhandle
<1>4. Balanced(Append(n.output, [line |-> n.sent + 1, left |-> len]), n.length + len,
               n.flushed, n.sent + 1, n.seen)
  BY QueueKeeps DEF Fits
<1> QED  BY <1>1, <1>3, <1>4 DEF Fits

\* There is room for a line when as much as it needs, or all, is flushed.
LEMMA FlushFits ==
  ASSUME NEW n, Fits(n), NEW need \in Int
  PROVE  /\ Fits(Flushed(need, n))
         /\ Flushed(need, n).length = 0 \/ Flushed(need, n).length <= n.length - need
<1> DEFINE b == n.output
           enough == {k \in 0 .. Len(b) : k = Len(b) \/ Bytes(b, k) >= need}
<1>1. /\ b \in Blocks /\ n.length = Bytes(b, Len(b)) /\ n.length \in Nat
      /\ Balanced(b, n.length, n.flushed, n.sent, n.seen) /\ DOMAIN n = NhandleFields
  BY DEF Fits, Balanced
<1>2. Len(b) \in Nat
  BY <1>1, BlocksAre
<1>3. \E k \in enough : \A j \in enough : k <= j
  <2>1. enough \in SUBSET Nat /\ Len(b) \in enough
    BY <1>2
  <2> HIDE DEF enough
  <2> QED  BY <2>1, Least
<1>4. PICK k \in 0 .. Len(b) :
        /\ k = Len(b) \/ Bytes(b, k) >= need
        /\ Flushed(need, n) = [n EXCEPT !.output = SubSeq(@, k + 1, Len(@)), !.flushed = @ + k,
                                        !.length = @ - Bytes(b, k)]
  <2>1. PICK k : k = CHOOSE i \in enough : \A j \in enough : i <= j
    OBVIOUS
  <2>2. k \in enough
    BY <1>3, <2>1
  <2>3. Flushed(need, n) = [n EXCEPT !.output = SubSeq(@, k + 1, Len(@)), !.flushed = @ + k,
                                     !.length = @ - Bytes(b, k)]
    BY <2>1 DEF Flushed
  <2> QED  BY <2>2, <2>3
<1>5. PICK m : m = Flushed(need, n)
  OBVIOUS
<1> DEFINE c == SubSeq(b, k + 1, Len(b))
<1>6. m = [n EXCEPT !.output = c, !.flushed = n.flushed + k, !.length = n.length - Bytes(b, k)]
  BY <1>4, <1>5
<1>7. Balanced(c, n.length - Bytes(b, k), n.flushed + k, n.sent, n.seen)
  BY <1>1, FlushKeeps
<1> HIDE DEF b, c, enough
<1>8. /\ DOMAIN m = NhandleFields /\ m.output = c /\ m.length = n.length - Bytes(b, k)
      /\ m.flushed = n.flushed + k /\ m.sent = n.sent /\ m.seen = n.seen
  BY <1>1, <1>6 DEF NhandleFields, new_nhandle
<1>9. Fits(m)
  BY <1>7, <1>8 DEF Fits
<1>10. m.length = 0 \/ m.length <= n.length - need
  <2>1. Bytes(b, k) \in Nat
    BY <1>1, BytesAre
  <2>2. CASE k = Len(b)
    BY <1>1, <1>8, <2>2
  <2>3. CASE Bytes(b, k) >= need
    BY <1>1, <1>8, <2>1, <2>3
  <2> QED  BY <1>4, <2>2, <2>3
<1> QED  BY <1>5, <1>9, <1>10

LEMMA EnqueueFits ==
  ASSUME NEW len \in Nat, NEW flush_ok, NEW n, Fits(n),
         NEW m \in enqueue_output(len, flush_ok, n)
  PROVE  Fits(m)
<1>1. CASE n.length = 0 \/ n.length + len <= MAX_QUEUED_OUTPUT
  <2>1. m = Append1(len, n)
    BY <1>1 DEF enqueue_output
  <2> QED  BY <1>1, <2>1, AppendFits
<1>2. CASE ~ (n.length = 0 \/ n.length + len <= MAX_QUEUED_OUTPUT)
  <2>1. PICK r \in push_output(n) :
          m = IF r.n.length + len - MAX_QUEUED_OUTPUT <= 0 THEN Append1(len, r.n)
              ELSE IF flush_ok THEN Append1(len, Flushed(r.n.length + len - MAX_QUEUED_OUTPUT, r.n))
              ELSE r.n
    BY <1>2 DEF enqueue_output
  <2>2. PICK a : a = r.n
    OBVIOUS
  <2>3. Fits(a) /\ a.length \in Nat
    <3>1. Fits(a)
      BY <2>2, PushFits
    <3> QED  BY <3>1 DEF Fits, Balanced
  <2>4. PICK need \in Int : need = a.length + len - MAX_QUEUED_OUTPUT
    BY <2>3, OutputAssumption
  <2>5. m = IF need <= 0 THEN Append1(len, a)
            ELSE IF flush_ok THEN Append1(len, Flushed(need, a)) ELSE a
    BY <2>1, <2>2, <2>4
  <2>6. CASE need <= 0
    <3>1. a.length + len <= MAX_QUEUED_OUTPUT
      BY <2>3, <2>4, <2>6, OutputAssumption
    <3> QED  BY <2>3, <2>5, <2>6, <3>1, AppendFits
  <2>7. CASE ~ (need <= 0) /\ flush_ok
    <3>1. PICK f : f = Flushed(need, a)
      OBVIOUS
    <3>2. Fits(f) /\ (f.length = 0 \/ f.length <= a.length - need)
      BY <2>3, <3>1, FlushFits
    <3>3. f.length \in Nat
      BY <3>2 DEF Fits, Balanced
    <3>4. f.length = 0 \/ f.length + len <= MAX_QUEUED_OUTPUT
      BY <2>3, <2>4, <3>2, <3>3, OutputAssumption
    <3>5. Fits(Append1(len, f))
      BY <3>2, <3>4, AppendFits
    <3> QED  BY <2>5, <2>7, <3>1, <3>5
  <2>8. CASE ~ (need <= 0) /\ ~ flush_ok
    BY <2>3, <2>5, <2>8
  <2> QED  BY <2>6, <2>7, <2>8
<1> QED  BY <1>1, <1>2

-----------------------------------------------------------------------------
(* The handles *)

Outputs(h) == \A i \in DOMAIN h : Fits(h[i])

LEMMA OneFits ==
  ASSUME NEW h, Outputs(h), NEW i, NEW m, i \in DOMAIN h => Fits(m)
  PROVE  Outputs([h EXCEPT ![i] = m])
<1> SUFFICES ASSUME NEW j \in DOMAIN h PROVE Fits([h EXCEPT ![i] = m][j])
  BY DEF Outputs
<1>1. CASE i = j
  BY <1>1
<1>2. CASE i # j
  <2>1. [h EXCEPT ![i] = m][j] = h[j]
    BY <1>2
  <2> QED  BY <2>1 DEF Outputs
<1> QED  BY <1>1, <1>2

LEMMA FieldsFit ==
  ASSUME NEW n, Fits(n), NEW x
  PROVE  /\ Fits([n EXCEPT !.suspended = x])
         /\ Fits([n EXCEPT !.binary = x])
<1>1. DOMAIN n = NhandleFields
  BY DEF Fits
<1>2. SameOutput(n, [n EXCEPT !.suspended = x])
  BY <1>1 DEF SameOutput, NhandleFields, new_nhandle
<1>3. SameOutput(n, [n EXCEPT !.binary = x])
  BY <1>1 DEF SameOutput, NhandleFields, new_nhandle
<1> QED  BY <1>2, <1>3, SameFits

LEMMA PullFits ==
  ASSUME NEW n, Fits(n), NEW chunk
  PROVE  Fits(pull_input(chunk, n).n)
<1>1. PICK input, last_CR :
        pull_input(chunk, n).n = [n EXCEPT !.input = input, !.last_CR = last_CR]
  BY DEF pull_input
<1>2. DOMAIN n = NhandleFields
  BY DEF Fits
<1>3. SameOutput(n, [n EXCEPT !.input = input, !.last_CR = last_CR])
  BY <1>2 DEF SameOutput, NhandleFields, new_nhandle
<1> QED  BY <1>1, <1>3, SameFits

LEMMA SuspendFits ==
  ASSUME NEW h, Outputs(h), NEW p, NEW to
  PROVE  Outputs(set_input_suspended(p, to, h))
<1>1. CASE find_shandle(p) = 0
  BY <1>1 DEF set_input_suspended
<1>2. CASE find_shandle(p) # 0
  <2>1. PICK i : i = find_shandle(p)
    OBVIOUS
  <2>2. PICK m : m = [h[i] EXCEPT !.suspended = to]
    OBVIOUS
  <2>3. set_input_suspended(p, to, h) = [h EXCEPT ![i] = m]
    BY <1>2, <2>1, <2>2 DEF set_input_suspended
  <2>4. i \in DOMAIN h => Fits(m)
    BY <2>2, FieldsFit DEF Outputs
  <2>5. Outputs([h EXCEPT ![i] = m])
    BY <2>4, OneFits
  <2> QED  BY <2>3, <2>5
<1> QED  BY <1>1, <1>2

LEMMA InputFits ==
  ASSUME NEW h, Outputs(h), NEW i, NEW m, new_input(i, m, h)
  PROVE  Outputs(nh')
<1>1. \/ nh' = h
      \/ nh' = set_input_suspended(tq[i].player, TRUE, h)
  BY DEF new_input
<1> QED  BY <1>1, SuspendFits

LEMMA CloseFits ==
  ASSUME NEW h, Outputs(h), NEW i
  PROVE  Outputs(close_nhandle(i, h))
<1>1. close_nhandle(i, h) = [j \in DOMAIN h \ {i} |-> h[j]]
  BY DEF close_nhandle, Restrict
<1> QED  BY <1>1 DEF Outputs

LEMMA NewFits ==
  ASSUME Outputs(nh), NEW l, NEW outbound, NEW print, new_connection(l, outbound, print)
  PROVE  Outputs(nh')
<1>1. PICK i, x : nh' = added(nh, i, [new_nhandle EXCEPT !.suspended = x])
  BY DEF new_connection
<1>2. Fits(new_nhandle)
  <2>1. /\ DOMAIN new_nhandle = NhandleFields
        /\ new_nhandle.output = <<>> /\ new_nhandle.length = 0 /\ new_nhandle.flushed = 0
        /\ new_nhandle.sent = 0
        /\ new_nhandle.seen = [lines |-> 0, inside |-> FALSE, ok |-> TRUE]
    BY DEF new_nhandle, NhandleFields
  <2>2. PICK b, v : b = <<>> /\ v = [lines |-> 0, inside |-> FALSE, ok |-> TRUE]
    OBVIOUS
  <2>3. b \in Blocks /\ Len(b) = 0
    BY <2>2 DEF Blocks
  <2>4. Bytes(b, 0) = 0
    BY <2>3, BytesAre
  <2>5. Within(b)
    BY <2>3, <2>4, OutputAssumption DEF Within
  <2>6. v \in Seen /\ v.ok = TRUE /\ v.lines = 0
    BY <2>2 DEF Seen
  <2>7. Balanced(b, 0, 0, 0, v)
    BY <2>3, <2>4, <2>5, <2>6 DEF Balanced
  <2> QED  BY <2>1, <2>2, <2>7 DEF Fits
<1>3. PICK m : m = [new_nhandle EXCEPT !.suspended = x]
  OBVIOUS
<1>4. Fits(m)
  BY <1>2, <1>3, FieldsFit
<1>5. nh' = [j \in DOMAIN nh \cup {i} |-> IF j = i THEN m ELSE nh[j]]
  BY <1>1, <1>3 DEF added
<1> QED  BY <1>4, <1>5 DEF Outputs

\* Steps after which the handles have the output they had, or are closed.
LEMMA QuietFits ==
  ASSUME Outputs(nh),
         \/ UNCHANGED nh
         \/ \E i : Close(i)
         \/ \E i, m : new_input(i, m, nh)
         \/ \E i \in DOMAIN tq : run_command(i)
         \/ \E i, b : set_connection_binary(i, b)
         \/ \E chunk, idle : read_chunk(chunk, idle)
         \/ \E l, outbound, print : new_connection(l, outbound, print)
  PROVE  Outputs(nh')
<1>1. CASE \E i : Close(i)
  BY <1>1, CloseFits DEF Close
<1>2. CASE \E i \in DOMAIN tq : run_command(i)
  <2>1. \/ nh' = nh
        \/ \E p : nh' = set_input_suspended(p, FALSE, nh)
    BY <1>2 DEF run_command
  <2> QED  BY <2>1, SuspendFits
<1>3. CASE \E i, b : set_connection_binary(i, b)
  <2>1. PICK i, b : nh' = [nh EXCEPT ![i] = [nh[i] EXCEPT !.binary = b]]
    BY <1>3 DEF set_connection_binary
  <2>2. i \in DOMAIN nh => Fits([nh[i] EXCEPT !.binary = b])
    BY FieldsFit DEF Outputs
  <2> QED  BY <2>1, <2>2, OneFits
<1>4. ASSUME NEW chunk, NEW idle, read_chunk(chunk, idle) PROVE Outputs(nh')
  <2>1. PICK i, n, m :
          /\ i = pc.h /\ n = pull_input(chunk, nh[i]).n
          /\ \/ nh' = [nh EXCEPT ![i] = n]
             \/ new_input(i, m, [nh EXCEPT ![i] = n])
    BY <1>4 DEF read_chunk
  <2>2. i \in DOMAIN nh => Fits(n)
    BY <2>1, PullFits DEF Outputs
  <2>3. Outputs([nh EXCEPT ![i] = n])
    BY <2>2, OneFits
  <2> QED  BY <2>1, <2>3, InputFits
<1> QED  BY <1>1, <1>2, <1>3, <1>4, InputFits, NewFits

LEMMA WriteSomeFits ==
  ASSUME Outputs(nh), write_some
  PROVE  Outputs(nh')
<1>1. PICK r \in push_output(nh[pc.h]) : nh' = [nh EXCEPT ![pc.h] = r.n]
  BY DEF write_some
<1>2. pc.h \in DOMAIN nh => Fits(r.n)
  BY PushFits DEF Outputs
<1> QED  BY <1>1, <1>2, OneFits

LEMMA NotifyFits ==
  ASSUME Outputs(nh), focus \in Focuses, NEW i, NEW len \in focus.outputs, NEW flush_ok,
         notify(i, len, flush_ok)
  PROVE  Outputs(nh')
<1>1. len \in Nat
  BY OutputsAssumption
<1>2. PICK n \in enqueue_output(len, flush_ok, nh[i]) : nh' = [nh EXCEPT ![i] = n]
  BY DEF notify
<1>3. i \in DOMAIN nh => Fits(n)
  BY <1>1, EnqueueFits DEF Outputs
<1> QED  BY <1>2, <1>3, OneFits

LEMMA LoginFits ==
  ASSUME Outputs(nh), NEW u, player_connected(u)
  PROVE  Outputs(nh')
<1>1. CASE UNCHANGED nh
  BY <1>1
<1>2. CASE ~ UNCHANGED nh
  <2>1. PICK i, e, n : /\ n \in sent_message(i, nh)
                       /\ nh' = existing_closed(e, [nh EXCEPT ![i] = n])
    BY <1>2 DEF player_connected, handles
  <2>2. ASSUME i \in DOMAIN nh PROVE Fits(n)
    <3>1. Fits(nh[i])
      BY <2>2 DEF Outputs
    <3>2. n = nh[i] \/ n \in enqueue_output(1, TRUE, nh[i])
      BY <2>1 DEF sent_message
    <3> QED  BY <3>1, <3>2, EnqueueFits
  <2>3. Outputs([nh EXCEPT ![i] = n])
    BY <2>2, OneFits
  <2> QED  BY <2>1, <2>3, CloseFits DEF existing_closed
<1> QED  BY <1>1, <1>2

\* The bounds of a behaviour stay.
LEMMA FocusStays == [Next]_vars => UNCHANGED focus
<1> SUFFICES ASSUME [Next]_vars PROVE UNCHANGED focus
  OBVIOUS
<1>1. CASE Restart \/ Others \/ UNCHANGED vars
  BY <1>1 DEF Restart, Others, vars, server, world
<1>2. ASSUME MainLoop PROVE UNCHANGED focus
  <2>1. CASE \/ notify_saved \/ checkpoint_started \/ db_flush
             \/ accept_new_connection \/ accept_nothing
             \/ read_nothing \/ write_nothing
    BY <2>1 DEF notify_saved, checkpoint_started, db_flush, accept_new_connection,
                accept_nothing, read_nothing, write_nothing, world
  <2>2. CASE read_fails \/ write_some
    BY <2>2 DEF read_fails, write_some, server_close, world
  <2>3. CASE \E chunk \in focus.chunks, idle \in BOOLEAN : read_chunk(chunk, idle)
    BY <2>3 DEF read_chunk, world
  <2>4. CASE \/ \E i \in DOMAIN tq : run_command(i)
             \/ run_in_background \/ run_nothing \/ free_tqueues
             \/ sweep_notified \/ sweep_recycled \/ sweep_kept
    BY <2>4 DEF run_command, run_in_background, run_nothing, free_tqueues,
                sweep_notified, sweep_recycled, sweep_kept, world
  <2>5. CASE returned \/ unidled \/ closed \/ dropped \/ redirected
    BY <2>5 DEF returned, unidled, closed, dropped, redirected, world
  <2>6. CASE \E u \in Users : player_connected(u)
    BY <2>6 DEF player_connected
  <2> QED  BY <1>2, <2>1, <2>2, <2>3, <2>4, <2>5, <2>6 DEF MainLoop
<1>3. ASSUME BuiltIn PROVE UNCHANGED focus
  BY <1>3 DEF BuiltIn, boot_player, notify, set_connection_binary, force_input,
              open_network_connection, outbound_connection, listen, unlisten, recycle, world
<1>4. ASSUME Lookups PROVE UNCHANGED focus
  BY <1>4 DEF Lookups, mplex_wait, check_registered_fds, accept_asks, open_asks,
              name_lookup_call, kill_task, server, world
<1>5. CASE opened \/ accepted
  BY <1>5 DEF opened, accepted, accept_new_connection, outbound_connection, world
<1> QED  BY <1>1, <1>2, <1>3, <1>4, <1>5 DEF Next, Server

LEMMA OutputsStep == focus \in Focuses /\ Outputs(nh) /\ [Next]_vars => Outputs(nh')
<1> SUFFICES ASSUME focus \in Focuses, Outputs(nh), [Next]_vars PROVE Outputs(nh')
  OBVIOUS
<1>1. CASE Restart
  BY <1>1 DEF Restart, Outputs, no_handles
<1>2. CASE Others \/ UNCHANGED vars
  BY <1>2 DEF Others, vars, server, handles
<1>3. ASSUME MainLoop PROVE Outputs(nh')
  <2>1. CASE \/ notify_saved \/ checkpoint_started \/ db_flush \/ accept_nothing
             \/ read_nothing \/ read_fails \/ write_nothing
             \/ run_in_background \/ run_nothing \/ free_tqueues
             \/ sweep_notified \/ sweep_kept \/ returned \/ redirected
    BY <2>1 DEF notify_saved, checkpoint_started, db_flush, accept_nothing, read_nothing,
                read_fails, write_nothing, run_in_background, run_nothing, free_tqueues,
                sweep_notified, sweep_kept, returned, redirected, handles
  <2>2. CASE accept_new_connection
    <3>1. \E l, outbound, print : new_connection(l, outbound, print)
      BY <2>2 DEF accept_new_connection
    <3> QED  BY <3>1, QuietFits
  <2>3. CASE sweep_recycled \/ closed \/ dropped
    <3>1. \E i : Close(i)
      BY <2>3 DEF sweep_recycled, closed, dropped
    <3> QED  BY <3>1, QuietFits
  <2>4. CASE unidled
    <3>1. \E i, m : new_input(i, m, nh)
      BY <2>4 DEF unidled
    <3> QED  BY <3>1, QuietFits
  <2>5. CASE \/ \E chunk \in focus.chunks, idle \in BOOLEAN : read_chunk(chunk, idle)
             \/ \E i \in DOMAIN tq : run_command(i)
    <3>1. \/ \E chunk, idle : read_chunk(chunk, idle)
          \/ \E i \in DOMAIN tq : run_command(i)
      BY <2>5
    <3> QED  BY <3>1, QuietFits
  <2> QED  BY <1>3, <2>1, <2>2, <2>3, <2>4, <2>5, WriteSomeFits, LoginFits DEF MainLoop
<1>4. ASSUME NEW l, outbound_connection(l) PROVE Outputs(nh')
  <2>1. \E k, outbound, print : new_connection(k, outbound, print)
    BY <1>4 DEF outbound_connection
  <2> QED  BY <2>1, QuietFits
<1>5. ASSUME BuiltIn PROVE Outputs(nh')
  <2>1. CASE \E i \in DOMAIN sh : \E len \in focus.outputs, flush_ok \in BOOLEAN :
               notify(i, len, flush_ok)
    BY <2>1, NotifyFits
  <2>2. CASE \E i \in DOMAIN sh : \E do_binary \in BOOLEAN : set_connection_binary(i, do_binary)
    <3>1. \E i, b : set_connection_binary(i, b)
      BY <2>2
    <3> QED  BY <3>1, QuietFits
  <2>3. CASE \E i \in DOMAIN tq : force_input(i)
    <3>1. \E i, m : new_input(i, m, nh)
      BY <2>3 DEF force_input
    <3> QED  BY <3>1, QuietFits
  <2>4. CASE \E l \in {NOTHING, SYSTEM_OBJECT, PORT} : open_network_connection(l)
    BY <1>4, <2>4 DEF open_network_connection
  <2>5. CASE \/ \E i \in DOMAIN sh : boot_player(i)
             \/ listen \/ unlisten \/ \E u \in Users : recycle(u)
    BY <2>5 DEF boot_player, listen, unlisten, recycle, handles
  <2> QED  BY <1>5, <2>1, <2>2, <2>3, <2>4, <2>5 DEF BuiltIn
<1>6. ASSUME Lookups PROVE Outputs(nh')
  BY <1>6 DEF Lookups, mplex_wait, check_registered_fds, accept_asks, open_asks,
              name_lookup_call, kill_task, server, handles
<1>7. CASE opened
  <2>1. outbound_connection(asked.listener) \/ UNCHANGED nh
    BY <1>7 DEF opened, handles
  <2> QED  BY <1>4, <2>1
<1>8. CASE accepted
  <2>1. \E l, outbound, print : new_connection(l, outbound, print)
    BY <1>8 DEF accepted, accept_new_connection
  <2> QED  BY <2>1, QuietFits
<1> QED  BY <1>1, <1>2, <1>3, <1>5, <1>6, <1>7, <1>8 DEF Next, Server

\* A client gets the lines sent to it in order, and is told of each line that
\* was dropped for want of room, however the queue is written and flushed, and
\* whichever parts of it each write() takes (net_multi.c:467).
THEOREM OutputIsAccounted == Spec => []OutputAccounted
<1> DEFINE Inv == focus \in Focuses /\ Outputs(nh)
<1>1. Init => Inv
  BY DEF Init, Outputs, no_handles
<1>2. Inv /\ [Next]_vars => Inv'
  <2>1. Outputs(nh)' <=> Outputs(nh')
    BY DEF Outputs
  <2> QED  BY FocusStays, OutputsStep, <2>1
<1>3. Inv => OutputAccounted
  <2> SUFFICES ASSUME Outputs(nh), NEW i \in DOMAIN nh PROVE Accounted(nh[i])
    BY DEF OutputAccounted
  <2>1. PICK n : n = nh[i] /\ Fits(n)
    BY DEF Outputs
  <2>2. n.output \in Blocks /\ DOMAIN n.output = 1 .. Len(n.output)
    BY <2>1, BlocksAre DEF Fits, Balanced
  <2>3. Balanced(n.output, n.length, n.flushed, n.sent, n.seen)
    BY <2>1 DEF Fits
  <2>4. Accounted(n)
    BY <2>2, <2>3 DEF Accounted, Balanced, Within
  <2> QED  BY <2>1, <2>4
<1>4. Spec => []Inv
  BY <1>1, <1>2, PTL DEF Spec
<1> QED  BY <1>3, <1>4, PTL
=============================================================================
