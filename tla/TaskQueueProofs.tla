-------------------------- MODULE TaskQueueProofs --------------------------
(***************************************************************************)
(* Proofs about where the queues and the tasks of module TaskScheduler     *)
(* are, and about the queues as data.  A queue with work is on the active  *)
(* list, but for what a connection that logged in leaves (ReadyIsActive);  *)
(* a task is in one place only (OnePlace).  With that: the lists stay in   *)
(* their order (ListsSorted), num_bg_tasks is exact and the limit is kept  *)
(* (CountExact, QuotaKept), and no task is lost (NoTaskVanishes).          *)
(***************************************************************************)
EXTENDS TaskSchedulerProofs, InductionFacts

-----------------------------------------------------------------------------
(* Queues with work *)

Work(q) ==
  \/ bg[q] # << >> /\ ~Detached(q)
  \/ input[q] > 0
  \/ reading[q] # NoTask /\ OutOfInput(q)

\* ReadyIsActive, told by the NO_USAGE mark instead of the list.
Awake == \A q \in Tqs : Work(q) => usage[q] # NO_USAGE

\* The second look at the first queue, after an empty command, does not test
\* for a read() that nobody can answer: there is none.
HeadReads ==
  /\ phase = "again" => current_task_id = NoTask
  /\ (/\ phase \in {"prompt", "again"} /\ active_tqueues # << >>
      /\ reading[Head(active_tqueues)] # NoTask)
       => current_task_id = NoTask /\ ~OutOfInput(Head(active_tqueues))

ReadyInv == Awake /\ HeadReads

-----------------------------------------------------------------------------
(* ensure_usage() and the marks *)

UsageKept == \A q \in Tqs : usage[q] # NO_USAGE => usage'[q] # NO_USAGE

\* ensure_usage() marks its queue and takes no mark away, and the first queue
\* stays first.
LEMMA EnsureUsageMarks ==
  ASSUME NEW q \in Tqs, CoreInv, EnsureUsage(q)
  PROVE  /\ UsageKept /\ usage'[q] # NO_USAGE
         /\ active_tqueues # << >>
              => Head(active_tqueues') = Head(active_tqueues)
<1>1. TypeOK /\ ActiveListExact
  BY DEF CoreInv
<1>2. /\ \A r \in Tqs : On(active_tqueues', r) <=> usage'[r] # NO_USAGE
      /\ \A r \in Tqs : On(active_tqueues', r)
                          <=> On(active_tqueues, r) \/ r = q
      /\ active_tqueues # << >>
           => Head(active_tqueues') = Head(active_tqueues)
  BY <1>1, EnsureUsageList
<1>3. \A r \in Tqs : On(active_tqueues, r) <=> usage[r] # NO_USAGE
  BY <1>1 DEF ActiveListExact, OnActive, On
<1>4. QED  BY <1>2, <1>3 DEF UsageKept

\* find_tqueue() gives a queue to no address that has one already.
LEMMA FoundPlayers ==
  ASSUME CoreInv, NEW q \in Tqs, NEW p, FindOrCreate(q, p),
         player' = [player EXCEPT ![q] = p]
  PROVE  /\ \A r \in Tqs : player'[r] = player[r] \/ player[r] = FREE
         /\ player'[q] = p /\ player' \in [Tqs -> Players \cup {NOTHING, FREE, p}]
BY DEF CoreInv, TypeOK, FindOrCreate, Find

\* What a step has to do to leave no queue asleep with work.
LEMMA AwakeKept ==
  ASSUME Awake, UsageKept,
         \A q \in Tqs : Work(q)' => Work(q) \/ usage'[q] # NO_USAGE
  PROVE  Awake'
BY DEF Awake, UsageKept

\* A step that neither gives a queue work nor touches the marks; a queue may
\* have been allocated.
LEMMA AwakeSame ==
  ASSUME CoreInv, Awake, UNCHANGED <<bg, reading, connected, input, usage>>,
         \A q \in Tqs : player'[q] = player[q] \/ player[q] = FREE
  PROVE  Awake'
<1>1. \A q \in Tqs : player[q] = FREE => bg[q] = << >>
  BY DEF CoreInv, FreeBlank
<1>2. QED  BY <1>1 DEF Awake, Work, OutOfInput, Detached

-----------------------------------------------------------------------------
(* A login *)

\* The queue of the connection is active; the queue the player had before is
\* emptied; the tasks of the connection get a queue of their own, which is
\* the only one that may be given work while it is idle.
LEMMA LoginLists ==
  ASSUME CoreInv, OneQueuePerPlayer,
         NEW u \in Users, NEW old \in Tqs, LoginTask(u, old)
  PROVE  /\ running_tq \in Tqs /\ usage[running_tq] # NO_USAGE
         /\ \A r \in Tqs : r # running_tq /\ bg'[r] # << >> =>
              \/ bg'[r] = bg[r] /\ player'[r] = player[r]
              \/ player'[r] \in Conns /\ ~connected'[r]
         /\ \/ UNCHANGED <<usage, input, connected>>
            \/ \E d \in Tqs :
                 /\ d # running_tq /\ bg'[d] = << >>
                 /\ input' = [input EXCEPT ![d] = 0]
                 /\ connected' = [connected EXCEPT ![d] = FALSE]
                 /\ EnsureUsageIf(connected[d] /\ reading[d] # NoTask, d)
<1> DEFINE q == running_tq
           dead == {d \in Tqs : player[d] = u}
           owns == OwnsTasks(q)
<1>1. TypeOK /\ FreeBlank /\ ActiveListExact /\ RunningIsHead
  BY DEF CoreInv
<1>2. active_tqueues # << >> /\ q = Head(active_tqueues)
  BY <1>1 DEF LoginTask, RunningIsHead
<1>3. q \in Tqs /\ usage[q] \in Nat /\ player[q] \in Conns /\ player[old] = FREE
  BY <1>1, <1>2, HeadIsQueue DEF LoginTask
<1>4. bg[old] = << >> /\ ~connected[old]
  BY <1>1, <1>3 DEF FreeBlank
<1>5. u \in Players /\ u # FREE /\ u # player[q]
  BY <1>3, SetsAssumption DEF Players
<1>6. q # old /\ q \notin dead /\ old \notin dead
  BY <1>3, <1>5, SetsAssumption DEF Players
<1>7. bg \in [Tqs -> Seq(Ids)] /\ input \in [Tqs -> Nat]
      /\ connected \in [Tqs -> BOOLEAN]
  BY <1>1 DEF TypeOK
<1>8. /\ connected' = [r \in Tqs |-> connected[r] /\ r \notin dead]
      /\ input' = [r \in Tqs |-> IF r \in dead THEN 0 ELSE input[r]]
      /\ player' = [r \in Tqs |-> CASE r = q -> u
                                  [] r \in dead -> NOTHING
                                  [] r = old /\ owns -> player[q]
                                  [] OTHER -> player[r]]
  BY DEF LoginTask
<1>9. \A r \in Tqs : r # q /\ r \notin dead /\ (r # old \/ ~owns)
                    => player'[r] = player[r]
  <2> HIDE DEF dead, owns, q
  <2>1. QED  BY <1>8, Zenon
<1>10. owns => player'[old] = player[q] /\ ~connected'[old]
  <2> HIDE DEF dead, owns, q
  <2>1. owns => player'[old] = player[q]
    BY <1>6, <1>8
  <2>2. ~connected'[old]
    BY <1>4, <1>8
  <2>3. QED  BY <2>1, <2>2
<1>11. CASE dead = {}
  <2>1. /\ bg' = [bg EXCEPT ![old] = IF owns THEN bg[q] ELSE @,
                            ![q] = KeptBg(q)]
        /\ UNCHANGED usage
    BY <1>11 DEF LoginTask
  <2>2. input' = input /\ connected' = connected
    BY <1>7, <1>8, <1>11
  <2>3. \A r \in Tqs : r # q /\ r # old => bg'[r] = bg[r]
    BY <1>7, <2>1
  <2>4. ~owns => bg'[old] = bg[old]
    BY <1>3, <1>6, <1>7, <2>1
  <2>5. ASSUME NEW r \in Tqs, r # q
        PROVE  \/ bg'[r] = bg[r] /\ player'[r] = player[r]
               \/ player'[r] \in Conns /\ ~connected'[r]
    BY <1>3, <1>9, <1>10, <1>11, <2>3, <2>4, <2>5
  <2>6. q \in Tqs /\ usage[q] # NO_USAGE
    BY <1>3 DEF NO_USAGE
  <2> HIDE DEF dead
  <2>7. QED  BY <2>1, <2>2, <2>5, <2>6, Zenon
<1>12. CASE dead # {}
  <2>1. PICK d \in dead :
           /\ bg' = [bg EXCEPT ![old] = IF owns THEN bg[q] ELSE @,
                               ![q] = KeptBg(q) \o bg[d], ![d] = << >>]
           /\ EnsureUsageIf(connected[d] /\ reading[d] # NoTask, d)
    BY <1>12 DEF LoginTask
  <2>2. d \in Tqs /\ d # q /\ d # old /\ \A r \in Tqs : player[r] = u <=> r = d
    BY <1>5, <1>6 DEF OneQueuePerPlayer
  <2>3. /\ bg'[d] = << >>
        /\ \A r \in Tqs : r # q /\ r # old /\ r # d => bg'[r] = bg[r]
    BY <1>7, <2>1, <2>2
  <2>4. ~owns => bg'[old] = bg[old]
    BY <1>3, <1>6, <1>7, <2>1, <2>2
  <2>5. \A r \in Tqs : r \in dead <=> r = d
    BY <2>2
  <2>6. ASSUME NEW r \in Tqs, r # q, bg'[r] # << >>
        PROVE  \/ bg'[r] = bg[r] /\ player'[r] = player[r]
               \/ player'[r] \in Conns /\ ~connected'[r]
    <3>1. r # d /\ r \notin dead
      BY <2>3, <2>5, <2>6
    <3>2. CASE r = old /\ owns
      BY <1>3, <1>10, <3>2
    <3>3. CASE ~(r = old /\ owns)
      BY <1>9, <2>3, <2>4, <2>6, <3>1, <3>3
    <3>4. QED  BY <3>2, <3>3
  <2> HIDE DEF dead
  <2>7. input' = [input EXCEPT ![d] = 0]
    BY <1>7, <1>8, <2>5
  <2>8. connected' = [connected EXCEPT ![d] = FALSE]
    BY <1>7, <1>8, <2>5, Zenon
  <2>9. q \in Tqs /\ usage[q] # NO_USAGE
    BY <1>3 DEF NO_USAGE
  <2>10. QED
    BY <2>1, <2>2, <2>3, <2>6, <2>7, <2>8, <2>9, Zenon
<1>13. QED  BY <1>11, <1>12

-----------------------------------------------------------------------------
(* The second look at the first queue *)

\* read() is refused on a connection without input that is gone, and in a
\* prompt no other task can make the first queue's reader unanswerable.
LEMMA HeadReadsNext ==
  ASSUME CoreInv, HeadReads, Next
  PROVE  HeadReads'
<1>1. /\ TypeOK /\ RunningIsHead /\ ActiveListExact
      /\ reading \in [Tqs -> Ids \cup {NoTask}]
  BY DEF CoreInv, TypeOK
<1>0. PICK h : h = Head(active_tqueues)
  OBVIOUS
<1>2. ASSUME phase' \notin {"prompt", "again"} PROVE HeadReads'
  BY <1>2 DEF HeadReads
<1>3. phase = "prompt" => active_tqueues # << >> /\ h \in Tqs
                          /\ (Running => reading[h] = NoTask)
  BY <1>0, <1>1, HeadIsQueue DEF RunningIsHead, HeadReads, Running
<1>4. ASSUME phase' = phase, phase # "again",
             phase = "prompt" =>
               /\ Head(active_tqueues') = h
               /\ reading'[h] = NoTask
                    \/ (current_task_id' = NoTask /\ ~OutOfInput(h)')
      PROVE  HeadReads'
  <2>1. CASE phase = "prompt"
    <3>1. /\ phase' # "again" /\ Head(active_tqueues') = h
          /\ \/ reading'[h] = NoTask
             \/ current_task_id' = NoTask /\ ~OutOfInput(h)'
      BY <1>4, <2>1
    <3>2. OutOfInput(Head(active_tqueues))' <=> OutOfInput(h)'
      BY <3>1 DEF OutOfInput
    <3>3. QED  BY <3>1, <3>2 DEF HeadReads
  <2>2. CASE phase # "prompt"
    BY <1>2, <1>4, <2>2
  <2>3. QED  BY <2>1, <2>2
<1>5. Running => phase # "again"
  BY DEF HeadReads, Running
<1>6. ASSUME Running, UNCHANGED <<phase, active_tqueues>>,
             phase = "prompt" => reading'[h] = NoTask
      PROVE  HeadReads'
  BY <1>0, <1>4, <1>5, <1>6
<1>7. ASSUME NEW q \in Tqs, EnsureUsage(q), phase = "prompt"
      PROVE  Head(active_tqueues') = h
  BY <1>0, <1>3, <1>7, EnsureUsageMarks
<1>8. CASE NetworkStep
  BY <1>2, <1>8 DEF NetworkStep, NewConnection, InputLine, FlushCommand,
     FreeTaskQueue, ResumeExternal, Io, sched
<1>9. CASE SchedulerStep
  <2>1. CASE \E q \in Tqs : PickInput(q)
    <3>1. PICK q \in Tqs : PickInput(q)
      BY <2>1
    <3>2. q = h /\ UNCHANGED active_tqueues
      BY <1>0, <3>1 DEF PickInput, AtHead
    <3>3. \/ phase' \notin {"prompt", "again"}
          \/ phase' # "again" /\ reading'[q] = NoTask
      BY <1>1, <3>1 DEF PickInput
    <3>4. QED  BY <1>0, <1>2, <3>2, <3>3 DEF HeadReads
  <2>2. CASE EmptyCommand
    BY <1>3, <2>2 DEF EmptyCommand, HeadReads, OutOfInput, queues
  <2>3. CASE phase' \notin {"prompt", "again"}
    BY <1>2, <2>3
  <2>4. QED
    BY <1>9, <2>1, <2>2, <2>3 DEF SchedulerStep, RunReadyTasks, MoveDue,
       MoveDone, PickOutOfInput, PickNone, PickBg, PickNothing, Command,
       TaskDone, FreeTqueue, SweepDone, sched
<1>10. CASE TaskStep
  <2>1. CASE \E p \in Users \cup opened : MakeReadingTask(p)
    <3>1. PICK q \in Tqs :
            /\ Running /\ UNCHANGED <<phase, connected, input>>
            /\ reading[q] = NoTask /\ ~OutOfInput(q)
            /\ reading' = [reading EXCEPT ![q] = current_task_id]
            /\ EnsureUsageIf(input[q] > 0, q)
            /\ current_task_id' = NoTask
      BY <2>1 DEF MakeReadingTask
    <3>2. phase = "prompt" => Head(active_tqueues') = h
      BY <1>0, <1>7, <3>1 DEF EnsureUsageIf
    <3>3. phase = "prompt" => reading'[h] = NoTask \/ ~OutOfInput(h)'
      <4>1. CASE q = h
        BY <3>1, <4>1 DEF OutOfInput
      <4>2. CASE q # h
        BY <1>1, <1>3, <3>1, <4>2
      <4>3. QED  BY <4>1, <4>2
    <3>4. QED  BY <1>4, <1>5, <3>1, <3>2, <3>3
  <2>2. CASE \E p \in Users \cup opened : ForceInput(p)
    <3>1. PICK q \in Tqs : EnsureUsage(q) /\ Running
                           /\ UNCHANGED <<phase, reading>>
      BY <2>2 DEF ForceInput, sched
    <3>2. QED  BY <1>3, <1>4, <1>5, <1>7, <3>1
  <2>3. CASE \E i \in 1 .. Len(waiting_tasks) : DoResume(i)
    <3>1. PICK q \in Tqs : EnsureUsage(q) /\ Running
                           /\ UNCHANGED <<phase, reading>>
      BY <2>3 DEF DoResume, sched
    <3>2. QED  BY <1>3, <1>4, <1>5, <1>7, <3>1
  <2>4. CASE \E q \in Tqs : KillReading(q)
    <3>1. PICK q \in Tqs : KillReading(q)
      BY <2>4
    <3>2. /\ Running /\ UNCHANGED <<phase, active_tqueues>>
          /\ phase = "prompt" => reading'[h] = NoTask
      BY <1>1, <1>3, <3>1 DEF KillReading, queues, sched
    <3>3. QED  BY <1>6, <3>2
  <2>5. CASE \E u \in Users, old \in Tqs : LoginTask(u, old)
    BY <1>2, <2>5 DEF LoginTask
  <2>6. CASE Running /\ UNCHANGED <<phase, active_tqueues, reading>>
    BY <1>3, <1>6, <2>6
  <2>7. QED
    BY <1>10, <2>1, <2>2, <2>3, <2>4, <2>5, <2>6 DEF TaskStep, Fork,
       Suspend, ReadInputNow, FlushInput, SuspendExternally, KillWaiting,
       KillBg, KillExternal, Finish, queues, sched
<1>11. CASE Tick
  <2>1. CASE Running
    <3>1. UNCHANGED <<phase, active_tqueues, reading>>
      BY <1>11 DEF Tick, queues, sched
    <3>2. QED  BY <1>3, <1>6, <2>1, <3>1
  <2>2. CASE ~Running
    BY <1>2, <1>11, <2>2 DEF Tick, Running, sched
  <2>3. QED  BY <2>1, <2>2
<1>12. CASE \/ \E p \in Progrs : StartServerTask(p)
            \/ Restart \/ LoadTask \/ LoadDone
  BY <1>2, <1>12 DEF StartServerTask, Restart, LoadTask, LoadDone, sched
<1>13. QED
  BY <1>8, <1>9, <1>10, <1>11, <1>12 DEF Next

-----------------------------------------------------------------------------
(* No queue sleeps with work *)

\* A step that gives at most the queue ensure_usage() marks something to do.
LEMMA AwakeEnsured ==
  ASSUME CoreInv, Awake, NEW q \in Tqs, EnsureUsage(q),
         \A r \in Tqs : r # q =>
           /\ player'[r] = player[r]
           /\ bg'[r] = bg[r] /\ input'[r] = input[r]
           /\ reading'[r] = reading[r] /\ connected'[r] = connected[r]
  PROVE  Awake'
<1>1. UsageKept /\ usage'[q] # NO_USAGE
  BY EnsureUsageMarks
<1>2. \A r \in Tqs : Work(r)' => Work(r) \/ usage'[r] # NO_USAGE
  BY <1>1 DEF Work, OutOfInput, Detached
<1>3. QED  BY <1>1, <1>2, AwakeKept

\* A step of the network keeps the queues awake.
LEMMA AwakeNetwork ==
  ASSUME CoreInv, Awake, NetworkStep
  PROVE  Awake'
<1>1. /\ bg \in [Tqs -> Seq(Ids)] /\ input \in [Tqs -> Nat]
      /\ reading \in [Tqs -> Ids \cup {NoTask}]
      /\ connected \in [Tqs -> BOOLEAN]
      /\ player \in [Tqs -> Players \cup {NOTHING, FREE}]
  BY DEF CoreInv, TypeOK
<1>2. CASE \E c \in Conns : NewConnection(c)
  <2>1. PICK q \in Tqs :
          /\ EnsureUsage(q) /\ UNCHANGED <<bg, reading>>
          /\ input' = [input EXCEPT ![q] = @ + 1]
          /\ connected' = [connected EXCEPT ![q] = TRUE]
          /\ \E c : player' = [player EXCEPT ![q] = c]
    BY <1>2 DEF NewConnection
  <2>2. QED  BY <1>1, <2>1, AwakeEnsured
<1>3. CASE \E q \in Tqs : InputLine(q)
  <2>1. PICK q \in Tqs :
          /\ EnsureUsage(q) /\ UNCHANGED <<player, bg, reading, connected>>
          /\ input' = [input EXCEPT ![q] = @ + 1]
    BY <1>3 DEF InputLine
  <2>2. QED  BY <1>1, <2>1, AwakeEnsured
<1>4. CASE \E q \in Tqs : FlushCommand(q)
  <2>1. PICK q \in Tqs :
          /\ connected[q]
          /\ UNCHANGED <<player, bg, reading, connected, usage>>
          /\ input' = [input EXCEPT ![q] = 0]
    BY <1>4 DEF FlushCommand
  <2>2. QED  BY <1>1, <2>1 DEF Awake, Work, OutOfInput, Detached
<1>5. CASE \E q \in Tqs : FreeTaskQueue(q)
  <2>1. PICK q \in Tqs :
          /\ UNCHANGED <<player, bg, reading, input>>
          /\ connected' = [connected EXCEPT ![q] = FALSE]
          /\ EnsureUsageIf(reading[q] # NoTask, q)
    BY <1>5 DEF FreeTaskQueue
  <2>2. CASE reading[q] # NoTask
    BY <1>1, <2>1, <2>2, AwakeEnsured DEF EnsureUsageIf
  <2>3. CASE reading[q] = NoTask
    <3>1. UNCHANGED usage
      BY <2>1, <2>3 DEF EnsureUsageIf
    <3>2. QED
      BY <1>1, <2>1, <2>3, <3>1 DEF Awake, Work, OutOfInput, Detached
  <2>4. QED  BY <2>2, <2>3
<1>6. CASE \E id \in Ids : ResumeExternal(id)
  <2>1. PICK q \in Tqs, id \in Ids :
          /\ EnsureUsage(q) /\ UNCHANGED <<reading, input, connected>>
          /\ bg' = [bg EXCEPT ![q] = Append(@, id)]
          /\ player' = [player EXCEPT ![q] = task[id].progr]
    BY <1>6 DEF ResumeExternal
  <2>2. QED  BY <1>1, <2>1, AwakeEnsured
<1>7. QED  BY <1>2, <1>3, <1>4, <1>5, <1>6 DEF NetworkStep

\* A step of run_ready_tasks() takes a queue off the list only when it has
\* looked at everything the queue could have to do.
LEMMA AwakeScheduler ==
  ASSUME CoreInv, CoreInv', Awake, HeadReads, SchedulerStep
  PROVE  Awake'
<1>1. /\ bg \in [Tqs -> Seq(Ids)] /\ input \in [Tqs -> Nat]
      /\ reading \in [Tqs -> Ids \cup {NoTask}]
      /\ connected \in [Tqs -> BOOLEAN]
      /\ player \in [Tqs -> Players \cup {NOTHING, FREE}]
      /\ usage \in [Tqs -> Nat \cup {NO_USAGE}]
      /\ TypeOK /\ ActiveListExact /\ RunningIsHead
  BY DEF CoreInv, TypeOK
<1>2. CASE MoveDue
  <2>1. PICK q \in Tqs :
          /\ EnsureUsage(q) /\ UNCHANGED <<reading, input, connected>>
          /\ bg' = [bg EXCEPT ![q] = Append(@, Head(waiting_tasks))]
          /\ \E p : player' = [player EXCEPT ![q] = p]
    BY <1>2 DEF MoveDue
  <2>2. QED  BY <1>1, <2>1, AwakeEnsured
<1>3. CASE PickOutOfInput
  <2>1. LET q == Head(active_tqueues)
        IN reading' = [reading EXCEPT ![q] = NoTask]
    BY <1>3 DEF PickOutOfInput
  <2>2. UNCHANGED <<player, bg, input, connected, usage>>
    BY <1>3 DEF PickOutOfInput
  <2>3. QED  BY <1>1, <2>1, <2>2 DEF Awake, Work, OutOfInput, Detached
<1>4. CASE \E q \in Tqs : PickInput(q)
  <2>1. PICK q \in Tqs : PickInput(q)
    BY <1>4
  <2>2. /\ UNCHANGED <<player, bg, connected, usage>>
        /\ input' = [input EXCEPT ![q] = @ - 1] /\ input[q] > 0
        /\ \A r \in Tqs : reading'[r] = reading[r] \/ reading'[r] = NoTask
    BY <1>1, <2>1 DEF PickInput
  <2>3. \A r \in Tqs : Work(r)' => Work(r)
    BY <1>1, <2>2 DEF Work, OutOfInput, Detached
  <2>4. QED  BY <2>2, <2>3 DEF Awake
<1>5. CASE \E q \in Tqs : PickBg(q)
  <2>1. PICK q \in Tqs : PickBg(q)
    BY <1>5
  <2>2. /\ UNCHANGED <<player, reading, input, connected, usage>>
        /\ bg' = [bg EXCEPT ![q] = Tail(@)] /\ bg[q] # << >>
    BY <2>1 DEF PickBg
  <2>3. \A r \in Tqs : Work(r)' => Work(r)
    BY <1>1, <2>2 DEF Work, OutOfInput, Detached
  <2>4. QED  BY <2>2, <2>3 DEF Awake
<1>6. CASE \E q \in Tqs : PickNothing(q)
  <2>1. PICK q \in Tqs : PickNothing(q)
    BY <1>6
  <2>2. /\ UNCHANGED <<player, bg, reading, input, connected>>
        /\ usage' = [usage EXCEPT ![q] = NO_USAGE]
        /\ input[q] = 0 /\ bg[q] = << >> /\ q = Head(active_tqueues)
        /\ active_tqueues # << >> /\ phase \in {"pick", "again"}
        /\ phase = "pick" => ~(reading[q] # NoTask /\ OutOfInput(q))
    BY <2>1 DEF PickNothing, AtHead
  <2>3. ~(reading[q] # NoTask /\ OutOfInput(q))
    BY <2>2 DEF HeadReads
  <2>4. ~Work(q)
    BY <2>2, <2>3 DEF Work
  <2>5. \A r \in Tqs : Work(r)' => Work(r)
    BY <2>2 DEF Work, OutOfInput, Detached
  <2>6. QED  BY <1>1, <2>2, <2>4, <2>5 DEF Awake
<1>7. CASE \E secs \in 0 .. MaxUsage : TaskDone(secs)
  <2>1. PICK secs \in 0 .. MaxUsage : TaskDone(secs)
    BY <1>7
  <2>2. /\ UNCHANGED <<player, bg, reading, input, connected>>
        /\ usage' = [usage EXCEPT ![running_tq] = usage[running_tq] + secs]
    BY <2>1 DEF TaskDone
  <2>3. running_tq \in Tqs /\ usage[running_tq] \in Nat
    BY <1>1, <2>1, HeadIsQueue DEF TaskDone, RunningIsHead
  <2>4. usage[running_tq] + secs # NO_USAGE
    BY <2>3, BoundsAssumption DEF NO_USAGE
  <2>5. UsageKept
    BY <1>1, <2>2, <2>4 DEF UsageKept
  <2>6. \A r \in Tqs : Work(r)' => Work(r)
    BY <2>2 DEF Work, OutOfInput, Detached
  <2>7. QED  BY <2>5, <2>6, AwakeKept
<1>8. CASE \E q \in Tqs : FreeTqueue(q)
  <2>1. PICK q \in Tqs : FreeTqueue(q)
    BY <1>8
  <2>2. /\ UNCHANGED <<input, connected, usage>> /\ input[q] = 0
        /\ reading' = [reading EXCEPT ![q] = NoTask]
        /\ bg' = [bg EXCEPT ![q] = << >>]
        /\ player' = [player EXCEPT ![q] = FREE]
    BY <2>1 DEF FreeTqueue, Unneeded
  <2>3. \A r \in Tqs : Work(r)' => Work(r)
    BY <1>1, <2>2 DEF Work, OutOfInput, Detached
  <2>4. QED  BY <2>2, <2>3 DEF Awake
<1>9. CASE UNCHANGED <<player, bg, reading, connected, input, usage>>
  BY <1>9, AwakeSame
<1>10. QED
  BY <1>2, <1>3, <1>4, <1>5, <1>6, <1>7, <1>8, <1>9
     DEF SchedulerStep, RunReadyTasks, MoveDone, PickNone, EmptyCommand,
         Command, SweepDone, queues

\* A queue superseded by a login is marked if a read() blocks on it.
LEMMA AwakeLogin ==
  ASSUME CoreInv, OneQueuePerPlayer, Awake,
         NEW u \in Users, NEW old \in Tqs, LoginTask(u, old)
  PROVE  Awake'
<1>1. /\ input \in [Tqs -> Nat] /\ connected \in [Tqs -> BOOLEAN]
  BY DEF CoreInv, TypeOK
<1>2. PICK q \in Tqs : q = running_tq
  BY LoginLists
<1>3. /\ usage[q] # NO_USAGE
      /\ \A r \in Tqs : r # q /\ bg'[r] # << >> =>
           \/ bg'[r] = bg[r] /\ player'[r] = player[r]
           \/ player'[r] \in Conns /\ ~connected'[r]
      /\ \/ UNCHANGED <<usage, input, connected>>
         \/ \E d \in Tqs :
              /\ d # q /\ bg'[d] = << >>
              /\ input' = [input EXCEPT ![d] = 0]
              /\ connected' = [connected EXCEPT ![d] = FALSE]
              /\ EnsureUsageIf(connected[d] /\ reading[d] # NoTask, d)
  BY <1>2, LoginLists
<1>4. UNCHANGED reading
  BY DEF LoginTask
<1>5. CASE UNCHANGED <<usage, input, connected>>
  <2>1. \A r \in Tqs : Work(r)' => Work(r) \/ usage'[r] # NO_USAGE
    BY <1>3, <1>4, <1>5 DEF Work, OutOfInput, Detached
  <2>2. QED  BY <1>5, <2>1, AwakeKept DEF UsageKept
<1>6. ASSUME NEW d \in Tqs, d # q, bg'[d] = << >>,
             input' = [input EXCEPT ![d] = 0],
             connected' = [connected EXCEPT ![d] = FALSE],
             EnsureUsageIf(connected[d] /\ reading[d] # NoTask, d)
      PROVE  Awake'
  <2>1. UsageKept
    BY <1>6, EnsureUsageMarks DEF EnsureUsageIf, UsageKept
  <2>2. usage'[q] # NO_USAGE
    BY <1>3, <2>1 DEF UsageKept
  <2>3. Work(d)' => Work(d) \/ usage'[d] # NO_USAGE
    <3>1. Work(d)' => reading[d] # NoTask
      BY <1>1, <1>4, <1>6 DEF Work
    <3>2. reading[d] # NoTask /\ ~connected[d] => Work(d)
      BY <1>1 DEF Work, OutOfInput
    <3>3. reading[d] # NoTask /\ connected[d] => usage'[d] # NO_USAGE
      BY <1>6, EnsureUsageMarks DEF EnsureUsageIf
    <3>4. QED  BY <3>1, <3>2, <3>3
  <2>4. ASSUME NEW r \in Tqs, r # d, r # q
        PROVE  Work(r)' => Work(r)
    BY <1>1, <1>3, <1>4, <1>6, <2>4 DEF Work, OutOfInput, Detached
  <2>5. QED  BY <2>1, <2>2, <2>3, <2>4, AwakeKept
<1>7. QED  BY <1>3, <1>5, <1>6

\* The built-ins a task calls keep the queues awake.
LEMMA AwakeTask ==
  ASSUME CoreInv, OneQueuePerPlayer, Awake, TaskStep
  PROVE  Awake'
<1>1. /\ bg \in [Tqs -> Seq(Ids)] /\ input \in [Tqs -> Nat]
      /\ reading \in [Tqs -> Ids \cup {NoTask}]
      /\ connected \in [Tqs -> BOOLEAN]
      /\ player \in [Tqs -> Players \cup {NOTHING, FREE}]
  BY DEF CoreInv, TypeOK
<1>2. CASE \E p \in Users \cup opened : MakeReadingTask(p)
  <2>1. PICK q \in Tqs :
          /\ UNCHANGED <<player, bg, connected, input>> /\ ~OutOfInput(q)
          /\ reading' = [reading EXCEPT ![q] = current_task_id]
          /\ EnsureUsageIf(input[q] > 0, q)
    BY <1>2 DEF MakeReadingTask
  <2>2. CASE input[q] > 0
    BY <1>1, <2>1, <2>2, AwakeEnsured DEF EnsureUsageIf
  <2>3. CASE ~(input[q] > 0)
    <3>1. UNCHANGED usage
      BY <2>1, <2>3 DEF EnsureUsageIf
    <3>2. \A r \in Tqs : OutOfInput(r)' <=> OutOfInput(r)
      BY <2>1 DEF OutOfInput
    <3>3. \A r \in Tqs : Work(r)' => Work(r)
      BY <1>1, <2>1, <3>2 DEF Work, Detached
    <3>4. QED  BY <3>1, <3>3 DEF Awake
  <2>4. QED  BY <2>2, <2>3
<1>3. CASE \E p \in Users \cup opened : ReadInputNow(p) \/ FlushInput(p)
  <2>1. PICK q \in Tqs, p \in Users \cup opened :
          /\ UNCHANGED <<bg, reading, connected, usage>>
          /\ \/ /\ input[q] > 0 /\ input' = [input EXCEPT ![q] = @ - 1]
                /\ UNCHANGED player
             \/ /\ FindOrCreate(q, p) /\ input' = [input EXCEPT ![q] = 0]
                /\ player' = [player EXCEPT ![q] = p]
    BY <1>3 DEF ReadInputNow, FlushInput
  <2>2. \A r \in Tqs : player'[r] = player[r] \/ player[r] = FREE
    BY <2>1, FoundPlayers
  <2>3. \A r \in Tqs : player[r] = FREE => bg[r] = << >> /\ reading[r] = NoTask
    BY DEF CoreInv, FreeBlank
  <2>4. \A r \in Tqs : (input'[r] > 0 => input[r] > 0)
                      /\ (r # q => input'[r] = input[r])
    BY <1>1, <2>1
  <2>5. \A r \in Tqs : Work(r)' => Work(r)
    BY <1>1, <2>1, <2>2, <2>3, <2>4 DEF Work, OutOfInput, Detached
  <2>6. QED  BY <2>1, <2>5 DEF Awake
<1>4. CASE \E p \in Users \cup opened : ForceInput(p)
  <2>1. PICK q \in Tqs, p \in Users \cup opened :
          /\ EnsureUsage(q) /\ UNCHANGED <<bg, reading, connected>>
          /\ input' = [input EXCEPT ![q] = @ + 1]
          /\ player' = [player EXCEPT ![q] = p]
    BY <1>4 DEF ForceInput
  <2>2. QED  BY <1>1, <2>1, AwakeEnsured
<1>5. CASE \E i \in 1 .. Len(waiting_tasks) : DoResume(i)
  <2>1. PICK q \in Tqs, i \in 1 .. Len(waiting_tasks) :
          /\ EnsureUsage(q) /\ UNCHANGED <<reading, input, connected>>
          /\ bg' = [bg EXCEPT ![q] = Append(@, waiting_tasks[i])]
          /\ \E p : player' = [player EXCEPT ![q] = p]
    BY <1>5 DEF DoResume
  <2>2. QED  BY <1>1, <2>1, AwakeEnsured
<1>6. CASE \E q \in Tqs : KillReading(q)
  <2>1. PICK q \in Tqs :
          /\ reading' = [reading EXCEPT ![q] = NoTask]
          /\ UNCHANGED <<player, bg, input, connected, usage>>
    BY <1>6 DEF KillReading
  <2>2. QED  BY <1>1, <2>1 DEF Awake, Work, OutOfInput, Detached
<1>7. CASE \E q \in Tqs : \E i \in 1 .. Len(bg[q]) : KillBg(q, i)
  <2>0. PICK q \in Tqs : \E i \in 1 .. Len(bg[q]) : KillBg(q, i)
    BY <1>7
  <2>1. PICK i \in 1 .. Len(bg[q]) :
          /\ bg' = [bg EXCEPT ![q] = RemoveAt(@, i)]
          /\ UNCHANGED <<player, reading, input, connected, usage>>
    BY <2>0 DEF KillBg
  <2>2. bg[q] # << >>
    BY <1>1, <2>1
  <2>3. \A r \in Tqs : Work(r)' => Work(r)
    BY <1>1, <2>1, <2>2 DEF Work, OutOfInput, Detached
  <2>4. QED  BY <2>1, <2>3 DEF Awake
<1>8. CASE \E u \in Users, old \in Tqs : LoginTask(u, old)
  BY <1>8, AwakeLogin
<1>9. CASE \E d \in 0 .. MaxDelay : Fork(d) \/ Suspend(d)
  <2>1. UNCHANGED <<bg, reading, connected, input, usage>>
    BY <1>9 DEF Fork, Suspend
  <2>2. PICK q \in Tqs : \E p : /\ FindOrCreate(q, p)
                               /\ player' = [player EXCEPT ![q] = p]
    BY <1>9 DEF Fork, Suspend, EnqueueWaiting
  <2>3. QED  BY <2>1, <2>2, FoundPlayers, AwakeSame
<1>10. CASE UNCHANGED <<player, bg, reading, connected, input, usage>>
  BY <1>10, AwakeSame
<1>11. QED
  BY <1>2, <1>3, <1>4, <1>5, <1>6, <1>7, <1>8, <1>9, <1>10
     DEF TaskStep, SuspendExternally, KillWaiting, KillExternal, Finish,
         queues

\* Every step keeps ReadyInv.
LEMMA ReadyNext ==
  ASSUME CoreInv, OneQueuePerPlayer, ReadyInv, [Next]_vars
  PROVE  ReadyInv'
<1>1. CASE UNCHANGED vars
  BY <1>1 DEF vars, ReadyInv, Awake, Work, Detached, OutOfInput, HeadReads
<1>2. CASE Next
  <2>1. HeadReads'
    BY <1>2, HeadReadsNext DEF ReadyInv
  <2>2. Awake'
    <3>1. CASE NetworkStep
      BY <3>1, AwakeNetwork DEF ReadyInv
    <3>2. CASE SchedulerStep
      BY <3>2, CoreNext, AwakeScheduler DEF ReadyInv
    <3>3. CASE TaskStep
      BY <3>3, AwakeTask DEF ReadyInv
    <3>4. CASE Restart
      BY <3>4 DEF Restart, Awake, Work
    <3>5. CASE LoadTask
      <4>1. PICK q \in Tqs : \E p : /\ FindOrCreate(q, p)
                                   /\ player' = [player EXCEPT ![q] = p]
        BY <3>5 DEF LoadTask, EnqueueWaiting
      <4>2. UNCHANGED <<bg, reading, connected, input, usage>>
        BY <3>5 DEF LoadTask
      <4>3. QED  BY <4>1, <4>2, FoundPlayers, AwakeSame DEF ReadyInv
    <3>6. CASE \/ \E p \in Progrs : StartServerTask(p)
               \/ Tick \/ LoadDone
      BY <3>6, AwakeSame DEF StartServerTask, Tick, LoadDone, queues,
                             ReadyInv
    <3>7. QED  BY <1>2, <3>1, <3>2, <3>3, <3>4, <3>5, <3>6 DEF Next
  <2>3. QED  BY <2>1, <2>2 DEF ReadyInv
<1>3. QED  BY <1>1, <1>2

\* Every initial state satisfies ReadyInv.
LEMMA ReadyInit == Init => ReadyInv
BY DEF Init, ReadyInv, Awake, Work, HeadReads

\* The mark and the list agree, so that ReadyInv says ReadyIsActive.
LEMMA ReadyImplies == CoreInv /\ ReadyInv => ReadyIsActive
BY DEF CoreInv, ActiveListExact, ReadyInv, Awake, Work, ReadyIsActive

\* Whatever could make a queue run something has put it on the active list,
\* in every state and whatever the players, connections, programmers, tasks
\* and bounds: all but the tasks do_login_task() takes from a connection.
THEOREM ReadyQueues == Spec => []ReadyIsActive
<1>1. Init => CoreInv /\ OneQueuePerPlayer /\ ReadyInv
  BY CoreInit, ReadyInit, SetsAssumption DEF Init, OneQueuePerPlayer
<1>2. CoreInv /\ OneQueuePerPlayer /\ ReadyInv /\ [Next]_vars
        => (CoreInv /\ OneQueuePerPlayer /\ ReadyInv)'
  BY CoreNext, OneQueueNext, ReadyNext
<1>3. QED
  BY <1>1, <1>2, ReadyImplies, PTL DEF Spec

-----------------------------------------------------------------------------
(* Sequences *)

\* Appending adds one element.
LEMMA AppendOn ==
  ASSUME NEW S, NEW s \in Seq(S), NEW e \in S
  PROVE  /\ Append(s, e) \in Seq(S)
         /\ \A x : On(Append(s, e), x) <=> On(s, x) \/ x = e
         /\ NoDup(s) /\ ~On(s, e) => NoDup(Append(s, e))
<1> DEFINE t == Append(s, e)
<1>1. /\ t \in Seq(S) /\ Len(t) = Len(s) + 1 /\ t[Len(s) + 1] = e
      /\ \A k \in 1 .. Len(s) : t[k] = s[k]
  OBVIOUS
<1> HIDE DEF t
<1>2. ASSUME NEW x PROVE On(t, x) <=> On(s, x) \/ x = e
  BY <1>1 DEF On
<1>3. ASSUME NoDup(s), ~On(s, e) PROVE NoDup(t)
  BY <1>1, <1>3 DEF On, NoDup
<1>4. QED  BY <1>1, <1>2, <1>3 DEF t

\* Unlinking one element of a list without duplicates.
LEMMA RemoveAtOn ==
  ASSUME NEW S, NEW s \in Seq(S), NEW i \in 1 .. Len(s), NoDup(s)
  PROVE  /\ NoDup(RemoveAt(s, i))
         /\ \A x : On(RemoveAt(s, i), x) <=> On(s, x) /\ x # s[i]
<1> DEFINE t == RemoveAt(s, i)
<1>1. /\ t \in Seq(S) /\ Len(t) = Len(s) - 1
      /\ \A k \in 1 .. Len(s) - 1 : t[k] = IF k < i THEN s[k] ELSE s[k + 1]
  BY RemoveAtElements
<1> HIDE DEF t
<1>2. NoDup(t)
  <2> SUFFICES ASSUME NEW j \in 1 .. Len(t), NEW k \in 1 .. Len(t), t[j] = t[k]
               PROVE  j = k
    BY DEF NoDup
  <2> DEFINE a == IF j < i THEN j ELSE j + 1
             b == IF k < i THEN k ELSE k + 1
  <2>1. a \in 1 .. Len(s) /\ b \in 1 .. Len(s) /\ s[a] = s[b]
    BY <1>1
  <2>2. a = b
    BY <2>1 DEF NoDup
  <2>3. QED  BY <1>1, <2>2
<1>3. ASSUME NEW x, On(t, x) PROVE On(s, x) /\ x # s[i]
  <2>1. PICK k \in 1 .. Len(t) : t[k] = x
    BY <1>3 DEF On
  <2> DEFINE a == IF k < i THEN k ELSE k + 1
  <2>2. a \in 1 .. Len(s) /\ s[a] = x /\ a # i
    BY <1>1, <2>1
  <2>3. QED  BY <2>2 DEF On, NoDup
<1>4. ASSUME NEW x, On(s, x), x # s[i] PROVE On(t, x)
  <2>1. PICK a \in 1 .. Len(s) : s[a] = x
    BY <1>4 DEF On
  <2> DEFINE k == IF a < i THEN a ELSE a - 1
  <2>2. k \in 1 .. Len(t) /\ t[k] = x
    <3>1. a # i
      BY <1>4, <2>1
    <3>2. CASE a < i
      BY <1>1, <2>1, <3>2
    <3>3. CASE a > i
      <4>1. k = a - 1 /\ k \in 1 .. Len(s) - 1 /\ ~(k < i) /\ k + 1 = a
        BY <3>3
      <4>2. QED  BY <1>1, <2>1, <4>1
    <3>4. QED  BY <3>1, <3>2, <3>3
  <2>3. QED  BY <2>2 DEF On
<1>5. QED  BY <1>2, <1>3, <1>4 DEF t

\* Joining two lists.
LEMMA ConcatOn ==
  ASSUME NEW S, NEW s \in Seq(S), NEW t \in Seq(S)
  PROVE  /\ s \o t \in Seq(S)
         /\ \A x : On(s \o t, x) <=> On(s, x) \/ On(t, x)
         /\ (NoDup(s) /\ NoDup(t) /\ \A x : ~(On(s, x) /\ On(t, x)))
              => NoDup(s \o t)
<1> DEFINE c == s \o t
<1>1. /\ c \in Seq(S) /\ Len(c) = Len(s) + Len(t)
      /\ \A k \in 1 .. Len(c) : c[k] = IF k <= Len(s) THEN s[k]
                                       ELSE t[k - Len(s)]
  BY ConcatProperties
<1> HIDE DEF c
<1>2. ASSUME NEW x, On(c, x) PROVE On(s, x) \/ On(t, x)
  <2>1. PICK k \in 1 .. Len(c) : c[k] = x
    BY <1>2 DEF On
  <2>2. CASE k <= Len(s)
    BY <1>1, <2>1, <2>2 DEF On
  <2>3. CASE ~(k <= Len(s))
    <3>1. k - Len(s) \in 1 .. Len(t) /\ t[k - Len(s)] = x
      BY <1>1, <2>1, <2>3
    <3>2. QED  BY <3>1 DEF On
  <2>4. QED  BY <2>2, <2>3
<1>3. ASSUME NEW x, On(s, x) PROVE On(c, x)
  <2>1. PICK k \in 1 .. Len(s) : s[k] = x
    BY <1>3 DEF On
  <2>2. k \in 1 .. Len(c) /\ c[k] = x
    BY <1>1, <2>1
  <2>3. QED  BY <2>2 DEF On
<1>4. ASSUME NEW x, On(t, x) PROVE On(c, x)
  <2>1. PICK k \in 1 .. Len(t) : t[k] = x
    BY <1>4 DEF On
  <2>2. Len(s) \in Nat /\ Len(t) \in Nat
    OBVIOUS
  <2>3. /\ k + Len(s) \in 1 .. Len(c) /\ ~(k + Len(s) <= Len(s))
        /\ k + Len(s) - Len(s) = k
    BY <1>1, <2>2
  <2>4. c[k + Len(s)] = x
    BY <1>1, <2>1, <2>3
  <2>5. QED  BY <2>3, <2>4 DEF On
<1>5. ASSUME NoDup(s), NoDup(t), \A x : ~(On(s, x) /\ On(t, x))
      PROVE  NoDup(c)
  <2> SUFFICES ASSUME NEW j \in 1 .. Len(c), NEW k \in 1 .. Len(c), c[j] = c[k]
               PROVE  j = k
    BY DEF NoDup
  <2>1. CASE j <= Len(s) /\ k <= Len(s)
    BY <1>1, <1>5, <2>1 DEF NoDup
  <2>2. CASE j > Len(s) /\ k > Len(s)
    <3>1. /\ j - Len(s) \in 1 .. Len(t) /\ k - Len(s) \in 1 .. Len(t)
          /\ t[j - Len(s)] = t[k - Len(s)]
      BY <1>1, <2>2
    <3>2. j - Len(s) = k - Len(s)
      BY <1>5, <3>1 DEF NoDup
    <3>3. QED  BY <3>2
  <2>3. CASE j <= Len(s) /\ k > Len(s)
    <3>1. /\ k - Len(s) \in 1 .. Len(t) /\ t[k - Len(s)] = c[k]
          /\ j \in 1 .. Len(s) /\ s[j] = c[k]
      BY <1>1, <2>3
    <3>2. QED  BY <1>5, <3>1 DEF On
  <2>4. CASE j > Len(s) /\ k <= Len(s)
    <3>1. /\ j - Len(s) \in 1 .. Len(t) /\ t[j - Len(s)] = c[k]
          /\ k \in 1 .. Len(s) /\ s[k] = c[k]
      BY <1>1, <2>4
    <3>2. QED  BY <1>5, <3>1 DEF On
  <2>5. QED  BY <1>1, <2>1, <2>2, <2>3, <2>4
<1>6. QED  BY <1>1, <1>2, <1>3, <1>4, <1>5 DEF c

-----------------------------------------------------------------------------
(* The places of a task *)

\* The places of a task exclude each other.
OneBox(id) ==
  /\ \A q, r \in Tqs :
       /\ On(bg[q], id) /\ On(bg[r], id) => q = r
       /\ reading[q] = id /\ reading[r] = id => q = r
       /\ ~(On(bg[q], id) /\ reading[r] = id)
  /\ On(waiting_tasks, id) =>
       /\ ~On(disk, id) /\ id \notin external_queue /\ id # current_task_id
       /\ \A q \in Tqs : ~On(bg[q], id) /\ reading[q] # id
  /\ On(disk, id) =>
       /\ id \notin external_queue /\ id # current_task_id
       /\ \A q \in Tqs : ~On(bg[q], id) /\ reading[q] # id
  /\ id \in external_queue =>
       /\ id # current_task_id
       /\ \A q \in Tqs : ~On(bg[q], id) /\ reading[q] # id
  /\ id = current_task_id =>
       \A q \in Tqs : ~On(bg[q], id) /\ reading[q] # id

Placed(id) ==
  \/ On(waiting_tasks, id) \/ On(disk, id) \/ id \in external_queue
  \/ id = current_task_id
  \/ \E q \in Tqs : On(bg[q], id) \/ reading[q] = id

\* A list links a task once.
Lists ==
  /\ NoDup(waiting_tasks) /\ NoDup(disk) /\ \A q \in Tqs : NoDup(bg[q])
  /\ disk \in Seq(Ids)

Unique == \A id \in Ids : OneBox(id)

\* A number new_task_id() may give out is in none of the places.
Real == \A id \in Ids : Placed(id) => task[id].progr \in Players

PlaceInv == Unique /\ Lists /\ Real

\* A step that moves or drops at most the task x.
Others(x) ==
  \A id \in Ids : id # x =>
    /\ On(waiting_tasks', id) => On(waiting_tasks, id)
    /\ On(disk', id) => On(disk, id)
    /\ id \in external_queue' => id \in external_queue
    /\ id = current_task_id' => id = current_task_id
    /\ \A q \in Tqs : /\ On(bg'[q], id) => On(bg[q], id)
                      /\ reading'[q] = id => reading[q] = id
    /\ task'[id].progr = task[id].progr

\* Then only x needs looking at.
LEMMA PlaceMoved ==
  ASSUME PlaceInv, NEW x, Others(x), Lists',
         x \in Ids => OneBox(x)' /\ (Placed(x)' => task'[x].progr \in Players)
  PROVE  PlaceInv'
<1>1. ASSUME NEW id \in Ids, id # x PROVE OneBox(id)'
  <2>1. OneBox(id)
    BY DEF PlaceInv, Unique
  <2>2. /\ On(waiting_tasks', id) => On(waiting_tasks, id)
        /\ On(disk', id) => On(disk, id)
        /\ id \in external_queue' => id \in external_queue
        /\ id = current_task_id' => id = current_task_id
        /\ \A q \in Tqs : /\ On(bg'[q], id) => On(bg[q], id)
                          /\ reading'[q] = id => reading[q] = id
    BY <1>1 DEF Others
  <2>3. QED  BY <2>1, <2>2 DEF OneBox
<1>2. ASSUME NEW id \in Ids, id # x, Placed(id)'
      PROVE  task'[id].progr \in Players
  <2>1. Placed(id) /\ task'[id].progr = task[id].progr
    BY <1>2 DEF Others, Placed
  <2>2. QED  BY <2>1 DEF PlaceInv, Real
<1>3. Unique'
  BY <1>1 DEF Unique
<1>4. Real'
  BY <1>2 DEF Real
<1>5. QED  BY <1>3, <1>4 DEF PlaceInv

\* A step that moves no task.
LEMMA PlaceSame ==
  ASSUME PlaceInv,
         UNCHANGED <<waiting_tasks, disk, external_queue, current_task_id,
                     bg, reading>>,
         \A id \in Ids : task'[id].progr = task[id].progr
  PROVE  PlaceInv'
<1>1. Others(NoTask)
  BY DEF Others
<1>2. Lists' /\ NoTask \notin Ids
  BY DEF PlaceInv, Lists, Ids, NoTask
<1>3. QED  BY <1>1, <1>2, PlaceMoved

\* A number new_task_id() gives out.
LEMMA NewIsNowhere ==
  ASSUME PlaceInv, NEW id \in Ids, NewTaskId(id)
  PROVE  ~Placed(id)
BY SetsAssumption DEF PlaceInv, Real, NewTaskId, NoTaskRec, Players

\* NoTask is no task.
LEMMA NoTaskFacts == \A id \in Ids : id # NoTask
BY DEF Ids, NoTask

-----------------------------------------------------------------------------
(* Every step keeps a task in one place *)

\* A task joins the background tasks of a queue.
LEMMA PlaceToBg ==
  ASSUME CoreInv, PlaceInv, NEW x \in Ids, NEW q \in Tqs,
         On(waiting_tasks, x) \/ x \in external_queue,
         ~On(waiting_tasks', x) /\ x \notin external_queue',
         bg' = [bg EXCEPT ![q] = Append(@, x)],
         NoDup(waiting_tasks'), UNCHANGED <<disk, current_task_id, reading>>,
         \A id \in Ids : /\ On(waiting_tasks', id) => On(waiting_tasks, id)
                         /\ id \in external_queue' => id \in external_queue
                         /\ task'[id].progr = task[id].progr
  PROVE  PlaceInv'
<1>1. bg \in [Tqs -> Seq(Ids)]
  BY DEF CoreInv, TypeOK
<1>2. OneBox(x) /\ task[x].progr \in Players
  BY DEF PlaceInv, Unique, Real, Placed
<1>3. ~On(disk, x) /\ x # current_task_id
      /\ \A r \in Tqs : ~On(bg[r], x) /\ reading[r] # x
  BY <1>2 DEF OneBox
<1>4. /\ NoDup(Append(bg[q], x))
      /\ \A id : On(Append(bg[q], x), id) <=> On(bg[q], id) \/ id = x
  BY <1>1, <1>3, AppendOn DEF PlaceInv, Lists
<1>5. bg'[q] = Append(bg[q], x) /\ \A r \in Tqs : r # q => bg'[r] = bg[r]
  BY <1>1
<1>6. Lists'
  BY <1>4, <1>5 DEF PlaceInv, Lists
<1>7. Others(x)
  BY <1>4, <1>5 DEF Others
<1>8. OneBox(x)'
  BY <1>3, <1>4, <1>5 DEF OneBox
<1>9. QED  BY <1>2, <1>6, <1>7, <1>8, PlaceMoved

\* A step of the network.
LEMMA PlaceNetwork ==
  ASSUME CoreInv, PlaceInv, NetworkStep
  PROVE  PlaceInv'
<1>1. CASE \E id \in Ids : ResumeExternal(id)
  <2>1. PICK id \in Ids : ResumeExternal(id)
    BY <1>1
  <2>2. PICK q \in Tqs : bg' = [bg EXCEPT ![q] = Append(@, id)]
    BY <2>1 DEF ResumeExternal
  <2>3. /\ id \in external_queue /\ external_queue' = external_queue \ {id}
        /\ UNCHANGED <<disk, current_task_id, reading, waiting_tasks>>
    BY <2>1 DEF ResumeExternal, sched
  <2>4. task \in [Ids -> TaskRec]
        /\ task' = [task EXCEPT ![id] = [kind |-> "SUSPENDED",
                                         progr |-> task[id].progr, start |-> 0]]
    BY <2>1 DEF CoreInv, TypeOK, ResumeExternal
  <2>5. \A i \in Ids : task'[i].progr = task[i].progr
    BY <2>4
  <2>6. ~On(waiting_tasks, id) /\ NoDup(waiting_tasks)
    BY <2>3 DEF PlaceInv, Unique, OneBox, Lists
  <2>7. QED  BY <2>2, <2>3, <2>5, <2>6, PlaceToBg
<1>2. CASE UNCHANGED <<waiting_tasks, disk, external_queue, current_task_id,
                       bg, reading, task>>
  BY <1>2, PlaceSame
<1>3. QED
  BY <1>1, <1>2 DEF NetworkStep, NewConnection, InputLine, FlushCommand,
     FreeTaskQueue, sched

\* A task is started: its number was nowhere.
LEMMA PlaceNew ==
  ASSUME CoreInv, PlaceInv, NEW x \in Ids, NEW p \in Players, NewTaskId(x),
         task' = [task EXCEPT ![x].progr = p], current_task_id' = x,
         UNCHANGED <<waiting_tasks, disk, external_queue, bg, reading>>
  PROVE  PlaceInv'
<1>1. ~Placed(x)
  BY NewIsNowhere
<1>2. task \in [Ids -> TaskRec]
  BY DEF CoreInv, TypeOK
<1>3. task'[x].progr = p /\ \A id \in Ids : id # x => task'[id] = task[id]
  <2> DEFINE rec == [task[x] EXCEPT !.progr = p]
  <2>1. rec.progr = p /\ task' = [task EXCEPT ![x] = rec]
    BY <1>2 DEF TaskRec
  <2> HIDE DEF rec
  <2>2. QED  BY <1>2, <2>1
<1>4. Lists'
  BY DEF PlaceInv, Lists
<1>5. Others(x)
  BY <1>3 DEF Others
<1>6. OneBox(x)'
  BY <1>1 DEF OneBox, Placed
<1>7. QED  BY <1>3, <1>4, <1>5, <1>6, PlaceMoved

\* A task of a queue is picked to run.
LEMMA PlacePick ==
  ASSUME CoreInv, PlaceInv, NEW q \in Tqs,
         \/ /\ bg[q] # << >> /\ bg' = [bg EXCEPT ![q] = Tail(@)]
            /\ current_task_id' = Head(bg[q]) /\ UNCHANGED reading
         \/ /\ reading[q] # NoTask /\ reading' = [reading EXCEPT ![q] = NoTask]
            /\ current_task_id' = reading[q] /\ UNCHANGED bg,
         UNCHANGED <<waiting_tasks, disk, external_queue, task>>
  PROVE  PlaceInv'
<1>1. /\ bg \in [Tqs -> Seq(Ids)] /\ reading \in [Tqs -> Ids \cup {NoTask}]
      /\ current_task_id \in Ids \cup {NoTask}
  BY DEF CoreInv, TypeOK
<1>2. PICK x : x = current_task_id'
  OBVIOUS
<1>3. CASE /\ bg[q] # << >> /\ bg' = [bg EXCEPT ![q] = Tail(@)]
           /\ current_task_id' = Head(bg[q]) /\ UNCHANGED reading
  <2>1. bg[q] \in Seq(Ids) /\ NoDup(bg[q])
    BY <1>1 DEF PlaceInv, Lists
  <2>2. /\ NoDup(Tail(bg[q])) /\ ~On(Tail(bg[q]), x)
        /\ \A y : On(bg[q], y) <=> On(Tail(bg[q]), y) \/ y = x
    BY <1>2, <1>3, <2>1, TailOn
  <2>3. x \in Ids /\ OneBox(x) /\ On(bg[q], x) /\ task[x].progr \in Players
    BY <1>2, <1>3, <2>1, <2>2 DEF PlaceInv, Unique, Real, Placed
  <2>4. bg'[q] = Tail(bg[q]) /\ \A r \in Tqs : r # q => bg'[r] = bg[r]
    BY <1>1, <1>3
  <2>5. Lists'
    BY <2>2, <2>4 DEF PlaceInv, Lists
  <2>6. Others(x)
    BY <1>2, <1>3, <2>2, <2>4 DEF Others
  <2>7. OneBox(x)'
    BY <1>2, <1>3, <2>2, <2>3, <2>4 DEF OneBox
  <2>8. QED  BY <2>3, <2>5, <2>6, <2>7, PlaceMoved
<1>4. CASE /\ reading[q] # NoTask /\ reading' = [reading EXCEPT ![q] = NoTask]
           /\ current_task_id' = reading[q] /\ UNCHANGED bg
  <2>1. x \in Ids /\ OneBox(x) /\ reading[q] = x /\ task[x].progr \in Players
    BY <1>1, <1>2, <1>4 DEF PlaceInv, Unique, Real, Placed
  <2>2. reading'[q] = NoTask /\ \A r \in Tqs : r # q => reading'[r] = reading[r]
    BY <1>1, <1>4
  <2>3. Lists'
    BY <1>4 DEF PlaceInv, Lists
  <2>4. Others(x)
    BY <1>2, <1>4, <2>2, NoTaskFacts DEF Others
  <2>5. OneBox(x)'
    BY <1>2, <1>4, <2>1, <2>2, NoTaskFacts DEF OneBox
  <2>6. QED  BY <2>1, <2>3, <2>4, <2>5, PlaceMoved
<1>5. QED  BY <1>3, <1>4

\* A step of run_ready_tasks().
LEMMA PlaceScheduler ==
  ASSUME CoreInv, PlaceInv, SchedulerStep
  PROVE  PlaceInv'
<1>1. /\ bg \in [Tqs -> Seq(Ids)] /\ reading \in [Tqs -> Ids \cup {NoTask}]
      /\ waiting_tasks \in Seq(Ids)
      /\ TypeOK /\ ActiveListExact
  BY DEF CoreInv, TypeOK
<1>2. CASE MoveDue
  <2>1. PICK q \in Tqs : bg' = [bg EXCEPT ![q] = Append(@, Head(waiting_tasks))]
    BY <1>2 DEF MoveDue
  <2>2. PICK x : x = Head(waiting_tasks)
    OBVIOUS
  <2>3. /\ waiting_tasks # << >> /\ waiting_tasks' = Tail(waiting_tasks)
        /\ UNCHANGED <<disk, current_task_id, reading, external_queue, task>>
    BY <1>2 DEF MoveDue, Due, sched
  <2>4. /\ NoDup(waiting_tasks') /\ ~On(waiting_tasks', x)
        /\ \A y : On(waiting_tasks, y) <=> On(waiting_tasks', y) \/ y = x
    BY <1>1, <2>2, <2>3, TailOn DEF PlaceInv, Lists
  <2>5. x \in Ids /\ x \notin external_queue
    <3>1. x \in Ids
      BY <1>1, <2>2, <2>3
    <3>2. QED  BY <2>4, <3>1 DEF PlaceInv, Unique, OneBox
  <2>6. bg' = [bg EXCEPT ![q] = Append(@, x)]
    BY <2>1, <2>2
  <2>7. QED  BY <2>3, <2>4, <2>5, <2>6, PlaceToBg
<1>3. CASE PickOutOfInput
  <2>1. Head(active_tqueues) \in Tqs
    BY <1>1, <1>3, HeadIsQueue DEF PickOutOfInput
  <2>2. PICK q \in Tqs :
          /\ reading[q] # NoTask /\ reading' = [reading EXCEPT ![q] = NoTask]
          /\ current_task_id' = reading[q] /\ UNCHANGED bg
          /\ UNCHANGED <<waiting_tasks, disk, external_queue, task>>
    BY <1>3, <2>1 DEF PickOutOfInput
  <2>3. QED  BY <2>2, PlacePick
<1>4. CASE \E q \in Tqs : PickInput(q)
  <2>1. PICK q \in Tqs : PickInput(q)
    BY <1>4
  <2>2. UNCHANGED <<waiting_tasks, disk, external_queue, bg>>
    BY <2>1 DEF PickInput
  <2>3. \/ /\ reading[q] # NoTask /\ reading' = [reading EXCEPT ![q] = NoTask]
           /\ current_task_id' = reading[q] /\ UNCHANGED task
        \/ UNCHANGED <<reading, task, current_task_id>>
        \/ /\ UNCHANGED reading
           /\ \E id \in Ids, p \in Progrs :
                /\ NewTaskId(id)
                /\ current_task_id' = id
                /\ task' = [task EXCEPT ![id].progr = p]
    BY <2>1 DEF PickInput
  <2>4. QED
    BY <2>2, <2>3, PlacePick, PlaceSame, PlaceNew, SetsAssumption
<1>5. CASE \E q \in Tqs : PickBg(q)
  <2>1. PICK q \in Tqs :
          /\ bg[q] # << >> /\ bg' = [bg EXCEPT ![q] = Tail(@)]
          /\ current_task_id' = Head(bg[q]) /\ UNCHANGED reading
          /\ UNCHANGED <<waiting_tasks, disk, external_queue, task>>
    BY <1>5 DEF PickBg
  <2>2. QED  BY <2>1, PlacePick
<1>6. CASE \E q \in Tqs : FreeTqueue(q)
  <2>1. PICK q \in Tqs :
          /\ reading' = [reading EXCEPT ![q] = NoTask]
          /\ bg' = [bg EXCEPT ![q] = << >>]
          /\ task' = [id \in Ids |-> IF id = reading[q] THEN NoTaskRec
                                     ELSE task[id]]
          /\ UNCHANGED <<waiting_tasks, disk, external_queue, current_task_id>>
    BY <1>6 DEF FreeTqueue, sched
  <2>2. PICK x : x = reading[q]
    OBVIOUS
  <2>3. /\ reading'[q] = NoTask /\ bg'[q] = << >>
        /\ \A r \in Tqs : r # q => reading'[r] = reading[r] /\ bg'[r] = bg[r]
    BY <1>1, <2>1
  <2>4. \A y : ~On(<< >>, y)
    BY DEF On
  <2>5. NoDup(<< >>)
    BY DEF NoDup
  <2>6. Lists'
    BY <2>1, <2>3, <2>5 DEF PlaceInv, Lists
  <2>7. \A id \in Ids : id # x => task'[id] = task[id]
    BY <2>1, <2>2
  <2>8. Others(x)
    BY <2>1, <2>3, <2>4, <2>7, NoTaskFacts DEF Others
  <2>9. x \in Ids => ~Placed(x)'
    <3>1. x \in Ids => OneBox(x) /\ reading[q] = x
      BY <2>2 DEF PlaceInv, Unique
    <3>2. x \in Ids => ~On(waiting_tasks, x) /\ ~On(disk, x)
                       /\ x \notin external_queue /\ x # current_task_id
                       /\ \A r \in Tqs : ~On(bg[r], x) /\ (reading[r] = x => r = q)
      BY <3>1 DEF OneBox
    <3>3. QED  BY <2>1, <2>3, <2>4, <3>2, NoTaskFacts DEF Placed
  <2>10. x \in Ids => OneBox(x)'
    BY <2>9 DEF Placed, OneBox
  <2>11. QED  BY <2>6, <2>8, <2>9, <2>10, PlaceMoved
<1>7. CASE UNCHANGED <<waiting_tasks, disk, external_queue, current_task_id,
                       bg, reading, task>>
  BY <1>7, PlaceSame
<1>8. QED
  BY <1>2, <1>3, <1>4, <1>5, <1>6, <1>7 DEF SchedulerStep, RunReadyTasks,
     MoveDone, PickNone, PickNothing, EmptyCommand, Command, TaskDone,
     SweepDone, queues, sched

\* A task joins the waiting tasks.
LEMMA PlaceToWaiting ==
  ASSUME CoreInv, PlaceInv, NEW x \in Ids,
         \/ ~Placed(x) /\ UNCHANGED <<current_task_id, disk>>
         \/ x = current_task_id /\ current_task_id' = NoTask /\ UNCHANGED disk
         \/ /\ disk # << >> /\ x = Head(disk) /\ disk' = Tail(disk)
            /\ UNCHANGED current_task_id,
         NEW rec, \E q \in Tqs : EnqueueWaiting(q, x, rec),
         rec.progr \in Players,
         UNCHANGED <<external_queue, bg, reading>>
  PROVE  PlaceInv'
<1>1. /\ waiting_tasks \in Seq(Ids) /\ task \in [Ids -> TaskRec]
  BY DEF CoreInv, TypeOK
<1>2. OneBox(x) /\ disk \in Seq(Ids) /\ NoDup(disk) /\ NoDup(waiting_tasks)
  BY DEF PlaceInv, Unique, Lists
<1>3. PICK i \in 1 .. Len(waiting_tasks) + 1 :
        waiting_tasks' = InsertAt(waiting_tasks, i, x)
  BY DEF EnqueueWaiting, WaitingInsert
<1>4. task' = [task EXCEPT ![x] = rec]
  BY DEF EnqueueWaiting
<1>5. task'[x].progr \in Players /\ \A id \in Ids : id # x => task'[id] = task[id]
  BY <1>1, <1>4
<1>6. /\ disk # << >> => On(disk, Head(disk))
      /\ disk # << >> => /\ Tail(disk) \in Seq(Ids) /\ NoDup(Tail(disk))
                         /\ ~On(Tail(disk), Head(disk))
                         /\ \A y : On(disk, y) <=> On(Tail(disk), y) \/ y = Head(disk)
  BY <1>2, TailOn
<1>7. ~On(waiting_tasks, x) /\ x \notin external_queue
      /\ \A r \in Tqs : ~On(bg[r], x) /\ reading[r] # x
  BY <1>2, <1>6 DEF Placed, OneBox
<1>8. /\ \A y : On(waiting_tasks', y) <=> On(waiting_tasks, y) \/ y = x
      /\ NoDup(waiting_tasks')
  BY <1>1, <1>2, <1>3, <1>7, InsertAtOn
<1>9. /\ ~On(disk', x) /\ x # current_task_id'
      /\ disk' \in Seq(Ids) /\ NoDup(disk')
      /\ \A y : On(disk', y) => On(disk, y)
      /\ \A y \in Ids : y = current_task_id' => y = current_task_id
  BY <1>2, <1>6, NoTaskFacts DEF Placed, OneBox
<1>10. Lists'
  BY <1>8, <1>9 DEF PlaceInv, Lists
<1>11. Others(x)
  BY <1>5, <1>8, <1>9 DEF Others
<1>12. OneBox(x)'
  BY <1>7, <1>8, <1>9 DEF OneBox
<1>13. QED  BY <1>5, <1>10, <1>11, <1>12, PlaceMoved

\* A task is killed or ends: it is in none of the places afterwards.
LEMMA PlaceGone ==
  ASSUME CoreInv, PlaceInv, NEW x \in Ids, Others(x), Lists', ~Placed(x)'
  PROVE  PlaceInv'
<1>1. OneBox(x)'
  BY DEF Placed, OneBox
<1>2. QED  BY <1>1, PlaceMoved

\* Taking a task out of a queue's background tasks by its position.
LEMMA PlaceKillBg ==
  ASSUME CoreInv, PlaceInv, NEW q \in Tqs, NEW i \in 1 .. Len(bg[q]),
         KillBg(q, i)
  PROVE  PlaceInv'
<1>1. bg \in [Tqs -> Seq(Ids)] /\ task \in [Ids -> TaskRec]
  BY DEF CoreInv, TypeOK
<1>2. PICK x \in Ids : x = bg[q][i]
  BY <1>1
<1>3. /\ bg' = [bg EXCEPT ![q] = RemoveAt(@, i)]
      /\ task' = [task EXCEPT ![x] = NoTaskRec]
      /\ UNCHANGED <<waiting_tasks, disk, external_queue, current_task_id,
                     reading>>
  BY <1>2 DEF KillBg, Forget, sched
<1>4. NoDup(bg[q]) /\ On(bg[q], x) /\ OneBox(x)
  BY <1>1, <1>2 DEF PlaceInv, Lists, Unique, On
<1>5. /\ NoDup(RemoveAt(bg[q], i))
      /\ \A y : On(RemoveAt(bg[q], i), y) <=> On(bg[q], y) /\ y # x
  BY <1>1, <1>2, <1>4, RemoveAtOn
<1>6. bg'[q] = RemoveAt(bg[q], i) /\ \A r \in Tqs : r # q => bg'[r] = bg[r]
  BY <1>1, <1>3
<1>7. Lists'
  BY <1>3, <1>5, <1>6 DEF PlaceInv, Lists
<1>8. Others(x)
  BY <1>1, <1>3, <1>5, <1>6 DEF Others
<1>9. ~Placed(x)'
  BY <1>3, <1>4, <1>5, <1>6 DEF OneBox, Placed
<1>10. QED  BY <1>7, <1>8, <1>9, PlaceGone

\* Taking a task out of the waiting tasks by its position.
LEMMA WaitingRemoved ==
  ASSUME CoreInv, PlaceInv, NEW i \in 1 .. Len(waiting_tasks),
         waiting_tasks' = RemoveAt(waiting_tasks, i)
  PROVE  /\ waiting_tasks[i] \in Ids /\ On(waiting_tasks, waiting_tasks[i])
         /\ NoDup(waiting_tasks')
         /\ \A y : On(waiting_tasks', y)
                     <=> On(waiting_tasks, y) /\ y # waiting_tasks[i]
<1>1. waiting_tasks \in Seq(Ids) /\ NoDup(waiting_tasks)
  BY DEF CoreInv, TypeOK, PlaceInv, Lists
<1>2. waiting_tasks[i] \in Ids
  BY <1>1
<1>3. On(waiting_tasks, waiting_tasks[i])
  BY DEF On
<1>4. QED  BY <1>1, <1>2, <1>3, RemoveAtOn

\* A login ends the task and moves the background tasks of whole queues.
LEMMA PlaceLogin ==
  ASSUME CoreInv, PlaceInv, NEW u \in Users, NEW old \in Tqs,
         LoginTask(u, old)
  PROVE  PlaceInv'
<1> DEFINE owns == OwnsTasks(running_tq)
           dead == {d \in Tqs : player[d] = u}
<1>1. /\ bg \in [Tqs -> Seq(Ids)] /\ task \in [Ids -> TaskRec]
      /\ TypeOK /\ ActiveListExact /\ RunningIsHead /\ FreeBlank
  BY DEF CoreInv, TypeOK
<1>2. PICK q : q = running_tq
  OBVIOUS
<1>3. PICK x : x = current_task_id
  OBVIOUS
<1>4. q \in Tqs /\ x \in Ids /\ player[q] \in Conns /\ player[old] = FREE
  BY <1>1, <1>2, <1>3, HeadIsQueue, MeType DEF LoginTask, RunningIsHead
<1>5. bg[old] = << >> /\ q # old /\ u # player[q] /\ u # FREE
  BY <1>1, <1>4, SetsAssumption DEF FreeBlank, Players
<1>6. /\ current_task_id' = NoTask /\ task' = [task EXCEPT ![x] = NoTaskRec]
      /\ UNCHANGED <<waiting_tasks, disk, external_queue, reading>>
  BY <1>3 DEF LoginTask, Forget
<1>7. /\ \A y : ~On(<< >>, y)
      /\ NoDup(<< >>) /\ << >> \in Seq(Ids)
  BY DEF On, NoDup
<1>8. \/ bg' = [bg EXCEPT ![old] = IF owns THEN bg[q] ELSE bg[old],
                          ![q] = KeptBg(q)]
      \/ \E d \in Tqs :
           /\ d # q /\ d # old
           /\ bg' = [bg EXCEPT ![old] = IF owns THEN bg[q] ELSE bg[old],
                               ![q] = KeptBg(q) \o bg[d], ![d] = << >>]
  <2>1. CASE dead = {}
    <3>1. bg' = [bg EXCEPT ![old] = IF owns THEN bg[q] ELSE @,
                           ![q] = KeptBg(q)]
      BY <1>2, <2>1 DEF LoginTask
    <3>2. QED  BY <1>1, <3>1, Zenon
  <2>2. CASE dead # {}
    <3>1. PICK d \in dead :
            bg' = [bg EXCEPT ![old] = IF owns THEN bg[q] ELSE @,
                             ![q] = KeptBg(q) \o bg[d], ![d] = << >>]
      BY <1>2, <2>2 DEF LoginTask
    <3>2. d \in Tqs /\ d # q /\ d # old
      BY <1>4, <1>5
    <3>3. QED  BY <1>1, <3>1, <3>2, Zenon
  <2>3. QED  BY <2>1, <2>2
<1>9. PICK given, kept :
        /\ given = (IF owns THEN bg[q] ELSE bg[old]) /\ kept = KeptBg(q)
        /\ given \in Seq(Ids) /\ kept \in Seq(Ids)
        /\ \/ given = << >> /\ kept = bg[q]
           \/ given = bg[q] /\ kept = << >>
  BY <1>1, <1>2, <1>4, <1>5, <1>7 DEF KeptBg
<1>10. /\ NoDup(given) /\ NoDup(kept)
       /\ \A y : ~(On(given, y) /\ On(kept, y))
       /\ \A y : On(given, y) \/ On(kept, y) <=> On(bg[q], y)
  BY <1>4, <1>7, <1>9 DEF PlaceInv, Lists
<1>11. \A id \in Ids : OneBox(id)
  BY DEF PlaceInv, Unique
<1>12. \/ bg' = [bg EXCEPT ![old] = given, ![q] = kept]
       \/ \E d \in Tqs :
            /\ d # q /\ d # old
            /\ bg' = [bg EXCEPT ![old] = given, ![q] = kept \o bg[d],
                                ![d] = << >>]
  BY <1>8, <1>9, Zenon
<1>13. ASSUME \A id \in Ids : \A r, s \in Tqs :
                /\ On(bg'[r], id) => \E p \in Tqs : On(bg[p], id)
                /\ On(bg'[r], id) /\ On(bg'[s], id) => r = s,
              \A r \in Tqs : NoDup(bg'[r])
       PROVE  PlaceInv'
  <2>1. Lists'
    BY <1>6, <1>13 DEF PlaceInv, Lists
  <2>2. \A id \in Ids : OneBox(id)'
    BY <1>6, <1>11, <1>13, NoTaskFacts DEF OneBox
  <2>3. ASSUME NEW id \in Ids, Placed(id)'
        PROVE  task'[id].progr \in Players
    <3>1. Placed(id)
      BY <1>6, <1>13, <2>3, NoTaskFacts DEF Placed
    <3>2. id # x
      <4>1. OneBox(x)
        BY <1>4, <1>11
      <4>2. ~Placed(x)'
        BY <1>3, <1>4, <1>6, <1>13, <4>1, NoTaskFacts DEF OneBox, Placed
      <4>3. QED  BY <2>3, <4>2
    <3>3. QED  BY <1>1, <1>6, <3>1, <3>2 DEF PlaceInv, Real
  <2>4. QED  BY <2>1, <2>2, <2>3 DEF PlaceInv, Unique, Real
<1>14. /\ \A id \in Ids : \A r, s \in Tqs :
            On(bg[r], id) /\ On(bg[s], id) => r = s
       /\ \A r \in Tqs : NoDup(bg[r]) /\ bg[r] \in Seq(Ids)
  BY <1>1, <1>11 DEF OneBox, PlaceInv, Lists
<1> HIDE DEF owns, dead
<1>15. CASE bg' = [bg EXCEPT ![old] = given, ![q] = kept]
  <2>1. bg'[old] = given /\ bg'[q] = kept
        /\ \A r \in Tqs : r # q /\ r # old => bg'[r] = bg[r]
    BY <1>1, <1>4, <1>5, <1>15
  <2>2. \A r \in Tqs : NoDup(bg'[r])
    BY <1>10, <1>14, <2>1
  <2>3. \A id \in Ids : \A r \in Tqs :
          /\ On(bg'[r], id) => On(bg[IF r = old THEN q ELSE r], id)
          /\ On(bg'[old], id) => ~On(bg'[q], id)
    BY <1>4, <1>10, <2>1
  <2>4. ASSUME NEW id \in Ids, NEW r \in Tqs, NEW s \in Tqs,
               On(bg'[r], id), On(bg'[s], id)
        PROVE  r = s
    BY <1>4, <1>14, <2>3, <2>4
  <2>5. QED  BY <1>4, <1>13, <2>2, <2>3, <2>4
<1>16. ASSUME NEW d \in Tqs, d # q, d # old,
              bg' = [bg EXCEPT ![old] = given, ![q] = kept \o bg[d],
                               ![d] = << >>]
       PROVE  PlaceInv'
  <2>1. /\ bg'[old] = given /\ bg'[q] = kept \o bg[d] /\ bg'[d] = << >>
        /\ \A r \in Tqs : r # q /\ r # old /\ r # d => bg'[r] = bg[r]
    BY <1>1, <1>4, <1>5, <1>16
  <2>2. ASSUME NEW y, On(kept, y), On(bg[d], y)
        PROVE  FALSE
    <3>1. y \in Ids
      BY <1>14, <2>2 DEF On
    <3>2. QED  BY <1>4, <1>10, <1>14, <1>16, <2>2, <3>1
  <2>3. /\ \A y : On(kept \o bg[d], y) <=> On(kept, y) \/ On(bg[d], y)
        /\ NoDup(kept \o bg[d])
    BY <1>9, <1>10, <1>14, <2>2, ConcatOn
  <2>4. \A r \in Tqs : NoDup(bg'[r])
    BY <1>7, <1>10, <1>14, <2>1, <2>3
  <2>5. \A id \in Ids : \A r \in Tqs :
          /\ On(bg'[r], id) => On(bg[q], id) \/ On(bg[r], id) \/ On(bg[d], id)
          /\ ~On(bg'[d], id)
          /\ On(bg'[old], id) <=> On(given, id)
          /\ On(bg'[q], id) <=> On(kept, id) \/ On(bg[d], id)
          /\ r # q /\ r # old /\ r # d => (On(bg'[r], id) <=> On(bg[r], id))
    BY <1>7, <1>10, <2>1, <2>3
  <2>6. ASSUME NEW id \in Ids, NEW r \in Tqs, NEW s \in Tqs,
               On(bg'[r], id), On(bg'[s], id)
        PROVE  r = s
    BY <1>4, <1>10, <1>14, <1>16, <2>5, <2>6
  <2>7. QED  BY <1>4, <1>13, <2>4, <2>5, <2>6
<1>17. QED  BY <1>12, <1>15, <1>16

\* A built-in a task calls.
LEMMA PlaceTask ==
  ASSUME CoreInv, PlaceInv, TaskStep
  PROVE  PlaceInv'
<1>1. /\ bg \in [Tqs -> Seq(Ids)] /\ reading \in [Tqs -> Ids \cup {NoTask}]
      /\ waiting_tasks \in Seq(Ids) /\ task \in [Ids -> TaskRec] /\ TypeOK
  BY DEF CoreInv, TypeOK
<1>2. Running => current_task_id \in Ids /\ Me \in Players
                 /\ OneBox(current_task_id)
  BY <1>1, MeType DEF PlaceInv, Unique, Real, Placed, Me
<1>3. \A id \in Ids : task' = [task EXCEPT ![id] = NoTaskRec] =>
        \A i \in Ids : i # id => task'[i] = task[i]
  BY <1>1
<1>4. CASE \E d \in 0 .. MaxDelay : Fork(d)
  <2>1. PICK d \in 0 .. MaxDelay : Fork(d)
    BY <1>4
  <2>2. PICK id \in Ids :
          /\ NewTaskId(id)
          /\ \E q \in Tqs :
               EnqueueWaiting(q, id, [kind |-> "FORKED", progr |-> Me,
                                      start |-> clock + d])
    BY <2>1 DEF Fork
  <2>3. ~Placed(id)
    BY <2>2, NewIsNowhere
  <2>4. /\ UNCHANGED <<current_task_id, disk, external_queue, bg, reading>>
        /\ Running
    BY <2>1 DEF Fork, sched
  <2>5. QED  BY <1>2, <2>2, <2>3, <2>4, PlaceToWaiting
<1>5. CASE \E d \in 0 .. MaxDelay : Suspend(d)
  <2>1. PICK d \in 0 .. MaxDelay : Suspend(d)
    BY <1>5
  <2>2. /\ UNCHANGED <<disk, external_queue, bg, reading>> /\ Running
        /\ current_task_id' = NoTask
        /\ \E q \in Tqs :
             EnqueueWaiting(q, current_task_id,
                            [kind |-> "SUSPENDED", progr |-> Me,
                             start |-> clock + d])
    BY <2>1 DEF Suspend
  <2>3. PICK x \in Ids : x = current_task_id
    BY <1>2, <2>2
  <2>4. QED  BY <1>2, <2>2, <2>3, PlaceToWaiting
<1>6. CASE \E p \in Users \cup opened : MakeReadingTask(p)
  <2>1. PICK q \in Tqs :
          /\ Running /\ reading[q] = NoTask
          /\ reading' = [reading EXCEPT ![q] = current_task_id]
          /\ current_task_id' = NoTask
          /\ UNCHANGED <<waiting_tasks, disk, external_queue, bg, task>>
    BY <1>6 DEF MakeReadingTask
  <2>2. PICK x \in Ids : x = current_task_id
    BY <1>2, <2>1
  <2>3. reading'[q] = x /\ \A r \in Tqs : r # q => reading'[r] = reading[r]
    BY <1>1, <2>1, <2>2
  <2>4. Lists'
    BY <2>1 DEF PlaceInv, Lists
  <2>5. Others(x)
    BY <2>1, <2>3, NoTaskFacts DEF Others
  <2>6. OneBox(x)'
    BY <1>2, <2>1, <2>2, <2>3, NoTaskFacts DEF OneBox
  <2>7. task'[x].progr \in Players
    BY <1>2, <2>1, <2>2 DEF Me
  <2>8. QED  BY <2>4, <2>5, <2>6, <2>7, PlaceMoved
<1>7. CASE SuspendExternally
  <2>1. /\ Running /\ external_queue' = external_queue \cup {current_task_id}
        /\ current_task_id' = NoTask
        /\ UNCHANGED <<waiting_tasks, disk, reading, bg, task>>
    BY <1>7 DEF SuspendExternally, queues
  <2>2. PICK x \in Ids : x = current_task_id
    BY <1>2, <2>1
  <2>3. Lists'
    BY <2>1 DEF PlaceInv, Lists
  <2>4. Others(x)
    BY <2>1, <2>2, NoTaskFacts DEF Others
  <2>5. OneBox(x)'
    BY <1>2, <2>1, <2>2, NoTaskFacts DEF OneBox
  <2>6. task'[x].progr \in Players
    BY <1>2, <2>1, <2>2 DEF Me
  <2>7. QED  BY <2>3, <2>4, <2>5, <2>6, PlaceMoved
<1>8. CASE \E i \in 1 .. Len(waiting_tasks) : KillWaiting(i)
  <2>1. PICK i \in 1 .. Len(waiting_tasks) : KillWaiting(i)
    BY <1>8
  <2>2. PICK x : x = waiting_tasks[i]
    OBVIOUS
  <2>3. /\ waiting_tasks' = RemoveAt(waiting_tasks, i)
        /\ task' = [task EXCEPT ![x] = NoTaskRec]
        /\ UNCHANGED <<disk, external_queue, current_task_id, bg, reading>>
    BY <2>1, <2>2 DEF KillWaiting, Forget, sched
  <2>4. /\ x \in Ids /\ On(waiting_tasks, x) /\ NoDup(waiting_tasks')
        /\ \A y : On(waiting_tasks', y) <=> On(waiting_tasks, y) /\ y # x
    BY <2>2, <2>3, WaitingRemoved
  <2>5. OneBox(x)
    BY <2>4 DEF PlaceInv, Unique
  <2>6. Lists'
    BY <2>3, <2>4 DEF PlaceInv, Lists
  <2>7. Others(x)
    BY <1>3, <2>3, <2>4 DEF Others
  <2>8. ~Placed(x)'
    BY <2>3, <2>4, <2>5 DEF OneBox, Placed
  <2>9. QED  BY <2>4, <2>6, <2>7, <2>8, PlaceGone
<1>9. CASE \E i \in 1 .. Len(waiting_tasks) : DoResume(i)
  <2>1. PICK i \in 1 .. Len(waiting_tasks) : DoResume(i)
    BY <1>9
  <2>2. PICK x : x = waiting_tasks[i]
    OBVIOUS
  <2>3. /\ waiting_tasks' = RemoveAt(waiting_tasks, i)
        /\ task' = [task EXCEPT ![x].start = 0]
        /\ UNCHANGED <<disk, external_queue, current_task_id, reading>>
        /\ \E q \in Tqs : bg' = [bg EXCEPT ![q] = Append(@, x)]
    BY <2>1, <2>2 DEF DoResume, sched
  <2>4. /\ x \in Ids /\ On(waiting_tasks, x) /\ NoDup(waiting_tasks')
        /\ \A y : On(waiting_tasks', y) <=> On(waiting_tasks, y) /\ y # x
    BY <2>2, <2>3, WaitingRemoved
  <2>5. \A id \in Ids : task'[id].progr = task[id].progr
    <3> DEFINE rec == [task[x] EXCEPT !.start = 0]
    <3>1. rec.progr = task[x].progr /\ task' = [task EXCEPT ![x] = rec]
      BY <1>1, <2>3, <2>4 DEF TaskRec
    <3> HIDE DEF rec
    <3>2. QED  BY <1>1, <3>1
  <2>6. x \notin external_queue
    BY <2>4 DEF PlaceInv, Unique, OneBox
  <2>7. QED  BY <2>3, <2>4, <2>5, <2>6, PlaceToBg
<1>10. CASE \E q \in Tqs : KillReading(q)
  <2>1. PICK q \in Tqs : KillReading(q)
    BY <1>10
  <2>2. PICK x \in Ids : x = reading[q]
    BY <1>1, <2>1 DEF KillReading
  <2>3. /\ reading' = [reading EXCEPT ![q] = NoTask]
        /\ task' = [task EXCEPT ![x] = NoTaskRec]
        /\ UNCHANGED <<waiting_tasks, disk, external_queue, current_task_id, bg>>
    BY <2>1, <2>2 DEF KillReading, Forget, sched
  <2>4. reading'[q] = NoTask /\ \A r \in Tqs : r # q => reading'[r] = reading[r]
    BY <1>1, <2>3
  <2>5. OneBox(x)
    BY DEF PlaceInv, Unique
  <2>6. Lists'
    BY <2>3 DEF PlaceInv, Lists
  <2>7. Others(x)
    BY <1>3, <2>3, <2>4, NoTaskFacts DEF Others
  <2>8. ~Placed(x)'
    BY <2>2, <2>3, <2>4, <2>5, NoTaskFacts DEF OneBox, Placed
  <2>9. QED  BY <2>6, <2>7, <2>8, PlaceGone
<1>11. CASE \E q \in Tqs : \E i \in 1 .. Len(bg[q]) : KillBg(q, i)
  BY <1>11, PlaceKillBg
<1>12. CASE \E id \in Ids : KillExternal(id)
  <2>1. PICK x \in Ids : KillExternal(x)
    BY <1>12
  <2>2. /\ external_queue' = external_queue \ {x} /\ x \in external_queue
        /\ task' = [task EXCEPT ![x] = NoTaskRec]
        /\ UNCHANGED <<waiting_tasks, disk, reading, current_task_id, bg>>
    BY <2>1 DEF KillExternal, Forget, sched, queues
  <2>3. OneBox(x)
    BY DEF PlaceInv, Unique
  <2>4. Lists'
    BY <2>2 DEF PlaceInv, Lists
  <2>5. Others(x)
    BY <1>3, <2>2 DEF Others
  <2>6. ~Placed(x)'
    BY <2>2, <2>3 DEF OneBox, Placed
  <2>7. QED  BY <2>4, <2>5, <2>6, PlaceGone
<1>13. CASE Finish
  <2>1. PICK x \in Ids : x = current_task_id
    BY <1>2, <1>13 DEF Finish
  <2>2. /\ current_task_id' = NoTask
        /\ task' = [task EXCEPT ![x] = NoTaskRec]
        /\ UNCHANGED <<waiting_tasks, disk, reading, external_queue, bg>>
    BY <1>13, <2>1 DEF Finish, Forget, queues
  <2>3. OneBox(x)
    BY DEF PlaceInv, Unique
  <2>4. Lists'
    BY <2>2 DEF PlaceInv, Lists
  <2>5. Others(x)
    BY <1>3, <2>2, NoTaskFacts DEF Others
  <2>6. ~Placed(x)'
    BY <2>1, <2>2, <2>3, NoTaskFacts DEF OneBox, Placed
  <2>7. QED  BY <2>4, <2>5, <2>6, PlaceGone
<1>14. CASE \E u \in Users, old \in Tqs : LoginTask(u, old)
  BY <1>14, PlaceLogin
<1>15. CASE UNCHANGED <<waiting_tasks, disk, external_queue, current_task_id,
                        bg, reading, task>>
  BY <1>15, PlaceSame
<1>16. QED
  BY <1>4, <1>5, <1>6, <1>7, <1>8, <1>9, <1>10, <1>11, <1>12, <1>13, <1>14,
     <1>15 DEF TaskStep, ReadInputNow, ForceInput, FlushInput, sched

-----------------------------------------------------------------------------
(* What a dump writes *)

\* What the loop of write_task_queue() writes of a list.
LEMMA OfKindList ==
  ASSUME NEW s \in Seq(Ids), NEW k
  PROVE  /\ OfKind(s, k) \in Seq(Ids)
         /\ \A x : On(OfKind(s, k), x) <=> On(s, x) /\ task[x].kind = k
         /\ NoDup(s) => NoDup(OfKind(s, k))
<1>0. PICK e : e = << >>
  OBVIOUS
<1>a. e \in Seq(Ids)
  BY <1>0
<1>1. PICK n \in Nat : n = Len(s)
  OBVIOUS
<1>2. PICK g \in [Seq(Ids) \X (1 .. n) -> Seq(Ids)] :
        \A t \in Seq(Ids), i \in 1 .. n :
          g[<<t, i>>] = IF task[s[i]].kind = k THEN Append(t, s[i]) ELSE t
  <2> DEFINE h == [p \in Seq(Ids) \X (1 .. n) |->
                     IF task[s[p[2]]].kind = k THEN Append(p[1], s[p[2]])
                     ELSE p[1]]
  <2>1. \A p \in Seq(Ids) \X (1 .. n) : p[1] \in Seq(Ids) /\ s[p[2]] \in Ids
    BY <1>1
  <2>2. h \in [Seq(Ids) \X (1 .. n) -> Seq(Ids)]
    BY <2>1
  <2>3. \A t \in Seq(Ids), i \in 1 .. n :
          h[<<t, i>>] = IF task[s[i]].kind = k THEN Append(t, s[i]) ELSE t
    OBVIOUS
  <2> QED  BY <2>2, <2>3
<1>3. PICK f \in [0 .. n -> Seq(Ids)] :
        f[0] = e /\ \A i \in 1 .. n : f[i] = g[<<f[i - 1], i>>]
  <2>1. IsStep(g, Seq(Ids), n)
    BY DEF IsStep
  <2>2. \E f : IsRun(f, Seq(Ids), e, n, g)
    BY <1>a, <2>1, Recursion
  <2>3. QED  BY <2>2 DEF IsRun
<1>4. \A i \in 0 .. n :
        f[i] = IF i = 0 THEN e
               ELSE IF task[s[i]].kind = k THEN Append(f[i - 1], s[i])
               ELSE f[i - 1]
  <2> TAKE i \in 0 .. n
  <2>1. CASE i = 0
    BY <1>3, <2>1
  <2>2. CASE i # 0
    <3>1. i \in 1 .. n /\ i - 1 \in 0 .. n
      BY <2>2
    <3>2. f[i - 1] \in Seq(Ids)
      BY <1>3, <3>1
    <3>3. f[i] = g[<<f[i - 1], i>>]
      BY <1>3, <3>1
    <3>4. QED  BY <1>2, <2>2, <3>1, <3>2, <3>3
  <2>3. QED  BY <2>1, <2>2
<1> DEFINE Rec(h) == h = [i \in 0 .. Len(s) |->
                            IF i = 0 THEN e
                            ELSE IF task[s[i]].kind = k
                            THEN Append(h[i - 1], s[i]) ELSE h[i - 1]]
<1>5. Rec(f)
  BY <1>1, <1>3, <1>4
<1>6. PICK kept : Rec(kept) /\ OfKind(s, k) = kept[Len(s)]
  <2>1. OfKind(s, k) = (CHOOSE h : Rec(h))[Len(s)]
    BY <1>0, Zenon DEF OfKind
  <2>2. Rec(CHOOSE h : Rec(h))
    <3> HIDE DEF Rec
    <3> QED  BY <1>5
  <2> QED  BY <2>1, <2>2
<1>7. /\ kept[0] = e
      /\ \A i \in 1 .. Len(s) :
           kept[i] = IF task[s[i]].kind = k THEN Append(kept[i - 1], s[i])
                     ELSE kept[i - 1]
  <2>1. ASSUME NEW i \in 0 .. Len(s)
        PROVE  kept[i] = IF i = 0 THEN e
                         ELSE IF task[s[i]].kind = k
                         THEN Append(kept[i - 1], s[i]) ELSE kept[i - 1]
    BY <1>6, Zenon
  <2>2. 0 \in 0 .. Len(s) /\ \A i \in 1 .. Len(s) : i \in 0 .. Len(s) /\ i # 0
    OBVIOUS
  <2> QED  BY <2>1, <2>2
<1> HIDE DEF Rec
<1> DEFINE T == {i \in Nat : i <= Len(s) =>
                   /\ kept[i] \in Seq(Ids)
                   /\ \A x : On(kept[i], x)
                        <=> (\E j \in 1 .. i : s[j] = x) /\ task[x].kind = k
                   /\ NoDup(s) => NoDup(kept[i])}
<1>8. 0 \in T
  <2>1. Len(e) = 0 /\ e \in Seq(Ids)
    BY <1>0
  <2>2. NoDup(e) /\ \A x : ~On(e, x)
    BY <2>1 DEF On, NoDup
  <2>3. \A x : ~(\E j \in 1 .. 0 : s[j] = x)
    OBVIOUS
  <2> QED  BY <1>7, <2>1, <2>2, <2>3
<1>9. ASSUME NEW i \in Nat, i \in T PROVE i + 1 \in T
  <2> SUFFICES ASSUME i + 1 <= Len(s)
               PROVE  /\ kept[i + 1] \in Seq(Ids)
                      /\ \A x : On(kept[i + 1], x)
                           <=> /\ \E j \in 1 .. i + 1 : s[j] = x
                               /\ task[x].kind = k
                      /\ NoDup(s) => NoDup(kept[i + 1])
    OBVIOUS
  <2>1. /\ kept[i] \in Seq(Ids)
        /\ \A x : On(kept[i], x)
                    <=> (\E j \in 1 .. i : s[j] = x) /\ task[x].kind = k
        /\ NoDup(s) => NoDup(kept[i])
    BY <1>9
  <2>2. i + 1 \in 1 .. Len(s) /\ s[i + 1] \in Ids
    OBVIOUS
  <2>3. kept[i + 1] = IF task[s[i + 1]].kind = k THEN Append(kept[i], s[i + 1])
                      ELSE kept[i]
    <3>1. (i + 1) - 1 = i
      OBVIOUS
    <3> QED  BY <1>7, <2>2, <3>1
  <2>4. \A x : (\E j \in 1 .. i + 1 : s[j] = x)
                 <=> (\E j \in 1 .. i : s[j] = x) \/ x = s[i + 1]
    OBVIOUS
  <2>5. CASE task[s[i + 1]].kind = k
    <3>1. /\ kept[i + 1] \in Seq(Ids)
          /\ \A x : On(kept[i + 1], x) <=> On(kept[i], x) \/ x = s[i + 1]
          /\ NoDup(kept[i]) /\ ~On(kept[i], s[i + 1]) => NoDup(kept[i + 1])
      BY <2>1, <2>2, <2>3, <2>5, AppendOn
    <3>2. NoDup(s) => ~On(kept[i], s[i + 1])
      <4>1. ASSUME NoDup(s), NEW j \in 1 .. i, s[j] = s[i + 1] PROVE FALSE
        <5>1. j \in 1 .. Len(s) /\ j # i + 1
          OBVIOUS
        <5> QED  BY <2>2, <4>1, <5>1 DEF NoDup
      <4> QED  BY <2>1, <4>1
    <3> QED  BY <2>1, <2>4, <2>5, <3>1, <3>2
  <2>6. CASE task[s[i + 1]].kind # k
    BY <2>1, <2>3, <2>4, <2>6
  <2> QED  BY <2>5, <2>6
<1>10. Nat \subseteq T
  <2> HIDE DEF T
  <2> QED  BY <1>8, <1>9, NatClosed
<1>11. Len(s) \in T
  <2> HIDE DEF T
  <2> QED  BY <1>10
<1>12. /\ kept[Len(s)] \in Seq(Ids)
       /\ \A x : On(kept[Len(s)], x)
            <=> (\E j \in 1 .. Len(s) : s[j] = x) /\ task[x].kind = k
       /\ NoDup(s) => NoDup(kept[Len(s)])
  <2>1. Len(s) \in Nat /\ Len(s) <= Len(s)
    OBVIOUS
  <2> QED  BY <1>11, <2>1
<1>13. \A x : On(s, x) <=> \E j \in 1 .. Len(s) : s[j] = x
  BY DEF On
<1> HIDE DEF T
<1> QED  BY <1>6, <1>12, <1>13, Zenon

\* The lists of the queues, one after the other.
LEMMA FlattenList ==
  ASSUME NEW w \in Seq(Seq(Ids))
  PROVE  /\ FlattenSeq(w) \in Seq(Ids)
         /\ \A x : On(FlattenSeq(w), x) <=> \E i \in 1 .. Len(w) : On(w[i], x)
         /\ (/\ \A i \in 1 .. Len(w) : NoDup(w[i])
             /\ \A i, j \in 1 .. Len(w) : \A x :
                  On(w[i], x) /\ On(w[j], x) => i = j)
              => NoDup(FlattenSeq(w))
<1>1. CASE Len(w) = 0
  <2>1. FlattenSeq(w) = w
    BY <1>1 DEF FlattenSeq
  <2>2. w \in Seq(Ids) /\ \A x : ~On(w, x)
    BY <1>1 DEF On
  <2>3. NoDup(w)
    BY <1>1 DEF NoDup
  <2>4. QED  BY <1>1, <2>1, <2>2, <2>3
<1>2. CASE Len(w) # 0
  <2>1. PICK n \in Nat : n + 1 = Len(w)
    <3>1. Len(w) - 1 \in Nat /\ (Len(w) - 1) + 1 = Len(w)
      BY <1>2
    <3>2. QED  BY <3>1
  <2>2. PICK g : /\ IsStep(g, Seq(Ids), n)
                 /\ \A t \in Seq(Ids), i \in 1 .. n : g[<<t, i>>] = t \o w[i + 1]
    <3> DEFINE h == [p \in Seq(Ids) \X (1 .. n) |-> p[1] \o w[p[2] + 1]]
    <3>1. ASSUME NEW p \in Seq(Ids) \X (1 .. n)
          PROVE  p[1] \o w[p[2] + 1] \in Seq(Ids)
      <4>1. p[1] \in Seq(Ids) /\ w[p[2] + 1] \in Seq(Ids)
        BY <2>1
      <4>2. QED  BY <4>1
    <3>2. h \in [Seq(Ids) \X (1 .. n) -> Seq(Ids)]
      BY <3>1
    <3>3. \A t \in Seq(Ids), i \in 1 .. n : h[<<t, i>>] = t \o w[i + 1]
      OBVIOUS
    <3> HIDE DEF h
    <3>4. QED  BY <3>2, <3>3 DEF IsStep
  <2>3. w[1] \in Seq(Ids)
    BY <2>1
  <2>4. \E f : IsRun(f, Seq(Ids), w[1], n, g)
    BY <2>1, <2>2, <2>3, Recursion
  <2>5. PICK f \in [0 .. n -> Seq(Ids)] :
          f[0] = w[1] /\ \A i \in 1 .. n : f[i] = g[<<f[i - 1], i>>]
    BY <2>4 DEF IsRun
  <2>6. ASSUME NEW i \in 1 .. n PROVE f[i] = f[i - 1] \o w[i + 1]
    <3>1. f[i - 1] \in Seq(Ids) /\ f[i] = g[<<f[i - 1], i>>]
      BY <2>5
    <3>2. QED  BY <2>2, <3>1
  <2> DEFINE Rec(h) == h = [i \in 1 .. Len(w) |->
                              IF i = 1 THEN w[i] ELSE h[i - 1] \o w[i]]
  <2>7. \E h : Rec(h)
    <3> DEFINE h == [i \in 1 .. Len(w) |-> f[i - 1]]
    <3>1. ASSUME NEW i \in 1 .. Len(w)
          PROVE  h[i] = IF i = 1 THEN w[i] ELSE h[i - 1] \o w[i]
      <4>1. CASE i = 1
        BY <2>5, <4>1
      <4>2. CASE i # 1
        <5>1. /\ i - 1 \in 1 .. n /\ i - 1 \in 1 .. Len(w)
              /\ (i - 1) + 1 = i
          BY <2>1, <4>2
        <5>2. f[i - 1] = f[(i - 1) - 1] \o w[i]
          BY <2>6, <5>1
        <5>3. h[i] = f[i - 1] /\ h[i - 1] = f[(i - 1) - 1]
          BY <5>1
        <5>4. QED  BY <4>2, <5>2, <5>3
      <4>3. QED  BY <4>1, <4>2
    <3>2. h = [i \in 1 .. Len(w) |-> h[i]]
      OBVIOUS
    <3> HIDE DEF h
    <3>3. Rec(h)
      BY <3>1, <3>2
    <3>4. QED  BY <3>3
  <2>8. PICK kept : Rec(kept) /\ FlattenSeq(w) = kept[Len(w)]
    <3>1. FlattenSeq(w) = (CHOOSE h : Rec(h))[Len(w)]
      BY <1>2, Zenon DEF FlattenSeq
    <3>2. Rec(CHOOSE h : Rec(h))
      <4> HIDE DEF Rec
      <4>1. QED  BY <2>7
    <3>3. QED  BY <3>1, <3>2
  <2>9. ASSUME NEW i \in 1 .. Len(w)
        PROVE  kept[i] = IF i = 1 THEN w[i] ELSE kept[i - 1] \o w[i]
    BY <2>8, Zenon
  <2> HIDE DEF Rec
  <2> DEFINE Disjoint == /\ \A i \in 1 .. Len(w) : NoDup(w[i])
                         /\ \A i, j \in 1 .. Len(w) : \A x :
                              On(w[i], x) /\ On(w[j], x) => i = j
             T == {i \in Nat : i + 1 <= Len(w) =>
                     /\ kept[i + 1] \in Seq(Ids)
                     /\ \A x : On(kept[i + 1], x)
                                 <=> \E j \in 1 .. i + 1 : On(w[j], x)
                     /\ Disjoint => NoDup(kept[i + 1])}
  <2>10. 0 \in T
    <3>1. kept[1] = w[1] /\ 1 \in 1 .. Len(w) /\ 0 + 1 = 1
      BY <2>1, <2>9
    <3>2. \A x : On(w[1], x) <=> \E j \in 1 .. 1 : On(w[j], x)
      OBVIOUS
    <3>3. Disjoint => NoDup(w[1])
      BY <3>1
    <3> HIDE DEF Disjoint
    <3>4. QED  BY <2>3, <3>1, <3>2, <3>3
  <2>11. ASSUME NEW i \in Nat, i \in T PROVE i + 1 \in T
    <3> DEFINE k == i + 1
    <3>1. k \in Nat /\ k + 1 = i + 1 + 1 /\ (k + 1) - 1 = k
      OBVIOUS
    <3> SUFFICES ASSUME k + 1 <= Len(w)
                 PROVE  /\ kept[k + 1] \in Seq(Ids)
                        /\ \A x : On(kept[k + 1], x)
                                    <=> \E j \in 1 .. k + 1 : On(w[j], x)
                        /\ Disjoint => NoDup(kept[k + 1])
      BY <3>1
    <3>2. /\ kept[k] \in Seq(Ids)
          /\ \A x : On(kept[k], x) <=> \E j \in 1 .. k : On(w[j], x)
          /\ Disjoint => NoDup(kept[k])
      <4> HIDE DEF Disjoint
      <4>1. QED  BY <2>11
    <3>3. k + 1 \in 1 .. Len(w) /\ k + 1 # 1 /\ w[k + 1] \in Seq(Ids)
      BY <3>1
    <3>4. kept[k + 1] = kept[k] \o w[k + 1]
      BY <2>9, <3>1, <3>3
    <3>5. \A x : (\E j \in 1 .. k + 1 : On(w[j], x))
                   <=> (\E j \in 1 .. k : On(w[j], x)) \/ On(w[k + 1], x)
      BY <3>1
    <3>6. ASSUME Disjoint, NEW x, On(kept[k], x), On(w[k + 1], x)
          PROVE  FALSE
      <4>1. PICK j \in 1 .. k : On(w[j], x)
        BY <3>2, <3>6
      <4>2. j \in 1 .. Len(w) /\ j # k + 1
        BY <3>1
      <4>3. QED  BY <3>3, <3>6, <4>1, <4>2
    <3>7. /\ kept[k] \o w[k + 1] \in Seq(Ids)
          /\ \A x : On(kept[k] \o w[k + 1], x) <=> On(kept[k], x) \/ On(w[k + 1], x)
      BY <3>2, <3>3, ConcatOn
    <3>8. ASSUME Disjoint PROVE NoDup(kept[k] \o w[k + 1])
      <4>1. NoDup(w[k + 1])
        BY <3>3, <3>8
      <4>2. NoDup(kept[k])
        BY <3>2, <3>8
      <4>3. \A x : ~(On(kept[k], x) /\ On(w[k + 1], x))
        BY <3>6, <3>8
      <4> HIDE DEF Disjoint
      <4>4. QED  BY <3>2, <3>3, <4>1, <4>2, <4>3, ConcatOn
    <3> HIDE DEF Disjoint, k
    <3>9. QED  BY <3>2, <3>4, <3>5, <3>7, <3>8
  <2>12. Nat \subseteq T
    <3> HIDE DEF T
    <3>1. QED  BY <2>10, <2>11, NatClosed
  <2>13. n \in T
    <3> HIDE DEF T
    <3>1. QED  BY <2>12
  <2>14. /\ kept[Len(w)] \in Seq(Ids)
         /\ \A x : On(kept[Len(w)], x) <=> \E j \in 1 .. Len(w) : On(w[j], x)
         /\ Disjoint => NoDup(kept[Len(w)])
    <3> HIDE DEF Disjoint
    <3>1. /\ kept[n + 1] \in Seq(Ids)
          /\ \A x : On(kept[n + 1], x) <=> \E j \in 1 .. n + 1 : On(w[j], x)
          /\ Disjoint => NoDup(kept[n + 1])
      BY <2>1, <2>13
    <3>2. QED  BY <2>1, <3>1, Zenon
  <2> HIDE DEF T
  <2>15. QED  BY <2>8, <2>14, Zenon
<1>3. QED  BY <1>1, <1>2

\* write_task_queue() writes each waiting task, and each background task of
\* an active queue, once.
LEMMA Written ==
  ASSUME CoreInv, PlaceInv
  PROVE  /\ WriteTaskQueue \in Seq(Ids) /\ NoDup(WriteTaskQueue)
         /\ \A x : On(WriteTaskQueue, x) <=>
              /\ task[x].kind \in {"FORKED", "SUSPENDED"}
              /\ \/ On(waiting_tasks, x)
                 \/ \E q \in Tqs : OnActive(q) /\ On(bg[q], x)
<1>1. /\ bg \in [Tqs -> Seq(Ids)] /\ active_tqueues \in Seq(Tqs)
      /\ waiting_tasks \in Seq(Ids)
      /\ NoDup(active_tqueues) /\ NoDup(waiting_tasks)
      /\ \A q \in Tqs : NoDup(bg[q])
  BY DEF CoreInv, TypeOK, ActiveListExact, NoDup, PlaceInv, Lists
<1>2. \A id \in Ids : OneBox(id)
  BY DEF PlaceInv, Unique
<1>3. PICK w \in Seq(Seq(Ids)) :
        /\ w = [i \in 1 .. Len(active_tqueues) |-> bg[active_tqueues[i]]]
        /\ Len(w) = Len(active_tqueues)
        /\ \A i \in 1 .. Len(active_tqueues) : w[i] = bg[active_tqueues[i]]
  <2> DEFINE v == [i \in 1 .. Len(active_tqueues) |-> bg[active_tqueues[i]]]
  <2>1. \A i \in 1 .. Len(active_tqueues) : v[i] \in Seq(Ids)
    BY <1>1
  <2>2. Len(active_tqueues) \in Nat
    BY <1>1
  <2>3. v \in Seq(Seq(Ids)) /\ Len(v) = Len(active_tqueues)
    BY <2>1, <2>2
  <2>4. QED  BY <2>3
<1>4. /\ \A i \in 1 .. Len(w) : NoDup(w[i])
      /\ \A i, j \in 1 .. Len(w) : \A x : On(w[i], x) /\ On(w[j], x) => i = j
  <2>1. \A i \in 1 .. Len(w) : active_tqueues[i] \in Tqs
    BY <1>1, <1>3
  <2>2. ASSUME NEW i \in 1 .. Len(w), NEW j \in 1 .. Len(w), NEW x,
               On(w[i], x), On(w[j], x)
        PROVE  i = j
    <3>1. On(bg[active_tqueues[i]], x) /\ On(bg[active_tqueues[j]], x)
      BY <1>3, <2>2
    <3>2. x \in Ids
      <4>1. bg[active_tqueues[i]] \in Seq(Ids)
        BY <1>1, <2>1
      <4>2. QED  BY <3>1, <4>1 DEF On
    <3>3. active_tqueues[i] = active_tqueues[j]
      BY <1>2, <2>1, <3>1, <3>2 DEF OneBox
    <3>4. QED  BY <1>1, <1>3, <3>3 DEF NoDup
  <2>3. QED  BY <1>1, <1>3, <2>1, <2>2
<1>5. PICK flat :
        /\ flat = FlattenSeq(w) /\ flat \in Seq(Ids) /\ NoDup(flat)
        /\ \A x : On(flat, x) <=> \E i \in 1 .. Len(w) : On(w[i], x)
  BY <1>4, FlattenList
<1>6. \A x : On(flat, x) <=> \E q \in Tqs : OnActive(q) /\ On(bg[q], x)
  <2>1. ASSUME NEW x, NEW i \in 1 .. Len(w), On(w[i], x)
        PROVE  \E q \in Tqs : OnActive(q) /\ On(bg[q], x)
    <3>1. active_tqueues[i] \in Tqs /\ OnActive(active_tqueues[i])
      BY <1>1, <1>3 DEF OnActive
    <3>2. QED  BY <1>3, <2>1, <3>1
  <2>2. ASSUME NEW x, NEW q \in Tqs, OnActive(q), On(bg[q], x)
        PROVE  \E i \in 1 .. Len(w) : On(w[i], x)
    BY <1>3, <2>2 DEF OnActive
  <2>3. QED  BY <1>5, <2>1, <2>2
<1>7. ASSUME NEW x, On(waiting_tasks, x), On(flat, x) PROVE FALSE
  <2>1. x \in Ids
    BY <1>1, <1>7 DEF On
  <2>2. QED  BY <1>2, <1>6, <1>7, <2>1 DEF OneBox
<1>8. PICK all :
        /\ all = waiting_tasks \o flat /\ all \in Seq(Ids) /\ NoDup(all)
        /\ \A x : On(all, x) <=> On(waiting_tasks, x) \/ On(flat, x)
  BY <1>1, <1>5, <1>7, ConcatOn
<1>a. PICK f :
        /\ f = OfKind(all, "FORKED") /\ f \in Seq(Ids) /\ NoDup(f)
        /\ \A x : On(f, x) <=> On(all, x) /\ task[x].kind = "FORKED"
  BY <1>8, OfKindList
<1>b. PICK s :
        /\ s = OfKind(all, "SUSPENDED") /\ s \in Seq(Ids) /\ NoDup(s)
        /\ \A x : On(s, x) <=> On(all, x) /\ task[x].kind = "SUSPENDED"
  BY <1>8, OfKindList
<1>9. \A x : ~(On(f, x) /\ On(s, x))
  BY <1>a, <1>b
<1>10. WriteTaskQueue = f \o s
  BY <1>3, <1>5, <1>8, <1>a, <1>b DEF WriteTaskQueue
<1>11. /\ f \o s \in Seq(Ids) /\ NoDup(f \o s)
       /\ \A x : On(f \o s, x) <=> On(f, x) \/ On(s, x)
  BY <1>a, <1>b, <1>9, ConcatOn
<1>12. \A x : On(f \o s, x) <=>
              /\ task[x].kind \in {"FORKED", "SUSPENDED"}
              /\ \/ On(waiting_tasks, x)
                 \/ \E q \in Tqs : OnActive(q) /\ On(bg[q], x)
  BY <1>6, <1>8, <1>a, <1>b, <1>11
<1>13. QED  BY <1>10, <1>11, <1>12

\* A restart leaves a task only on disk.
LEMMA PlaceRestart ==
  ASSUME CoreInv, PlaceInv, Restart
  PROVE  PlaceInv'
<1>1. /\ disk' = WriteTaskQueue /\ current_task_id' = NoTask
      /\ waiting_tasks' = << >> /\ external_queue' = {}
      /\ \A q \in Tqs : bg'[q] = << >> /\ reading'[q] = NoTask
      /\ \A id \in Ids : task'[id] = IF \E i \in 1 .. Len(disk') : disk'[i] = id
                                     THEN task[id] ELSE NoTaskRec
  BY DEF Restart, Io
<1>2. NoDup(<< >>) /\ \A y : ~On(<< >>, y)
  BY DEF NoDup, On
<1>3. Lists'
  BY <1>1, <1>2, Written DEF Lists
<1>4. Unique'
  BY <1>1, <1>2, NoTaskFacts DEF Unique, OneBox
<1>5. ASSUME NEW id \in Ids, Placed(id)' PROVE task'[id].progr \in Players
  <2>1. On(disk', id)
    BY <1>1, <1>2, <1>5, NoTaskFacts DEF Placed
  <2>2. Placed(id)
    BY <1>1, <2>1, Written DEF Placed
  <2>3. task'[id] = task[id]
    BY <1>1, <2>1 DEF On
  <2>4. QED  BY <2>2, <2>3 DEF PlaceInv, Real
<1>6. QED  BY <1>3, <1>4, <1>5 DEF PlaceInv, Real

\* Every step keeps PlaceInv.
LEMMA PlaceNext ==
  ASSUME CoreInv, PlaceInv, [Next]_vars
  PROVE  PlaceInv'
<1>1. CASE \E p \in Progrs : StartServerTask(p)
  BY <1>1, PlaceNew, SetsAssumption DEF StartServerTask, queues
<1>2. CASE LoadTask
  <2>1. PICK x \in Ids :
          /\ disk # << >> /\ x = Head(disk) /\ disk' = Tail(disk)
          /\ \E q \in Tqs : EnqueueWaiting(q, x, task[x])
          /\ UNCHANGED <<current_task_id, external_queue, bg, reading>>
    BY <1>2 DEF LoadTask, sched
  <2>2. task[x].progr \in Players
    <3>1. disk \in Seq(Ids)
      BY DEF PlaceInv, Lists
    <3>2. On(disk, x)
      BY <2>1, <3>1 DEF On
    <3>3. QED  BY <3>2 DEF PlaceInv, Real, Placed
  <2>3. QED  BY <2>1, <2>2, PlaceToWaiting
<1>3. CASE Tick \/ LoadDone \/ UNCHANGED vars
  BY <1>3, PlaceSame DEF Tick, LoadDone, vars, queues, sched
<1>4. QED
  BY <1>1, <1>2, <1>3, PlaceNetwork, PlaceScheduler, PlaceTask, PlaceRestart
     DEF Next

\* Every initial state satisfies PlaceInv.
LEMMA PlaceInit == Init => PlaceInv
<1> SUFFICES ASSUME Init PROVE PlaceInv
  OBVIOUS
<1>1. NoDup(<< >>) /\ \A y : ~On(<< >>, y)
  BY DEF NoDup, On
<1>2. /\ disk = << >> /\ waiting_tasks = << >> /\ external_queue = {}
      /\ current_task_id = NoTask
      /\ \A q \in Tqs : bg[q] = << >> /\ reading[q] = NoTask
  BY DEF Init
<1>3. Lists
  BY <1>1, <1>2 DEF Lists
<1>4. \A id \in Ids : ~Placed(id)
  BY <1>1, <1>2, NoTaskFacts DEF Placed
<1>5. QED  BY <1>3, <1>4 DEF PlaceInv, Unique, Real, OneBox, Placed

\* PlaceInv counts the places of a task.
LEMMA PlaceImplies == CoreInv /\ PlaceInv => OnePlace
<1> SUFFICES ASSUME CoreInv, PlaceInv, NEW id \in Ids
             PROVE  Cardinality(Places(id)) <= 1
  BY DEF OnePlace
<1>1. OneBox(id) /\ Lists
  BY DEF PlaceInv, Unique
<1>2. ASSUME NEW a \in Places(id), NEW b \in Places(id) PROVE a = b
  <2> DEFINE Wait(p) == \E i \in 1 .. Len(waiting_tasks) :
                          waiting_tasks[i] = id /\ p = <<"waiting", i>>
             Back(p) == \E q \in Tqs : \E i \in 1 .. Len(bg[q]) :
                          bg[q][i] = id /\ p = <<"bg", q, i>>
             Read(p) == \E q \in Tqs : reading[q] = id /\ p = <<"reading", q>>
             Disk(p) == \E i \in 1 .. Len(disk) :
                          disk[i] = id /\ p = <<"disk", i>>
             Ext(p) == id \in external_queue /\ p = <<"external">>
             Cur(p) == id = current_task_id /\ p = <<"running">>
  <2>1. \A p \in Places(id) :
          Wait(p) \/ Back(p) \/ Read(p) \/ Disk(p) \/ Ext(p) \/ Cur(p)
    BY DEF Places
  <2>2. /\ \A p : Wait(p) => On(waiting_tasks, id)
        /\ \A p : Back(p) => \E q \in Tqs : On(bg[q], id)
        /\ \A p : Disk(p) => On(disk, id)
    BY DEF On
  <2>3. \A p, r : Wait(p) /\ Wait(r) => p = r
    BY <1>1 DEF Lists, NoDup
  <2>4. \A p, r : Disk(p) /\ Disk(r) => p = r
    BY <1>1 DEF Lists, NoDup
  <2>5. ASSUME NEW p, NEW r, Back(p), Back(r) PROVE p = r
    <3>1. PICK q \in Tqs : \E i \in 1 .. Len(bg[q]) :
                          bg[q][i] = id /\ p = <<"bg", q, i>>
      BY <2>5
    <3>2. PICK s \in Tqs : \E i \in 1 .. Len(bg[s]) :
                          bg[s][i] = id /\ r = <<"bg", s, i>>
      BY <2>5
    <3>3. q = s
      BY <1>1, <3>1, <3>2 DEF OneBox, On
    <3>4. QED  BY <1>1, <3>1, <3>2, <3>3 DEF Lists, NoDup
  <2>6. \A p, r : Read(p) /\ Read(r) => p = r
    BY <1>1 DEF OneBox
  <2>7. \A p, r : (Ext(p) /\ Ext(r)) \/ (Cur(p) /\ Cur(r)) => p = r
    OBVIOUS
  <2>8. /\ \A p : Read(p) => \E q \in Tqs : reading[q] = id
        /\ \A p : Ext(p) => id \in external_queue
        /\ \A p : Cur(p) => id = current_task_id
    OBVIOUS
  <2> HIDE DEF Wait, Back, Read, Disk, Ext, Cur
  <2>9. QED
    BY <1>1, <2>1, <2>2, <2>3, <2>4, <2>5, <2>6, <2>7, <2>8 DEF OneBox
<1>3. CASE Places(id) = {}
  BY <1>3, FS_EmptySet
<1>4. CASE Places(id) # {}
  <2>1. PICK a : Places(id) = {a}
    BY <1>2, <1>4
  <2>2. Cardinality({a}) = 1
    BY FS_Singleton
  <2>3. QED  BY <2>1, <2>2
<1>5. QED  BY <1>3, <1>4

\* A task is in one place in every state: no list, reader, dump, external
\* queue or interpreter ever shares it with another.
THEOREM TaskInOnePlace == Spec => []OnePlace
<1>1. CoreInv /\ PlaceInv /\ [Next]_vars => (CoreInv /\ PlaceInv)'
  BY CoreNext, PlaceNext
<1>2. QED
  BY <1>1, CoreInit, PlaceInit, PlaceImplies, PTL DEF Spec

-----------------------------------------------------------------------------
(* Sorted lists *)

\* The elements of s are in the order of their keys.
Sorted(s, key) == \A i, j \in 1 .. Len(s) : i < j => key[s[i]] <= key[s[j]]

\* A list stays in order when the keys of its elements do not change.
LEMMA SortedKeys ==
  ASSUME NEW S, NEW s \in Seq(S), NEW key, NEW new, Sorted(s, key),
         \A x : On(s, x) => new[x] = key[x]
  PROVE  Sorted(s, new)
BY DEF Sorted, On

\* An element put before the first one of a greater key, and after those of
\* keys no greater, is where it belongs.
LEMMA SortedInsert ==
  ASSUME NEW S, NEW s \in Seq(S), NEW key, NEW new,
         NEW i \in 1 .. Len(s) + 1, NEW e \in S, Sorted(s, key),
         \A x \in S : key[x] \in Int, new[e] \in Int,
         \A x : On(s, x) => new[x] = key[x],
         \A j \in 1 .. i - 1 : key[s[j]] <= new[e],
         i <= Len(s) => new[e] < key[s[i]]
  PROVE  Sorted(InsertAt(s, i, e), new)
<1> DEFINE t == InsertAt(s, i, e)
<1>1. Len(t) = Len(s) + 1
  BY InsertAtElements
<1>2. \A k \in 1 .. Len(s) + 1 :
        t[k] = IF k < i THEN s[k] ELSE IF k = i THEN e ELSE s[k - 1]
  BY InsertAtElements
<1> HIDE DEF t
<1>3. \A k \in 1 .. Len(s) : s[k] \in S /\ key[s[k]] \in Int
                             /\ new[s[k]] = key[s[k]]
  BY DEF On
<1>4. \A j \in 1 .. Len(s), k \in 1 .. Len(s) : j <= k => key[s[j]] <= key[s[k]]
  BY <1>3 DEF Sorted
<1>5. \A k \in 1 .. Len(s) : i <= k => new[e] < key[s[k]]
  <2> SUFFICES ASSUME NEW k \in 1 .. Len(s), i <= k PROVE new[e] < key[s[k]]
    OBVIOUS
  <2>1. i \in 1 .. Len(s) /\ new[e] < key[s[i]] /\ key[s[i]] <= key[s[k]]
    BY <1>4
  <2>2. QED  BY <1>3, <2>1
<1>6. ASSUME NEW j \in 1 .. Len(s) + 1, NEW k \in 1 .. Len(s) + 1, j < k
      PROVE  new[t[j]] <= new[t[k]]
  <2>1. CASE k < i
    <3>1. j \in 1 .. Len(s) /\ k \in 1 .. Len(s) /\ j < i
      BY <1>6, <2>1
    <3>2. t[j] = s[j] /\ t[k] = s[k]
      BY <1>2, <2>1, <3>1
    <3>3. QED  BY <1>3, <1>4, <1>6, <3>1, <3>2
  <2>2. CASE k = i
    <3>1. j \in 1 .. Len(s) /\ j \in 1 .. i - 1 /\ j < i
      BY <1>6, <2>2
    <3>2. t[j] = s[j] /\ t[k] = e
      BY <1>2, <2>2, <3>1
    <3>3. QED  BY <1>3, <3>1, <3>2
  <2>3. CASE k > i /\ j = i
    <3>1. k - 1 \in 1 .. Len(s) /\ i <= k - 1
      BY <2>3
    <3>2. t[j] = e /\ t[k] = s[k - 1]
      BY <1>2, <2>3
    <3>3. QED  BY <1>3, <1>5, <3>1, <3>2
  <2>4. CASE k > i /\ j < i
    <3>1. /\ k - 1 \in 1 .. Len(s) /\ i <= k - 1
          /\ j \in 1 .. Len(s) /\ j \in 1 .. i - 1
      BY <2>4
    <3>2. t[j] = s[j] /\ t[k] = s[k - 1]
      BY <1>2, <2>4
    <3>3. key[s[j]] <= new[e] /\ new[e] < key[s[k - 1]]
      BY <1>5, <3>1
    <3>4. key[s[j]] \in Int /\ key[s[k - 1]] \in Int
      BY <1>3, <3>1
    <3>5. QED  BY <1>3, <3>1, <3>2, <3>3, <3>4
  <2>5. CASE k > i /\ j > i
    <3>1. /\ k - 1 \in 1 .. Len(s) /\ j - 1 \in 1 .. Len(s)
          /\ j - 1 <= k - 1
      BY <1>6, <2>5
    <3>2. t[j] = s[j - 1] /\ t[k] = s[k - 1]
      BY <1>2, <2>5
    <3>3. QED  BY <1>3, <1>4, <3>1, <3>2
  <2>6. QED  BY <2>1, <2>2, <2>3, <2>4, <2>5
<1>7. QED  BY <1>1, <1>6 DEF Sorted, t

\* A list stays in order when an element is taken out of it.
LEMMA SortedRemove ==
  ASSUME NEW S, NEW s \in Seq(S), NEW key, NEW i \in 1 .. Len(s),
         Sorted(s, key)
  PROVE  Sorted(RemoveAt(s, i), key)
<1> DEFINE t == RemoveAt(s, i)
<1>1. /\ Len(t) = Len(s) - 1
      /\ \A k \in 1 .. Len(s) - 1 : t[k] = IF k < i THEN s[k] ELSE s[k + 1]
  BY RemoveAtElements
<1> HIDE DEF t
<1>2. \A k \in 1 .. Len(t) :
        \E m \in 1 .. Len(s) : t[k] = s[m] /\ m = IF k < i THEN k ELSE k + 1
  BY <1>1
<1>3. Sorted(t, key)
  BY <1>1, <1>2 DEF Sorted
<1>4. QED  BY <1>3 DEF t

\* And when its head is taken off.
LEMMA SortedTail ==
  ASSUME NEW S, NEW s \in Seq(S), NEW key, s # << >>, Sorted(s, key)
  PROVE  Sorted(Tail(s), key)
<1> DEFINE t == Tail(s)
<1>1. Len(t) = Len(s) - 1 /\ \A k \in 1 .. Len(t) : t[k] = s[k + 1]
  BY HeadTailProperties
<1> HIDE DEF t
<1>2. Sorted(t, key)
  BY <1>1 DEF Sorted
<1>3. QED  BY <1>2 DEF t

-----------------------------------------------------------------------------
(* The active queues are in the order of their usage *)

ActiveSorted == Sorted(active_tqueues, usage)

\* ensure_usage() gives a queue the usage of the first one, or 0, and puts it
\* after the others of that usage.
LEMMA EnsureUsageSorted ==
  ASSUME CoreInv, ActiveSorted, NEW q \in Tqs, EnsureUsage(q)
  PROVE  ActiveSorted'
<1>1. /\ active_tqueues \in Seq(Tqs) /\ usage \in [Tqs -> Nat \cup {NO_USAGE}]
      /\ \A r \in Tqs : usage[r] \in Int
      /\ \A r \in Tqs : On(active_tqueues, r) <=> usage[r] # NO_USAGE
  BY DEF CoreInv, TypeOK, ActiveListExact, OnActive, On, NO_USAGE
<1>2. CASE usage[q] # NO_USAGE
  BY <1>2 DEF EnsureUsage, ActiveSorted
<1>3. CASE usage[q] = NO_USAGE
  <2>1. PICK u : u = IF active_tqueues = << >> THEN 0
                     ELSE usage[Head(active_tqueues)]
    OBVIOUS
  <2>2. /\ usage' = [usage EXCEPT ![q] = u]
        /\ Activated(active_tqueues, active_tqueues', q, u, usage)
    BY <1>3, <2>1 DEF EnsureUsage
  <2>3. u \in Nat
    BY <2>1, HeadIsQueue DEF CoreInv
  <2>4. /\ usage'[q] = u
        /\ \A x : On(active_tqueues, x) => usage'[x] = usage[x]
    <3>1. \A x : On(active_tqueues, x) => x \in Tqs /\ x # q
      BY <1>1, <1>3 DEF On
    <3>2. QED  BY <1>1, <2>2, <3>1
  <2>5. PICK i \in 1 .. Len(active_tqueues) + 1 :
          /\ \A j \in 1 .. i - 1 : usage[active_tqueues[j]] <= u
          /\ i <= Len(active_tqueues) => u < usage[active_tqueues[i]]
          /\ active_tqueues' = InsertAt(active_tqueues, i, q)
    BY <2>2 DEF Activated
  <2>6. Sorted(InsertAt(active_tqueues, i, q), usage')
    <3>1. /\ usage'[q] \in Int
          /\ \A j \in 1 .. i - 1 : usage[active_tqueues[j]] <= usage'[q]
          /\ i <= Len(active_tqueues) => usage'[q] < usage[active_tqueues[i]]
      BY <2>3, <2>4, <2>5
    <3>2. Sorted(active_tqueues, usage)
      BY DEF ActiveSorted
    <3>3. QED  BY <1>1, <2>4, <3>1, <3>2, SortedInsert
  <2>7. QED  BY <2>5, <2>6 DEF ActiveSorted
<1>4. QED  BY <1>2, <1>3

\* Every step keeps the active queues in order.
LEMMA ActiveSortedNext ==
  ASSUME CoreInv, ActiveSorted, [Next]_vars
  PROVE  ActiveSorted'
<1>1. /\ active_tqueues \in Seq(Tqs) /\ usage \in [Tqs -> Nat \cup {NO_USAGE}]
      /\ \A r \in Tqs : usage[r] \in Int
      /\ \A r \in Tqs : On(active_tqueues, r) <=> usage[r] # NO_USAGE
      /\ NoDup(active_tqueues)
  BY DEF CoreInv, TypeOK, ActiveListExact, OnActive, On, NoDup, NO_USAGE
<1>2. CASE UNCHANGED <<usage, active_tqueues>>
  BY <1>2 DEF ActiveSorted
<1>3. CASE \E q \in Tqs : EnsureUsage(q)
  BY <1>3, EnsureUsageSorted
<1>4. CASE \E q \in Tqs : PickNothing(q)
  <2>1. PICK q \in Tqs :
          /\ active_tqueues # << >> /\ q = Head(active_tqueues)
          /\ usage' = [usage EXCEPT ![q] = NO_USAGE]
          /\ active_tqueues' = Tail(active_tqueues)
    BY <1>4 DEF PickNothing, AtHead
  <2>2. Sorted(Tail(active_tqueues), usage)
    BY <1>1, <2>1, SortedTail DEF ActiveSorted
  <2>3. PICK t : t = Tail(active_tqueues)
    OBVIOUS
  <2>4. t \in Seq(Tqs) /\ ~On(t, q)
    BY <1>1, <2>1, <2>3, TailOn
  <2>5. \A x : On(t, x) => usage'[x] = usage[x]
    <3>1. \A x : On(t, x) => x \in Tqs /\ x # q
      BY <2>4 DEF On
    <3>2. QED  BY <1>1, <2>1, <3>1
  <2>6. Sorted(t, usage')
    BY <2>2, <2>3, <2>4, <2>5, SortedKeys
  <2>7. QED  BY <2>1, <2>3, <2>6 DEF ActiveSorted
<1>5. CASE \E secs \in 0 .. MaxUsage : TaskDone(secs)
  <2>1. PICK secs \in 0 .. MaxUsage : TaskDone(secs)
    BY <1>5
  <2>2. PICK q : q = running_tq
    OBVIOUS
  <2>3. PICK u : u = usage[q] + secs
    OBVIOUS
  <2>4. PICK i \in 1 .. Len(active_tqueues) :
          /\ active_tqueues[i] = q
          /\ usage' = [usage EXCEPT ![q] = u]
          /\ Activated(SubSeq(active_tqueues, i + 1, Len(active_tqueues)),
                       active_tqueues', q, u, usage)
    BY <2>1, <2>2, <2>3 DEF TaskDone
  <2>5. PICK t : t = SubSeq(active_tqueues, i + 1, Len(active_tqueues))
    OBVIOUS
  <2>6. /\ t \in Seq(Tqs) /\ Len(t) = Len(active_tqueues) - i
        /\ \A k \in 1 .. Len(t) : t[k] = active_tqueues[i + k]
    BY <1>1, <2>5, SubSeqProperties
  <2>7. Sorted(t, usage)
    BY <2>6 DEF ActiveSorted, Sorted
  <2>8. q \in Tqs /\ usage[q] \in Nat /\ u \in Nat
    <3>1. q \in Tqs /\ On(active_tqueues, q)
      BY <1>1, <2>4 DEF On
    <3>2. QED  BY <1>1, <2>3, <3>1
  <2>9. \A x : On(t, x) => x \in Tqs /\ x # q
    <3> SUFFICES ASSUME NEW k \in 1 .. Len(t) PROVE t[k] \in Tqs /\ t[k] # q
      BY DEF On
    <3>1. i + k \in 1 .. Len(active_tqueues) /\ t[k] = active_tqueues[i + k]
      BY <2>6
    <3>2. QED  BY <1>1, <2>4, <3>1 DEF NoDup
  <2>10. usage'[q] = u /\ \A x : On(t, x) => usage'[x] = usage[x]
    BY <1>1, <2>4, <2>8, <2>9
  <2>11. PICK j \in 1 .. Len(t) + 1 :
           /\ \A k \in 1 .. j - 1 : usage[t[k]] <= u
           /\ j <= Len(t) => u < usage[t[j]]
           /\ active_tqueues' = InsertAt(t, j, q)
    BY <2>4, <2>5 DEF Activated
  <2>12. Sorted(InsertAt(t, j, q), usage')
    <3>1. /\ usage'[q] \in Int
          /\ \A k \in 1 .. j - 1 : usage[t[k]] <= usage'[q]
          /\ j <= Len(t) => usage'[q] < usage[t[j]]
      BY <2>8, <2>10, <2>11
    <3>2. QED  BY <1>1, <2>6, <2>7, <2>8, <2>10, <3>1, SortedInsert
  <2>13. QED  BY <2>11, <2>12 DEF ActiveSorted
<1>6. CASE active_tqueues' = << >>
  <2>1. PICK e : e = << >>
    OBVIOUS
  <2>2. Len(e) = 0
    BY <2>1
  <2>3. QED  BY <1>6, <2>1, <2>2 DEF ActiveSorted, Sorted
<1>7. CASE NetworkStep
  BY <1>2, <1>3, <1>7 DEF NetworkStep, NewConnection, InputLine,
     FlushCommand, FreeTaskQueue, EnsureUsageIf, ResumeExternal
<1>8. CASE SchedulerStep
  BY <1>2, <1>3, <1>4, <1>5, <1>8 DEF SchedulerStep, RunReadyTasks, MoveDue,
     MoveDone, PickOutOfInput, PickNone, PickInput, PickBg, EmptyCommand,
     Command, FreeTqueue, SweepDone, queues
<1>9. CASE TaskStep
  BY <1>2, <1>3, <1>9 DEF TaskStep, Fork, Suspend, MakeReadingTask,
     EnsureUsageIf, ReadInputNow, ForceInput, FlushInput, SuspendExternally,
     KillWaiting, DoResume, KillReading, KillBg, KillExternal, Finish,
     LoginTask, queues
<1>10. CASE Restart
  BY <1>6, <1>10 DEF Restart
<1>11. CASE (\E p \in Progrs : StartServerTask(p)) \/ Tick \/ LoadTask \/ LoadDone
  BY <1>2, <1>11 DEF StartServerTask, Tick, LoadTask, LoadDone, queues
<1>12. QED
  BY <1>2, <1>7, <1>8, <1>9, <1>10, <1>11 DEF Next, vars

-----------------------------------------------------------------------------
(* The waiting tasks are in the order of their start times *)

StartTime == [id \in Ids |-> task[id].start]
WaitingSorted == Sorted(waiting_tasks, StartTime)

\* The start times of the waiting tasks do not change in a step that writes
\* only to the record of a task x that is not waiting.
LEMMA StartsKept ==
  ASSUME CoreInv, WaitingSorted, NEW x, ~On(waiting_tasks, x),
         \A id \in Ids : id # x => task'[id].start = task[id].start,
         UNCHANGED waiting_tasks
  PROVE  WaitingSorted'
<1>1. waiting_tasks \in Seq(Ids)
  BY DEF CoreInv, TypeOK
<1>2. \A id : On(waiting_tasks, id) => id \in Ids /\ id # x
  BY <1>1 DEF On
<1>3. \A id : On(waiting_tasks, id) => StartTime'[id] = StartTime[id]
  BY <1>2 DEF StartTime
<1>4. Sorted(waiting_tasks, StartTime')
  BY <1>1, <1>3, SortedKeys DEF WaitingSorted
<1>5. QED  BY <1>4 DEF WaitingSorted

\* enqueue_waiting() puts the task x after those that start no later.
LEMMA WaitingInsertSorted ==
  ASSUME CoreInv, WaitingSorted, NEW x \in Ids, ~On(waiting_tasks, x),
         NEW q \in Tqs, NEW rec, rec.start \in Int, EnqueueWaiting(q, x, rec)
  PROVE  WaitingSorted'
<1>1. /\ waiting_tasks \in Seq(Ids) /\ task \in [Ids -> TaskRec]
      /\ \A id \in Ids : StartTime[id] \in Int /\ StartTime[id] = task[id].start
  BY BoundsAssumption DEF CoreInv, TypeOK, TaskRec, StartTime
<1>2. PICK i \in 1 .. Len(waiting_tasks) + 1 :
        /\ \A j \in 1 .. i - 1 : task[waiting_tasks[j]].start <= rec.start
        /\ i <= Len(waiting_tasks) => rec.start < task[waiting_tasks[i]].start
        /\ waiting_tasks' = InsertAt(waiting_tasks, i, x)
  BY DEF EnqueueWaiting, WaitingInsert
<1>3. \A id \in Ids : task'[id] = IF id = x THEN rec ELSE task[id]
  BY <1>1 DEF EnqueueWaiting
<1>4. \A id \in Ids : StartTime'[id] = IF id = x THEN rec.start ELSE StartTime[id]
  BY <1>1, <1>3 DEF StartTime
<1>5. \A id : On(waiting_tasks, id) => StartTime'[id] = StartTime[id]
  BY <1>1, <1>4 DEF On
<1>6. /\ StartTime'[x] \in Int
      /\ \A j \in 1 .. i - 1 : StartTime[waiting_tasks[j]] <= StartTime'[x]
      /\ i <= Len(waiting_tasks) => StartTime'[x] < StartTime[waiting_tasks[i]]
  <2>1. StartTime'[x] = rec.start
    BY <1>4
  <2>2. \A j \in 1 .. Len(waiting_tasks) :
          StartTime[waiting_tasks[j]] = task[waiting_tasks[j]].start
    BY <1>1
  <2>3. QED  BY <1>2, <2>1, <2>2
<1>7. Sorted(waiting_tasks, StartTime)
  BY DEF WaitingSorted
<1>8. Sorted(InsertAt(waiting_tasks, i, x), StartTime')
  BY <1>1, <1>5, <1>6, <1>7, SortedInsert
<1>9. QED  BY <1>2, <1>8 DEF WaitingSorted

\* A task taken out of the list of waiting tasks leaves it in order.
LEMMA WaitingRemovedSorted ==
  ASSUME CoreInv, PlaceInv, WaitingSorted, NEW i \in 1 .. Len(waiting_tasks),
         waiting_tasks' = RemoveAt(waiting_tasks, i),
         \A id \in Ids : id # waiting_tasks[i] =>
                           task'[id].start = task[id].start
  PROVE  WaitingSorted'
<1>1. waiting_tasks \in Seq(Ids)
  BY DEF CoreInv, TypeOK
<1>2. PICK t : t = RemoveAt(waiting_tasks, i)
  OBVIOUS
<1>3. t \in Seq(Ids)
  BY <1>1, <1>2, RemoveAtElements
<1>4. Sorted(t, StartTime)
  BY <1>1, <1>2, SortedRemove DEF WaitingSorted
<1>5. \A id : On(t, id) => id \in Ids /\ id # waiting_tasks[i]
  <2>1. \A id : On(t, id) => On(waiting_tasks, id) /\ id # waiting_tasks[i]
    BY <1>2, WaitingRemoved
  <2>2. \A id : On(t, id) => id \in Ids
    BY <1>3 DEF On
  <2>3. QED  BY <2>1, <2>2
<1>6. \A id : On(t, id) => StartTime'[id] = StartTime[id]
  BY <1>5 DEF StartTime
<1>7. Sorted(t, StartTime')
  BY <1>3, <1>4, <1>6, SortedKeys
<1>8. QED  BY <1>2, <1>7 DEF WaitingSorted

\* Every step keeps the waiting tasks in order: a task whose start time is
\* set is not on their list then, because it is in one place.
LEMMA WaitingSortedNext ==
  ASSUME CoreInv, PlaceInv, WaitingSorted, [Next]_vars
  PROVE  WaitingSorted'
<1>1. /\ waiting_tasks \in Seq(Ids) /\ task \in [Ids -> TaskRec] /\ TypeOK
      /\ reading \in [Tqs -> Ids \cup {NoTask}]
      /\ \A id : On(waiting_tasks, id) => id \in Ids /\ id # NoTask
  BY NoTaskFacts DEF CoreInv, TypeOK, On
<1>2. \A id \in Ids :
        (\/ id = current_task_id \/ id \in external_queue \/ On(disk, id)
         \/ \E q \in Tqs : reading[q] = id \/ On(bg[q], id))
          => ~On(waiting_tasks, id)
  BY DEF PlaceInv, Unique, OneBox
<1>3. \A id : task' = [task EXCEPT ![id] = NoTaskRec] =>
        \A i \in Ids : i # id => task'[i].start = task[i].start
  BY <1>1
<1>4. CASE UNCHANGED <<waiting_tasks, task>>
  BY <1>4 DEF WaitingSorted, StartTime
<1>5. CASE waiting_tasks' = << >>
  <2>1. PICK e : e = << >>
    OBVIOUS
  <2>2. Len(e) = 0
    BY <2>1
  <2>3. QED  BY <1>5, <2>1, <2>2 DEF WaitingSorted, Sorted
<1>6. ASSUME NEW x \in Ids, NEW p, NewTaskId(x),
             task' = [task EXCEPT ![x].progr = p], UNCHANGED waiting_tasks
      PROVE  WaitingSorted'
  <2>1. ~On(waiting_tasks, x)
    BY <1>6, NewIsNowhere DEF Placed
  <2>2. \A i \in Ids : i # x => task'[i].start = task[i].start
    BY <1>1, <1>6
  <2>3. QED  BY <1>6, <2>1, <2>2, StartsKept
<1>7. ASSUME NEW x \in Ids, ~On(waiting_tasks, x),
             task' = [task EXCEPT ![x] = NoTaskRec], UNCHANGED waiting_tasks
      PROVE  WaitingSorted'
  BY <1>3, <1>7, StartsKept
<1>8. CASE NetworkStep
  <2>1. CASE \E id \in Ids : ResumeExternal(id)
    <3>1. PICK x \in Ids : ResumeExternal(x)
      BY <2>1
    <3>2. x \in external_queue /\ UNCHANGED waiting_tasks
      BY <3>1 DEF ResumeExternal
    <3>3. PICK rec : task' = [task EXCEPT ![x] = rec]
      BY <3>1 DEF ResumeExternal
    <3>4. \A i \in Ids : i # x => task'[i].start = task[i].start
      BY <1>1, <3>3
    <3>5. QED  BY <1>2, <3>2, <3>4, StartsKept
  <2>2. QED
    BY <1>4, <1>8, <2>1 DEF NetworkStep, NewConnection, InputLine,
       FlushCommand, FreeTaskQueue
<1>9. CASE SchedulerStep
  <2>1. CASE MoveDue
    <3>1. /\ waiting_tasks # << >> /\ waiting_tasks' = Tail(waiting_tasks)
          /\ UNCHANGED task
      BY <2>1 DEF MoveDue, Due
    <3>2. Sorted(Tail(waiting_tasks), StartTime)
      BY <1>1, <3>1, SortedTail DEF WaitingSorted
    <3>3. StartTime' = StartTime
      BY <3>1 DEF StartTime
    <3>4. QED  BY <3>1, <3>2, <3>3 DEF WaitingSorted
  <2>2. CASE \E q \in Tqs : PickInput(q)
    BY <1>4, <1>6, <2>2 DEF PickInput
  <2>3. CASE \E q \in Tqs : FreeTqueue(q)
    <3>1. PICK q \in Tqs :
            /\ task' = [id \in Ids |-> IF id = reading[q] THEN NoTaskRec
                                       ELSE task[id]]
            /\ UNCHANGED waiting_tasks
      BY <2>3 DEF FreeTqueue
    <3>2. PICK x : x = reading[q]
      OBVIOUS
    <3>3. ~On(waiting_tasks, x)
      BY <1>1, <1>2, <3>2
    <3>4. \A i \in Ids : i # x => task'[i].start = task[i].start
      BY <3>1, <3>2
    <3>5. QED  BY <3>1, <3>3, <3>4, StartsKept
  <2>4. QED
    BY <1>4, <1>9, <2>1, <2>2, <2>3 DEF SchedulerStep, RunReadyTasks,
       MoveDone, PickOutOfInput, PickNone, PickBg, PickNothing, EmptyCommand,
       Command, TaskDone, SweepDone
<1>10. CASE TaskStep
  <2>1. CASE \E d \in 0 .. MaxDelay : Fork(d)
    <3>1. PICK d \in 0 .. MaxDelay : Fork(d)
      BY <2>1
    <3>2. PICK rec : rec = [kind |-> "FORKED", progr |-> Me,
                            start |-> clock + d]
      OBVIOUS
    <3>3. PICK q \in Tqs, x \in Ids :
            NewTaskId(x) /\ EnqueueWaiting(q, x, rec)
      BY <3>1, <3>2 DEF Fork
    <3>4. ~On(waiting_tasks, x)
      BY <3>3, NewIsNowhere DEF Placed
    <3>5. rec.start \in Int
      BY <1>1, <3>2 DEF TypeOK
    <3>6. QED  BY <3>3, <3>4, <3>5, WaitingInsertSorted
  <2>2. CASE \E d \in 0 .. MaxDelay : Suspend(d)
    <3>1. PICK d \in 0 .. MaxDelay : Suspend(d)
      BY <2>2
    <3>2. PICK rec : rec = [kind |-> "SUSPENDED", progr |-> Me,
                            start |-> clock + d]
      OBVIOUS
    <3>3. PICK x \in Ids : x = current_task_id
      BY <1>1, <3>1, MeType DEF Suspend
    <3>4. PICK q \in Tqs : EnqueueWaiting(q, x, rec)
      BY <3>1, <3>2, <3>3 DEF Suspend
    <3>5. rec.start \in Int
      BY <1>1, <3>2 DEF TypeOK
    <3>6. QED  BY <1>2, <3>3, <3>4, <3>5, WaitingInsertSorted
  <2>3. CASE \E i \in 1 .. Len(waiting_tasks) : KillWaiting(i)
    <3>1. PICK i \in 1 .. Len(waiting_tasks) : KillWaiting(i)
      BY <2>3
    <3>2. PICK x : x = waiting_tasks[i]
      OBVIOUS
    <3>3. /\ waiting_tasks' = RemoveAt(waiting_tasks, i)
          /\ task' = [task EXCEPT ![x] = NoTaskRec]
      BY <3>1, <3>2 DEF KillWaiting, Forget
    <3>4. QED  BY <1>3, <3>2, <3>3, WaitingRemovedSorted
  <2>4. CASE \E i \in 1 .. Len(waiting_tasks) : DoResume(i)
    <3>1. PICK i \in 1 .. Len(waiting_tasks) : DoResume(i)
      BY <2>4
    <3>2. PICK x : x = waiting_tasks[i]
      OBVIOUS
    <3>3. /\ waiting_tasks' = RemoveAt(waiting_tasks, i)
          /\ task' = [task EXCEPT ![x].start = 0]
      BY <3>1, <3>2 DEF DoResume
    <3>4. \A id \in Ids : id # x => task'[id].start = task[id].start
      BY <1>1, <3>3
    <3>5. QED  BY <3>2, <3>3, <3>4, WaitingRemovedSorted
  <2>5. CASE \E q \in Tqs : KillReading(q)
    <3>1. PICK q \in Tqs : KillReading(q)
      BY <2>5
    <3>2. PICK x \in Ids : x = reading[q]
      BY <1>1, <3>1 DEF KillReading
    <3>3. task' = [task EXCEPT ![x] = NoTaskRec] /\ UNCHANGED waiting_tasks
      BY <3>1, <3>2 DEF KillReading, Forget
    <3>4. QED  BY <1>2, <1>7, <3>2, <3>3
  <2>6. CASE \E q \in Tqs : \E i \in 1 .. Len(bg[q]) : KillBg(q, i)
    <3>1. PICK q \in Tqs : \E i \in 1 .. Len(bg[q]) : KillBg(q, i)
      BY <2>6
    <3>2. PICK i \in 1 .. Len(bg[q]) : KillBg(q, i)
      BY <3>1
    <3>3. PICK x \in Ids : x = bg[q][i]
      BY <1>1 DEF TypeOK
    <3>4. task' = [task EXCEPT ![x] = NoTaskRec] /\ UNCHANGED waiting_tasks
      BY <3>2, <3>3 DEF KillBg, Forget
    <3>5. ~On(waiting_tasks, x)
      BY <1>2, <3>3 DEF On
    <3>6. QED  BY <1>7, <3>4, <3>5
  <2>7. CASE \E id \in Ids : KillExternal(id)
    <3>1. PICK x \in Ids : KillExternal(x)
      BY <2>7
    <3>2. /\ task' = [task EXCEPT ![x] = NoTaskRec] /\ UNCHANGED waiting_tasks
          /\ x \in external_queue
      BY <3>1 DEF KillExternal, Forget
    <3>3. QED  BY <1>2, <1>7, <3>2
  <2>8. CASE Finish \/ \E u \in Users, old \in Tqs : LoginTask(u, old)
    <3>1. /\ Running /\ Forget(current_task_id) /\ UNCHANGED waiting_tasks
      BY <2>8 DEF Finish, LoginTask
    <3>2. PICK x \in Ids : x = current_task_id
      BY <1>1, <3>1, MeType
    <3>3. task' = [task EXCEPT ![x] = NoTaskRec]
      BY <3>1, <3>2 DEF Forget
    <3>4. QED  BY <1>2, <1>7, <3>1, <3>2, <3>3
  <2>9. QED
    BY <1>4, <1>10, <2>1, <2>2, <2>3, <2>4, <2>5, <2>6, <2>7, <2>8
       DEF TaskStep, MakeReadingTask, ReadInputNow, ForceInput, FlushInput,
       SuspendExternally
<1>11. CASE \E p \in Progrs : StartServerTask(p)
  BY <1>6, <1>11 DEF StartServerTask
<1>12. CASE Restart
  BY <1>5, <1>12 DEF Restart
<1>13. CASE LoadTask
  <2>1. PICK q \in Tqs, x \in Ids :
          x = Head(disk) /\ EnqueueWaiting(q, x, task[x])
    BY <1>13 DEF LoadTask
  <2>2. disk # << >> /\ disk \in Seq(Ids)
    BY <1>13 DEF LoadTask, PlaceInv, Lists
  <2>3. On(disk, x)
    BY <2>1, <2>2 DEF On
  <2>4. task[x].start \in Int
    BY <1>1, BoundsAssumption DEF TaskRec
  <2>5. QED  BY <1>2, <2>1, <2>3, <2>4, WaitingInsertSorted
<1>14. CASE Tick \/ LoadDone \/ UNCHANGED vars
  BY <1>4, <1>14 DEF Tick, LoadDone, vars
<1>15. QED
  BY <1>8, <1>9, <1>10, <1>11, <1>12, <1>13, <1>14 DEF Next

\* The active queues stay in the order of the seconds billed to them and the
\* waiting tasks in the order of their start times, whatever is inserted,
\* resumed, killed, billed or loaded.
THEOREM ListsInOrder == Spec => []ListsSorted
<1>1. CoreInv /\ ActiveSorted /\ WaitingSorted => ListsSorted
  <2> SUFFICES ASSUME CoreInv, ActiveSorted, WaitingSorted PROVE ListsSorted
    OBVIOUS
  <2>1. \A i \in 1 .. Len(waiting_tasks) :
          StartTime[waiting_tasks[i]] = task[waiting_tasks[i]].start
    BY DEF CoreInv, TypeOK, StartTime
  <2>2. QED  BY <2>1 DEF ActiveSorted, WaitingSorted, Sorted, ListsSorted
<1>2. Init => ActiveSorted /\ WaitingSorted
  BY DEF Init, ActiveSorted, WaitingSorted, Sorted
<1>3. CoreInv /\ PlaceInv /\ ActiveSorted /\ WaitingSorted /\ [Next]_vars
        => (CoreInv /\ PlaceInv /\ ActiveSorted /\ WaitingSorted)'
  BY CoreNext, PlaceNext, ActiveSortedNext, WaitingSortedNext
<1>4. QED
  BY <1>1, <1>2, <1>3, CoreInit, PlaceInit, PTL DEF Spec

-----------------------------------------------------------------------------
(* What a step does to the queued tasks *)

\* A task queued_tasks() lists as forked or suspended.
InQueue(id) == On(waiting_tasks, id) \/ \E q \in Tqs : On(bg[q], id)

\* No queued task appears, leaves, or changes what it is; a queue may have
\* been allocated, and waiting tasks may have become background tasks of
\* the queues of their programmers.
Still ==
  /\ UNCHANGED <<num_bg_tasks, disk>>
  /\ \A id \in Ids : InQueue(id)' <=> InQueue(id)
  /\ \A id \in Ids : InQueue(id) \/ On(disk, id) =>
                        /\ task'[id].kind = task[id].kind
                        /\ task'[id].progr = task[id].progr
  /\ \A q \in Tqs : player'[q] = player[q] \/ player[q] = FREE
  /\ \A q \in Tqs, id \in Ids :
       On(bg'[q], id) => On(bg[q], id) \/ task'[id].progr = player'[q]

\* The task x joins the waiting tasks: a task that forks or suspends, under
\* the limit, or the next task of the dump.
Joined(x) ==
  \E q \in Tqs, rec \in TaskRec :
    /\ EnqueueWaiting(q, x, rec)
    /\ rec.progr \in Players /\ UNCHANGED bg /\ ~InQueue(x)
    /\ \/ /\ UnderLimit(rec.progr) /\ Running
          /\ rec.kind \in {"FORKED", "SUSPENDED"}
          /\ UNCHANGED disk /\ ~On(disk, x)
       \/ /\ disk # << >> /\ x = Head(disk) /\ disk' = Tail(disk)
          /\ rec = task[x]

\* The task x leaves the background tasks of q, to be run or killed.
Left(x, q) ==
  /\ On(bg[q], x)
  /\ num_bg_tasks' = [num_bg_tasks EXCEPT ![q] = @ - 1]
  /\ UNCHANGED <<player, disk>>
  /\ \A id \in Ids : InQueue(id)' <=> InQueue(id) /\ id # x
  /\ \A id \in Ids : id # x => task'[id] = task[id]
  /\ \A r \in Tqs, id \in Ids : On(bg'[r], id) => On(bg[r], id)

\* A step that leaves the lists alone and touches the record of a task that
\* is in none of them at most.
LEMMA StillKept ==
  ASSUME CoreInv, PlaceInv, NEW x,
         x \in Ids => ~InQueue(x) /\ ~On(disk, x),
         UNCHANGED <<num_bg_tasks, disk, waiting_tasks, bg>>,
         \A id \in Ids : id # x => /\ task'[id].kind = task[id].kind
                                   /\ task'[id].progr = task[id].progr,
         \A q \in Tqs : player'[q] = player[q] \/ player[q] = FREE
  PROVE  Still
BY DEF Still, InQueue

\* A waiting task becomes a background task of its programmer's queue.
LEMMA StillMoved ==
  ASSUME CoreInv, PlaceInv, NEW q \in Tqs, NEW x \in Ids,
         On(waiting_tasks, x),
         FindOrCreate(q, task[x].progr),
         player' = [player EXCEPT ![q] = task[x].progr],
         bg' = [bg EXCEPT ![q] = Append(@, x)],
         \A y \in Ids : On(waiting_tasks', y) <=> On(waiting_tasks, y) /\ y # x,
         \A id \in Ids : /\ task'[id].kind = task[id].kind
                         /\ task'[id].progr = task[id].progr,
         UNCHANGED <<num_bg_tasks, disk>>
  PROVE  Still
<1>1. bg \in [Tqs -> Seq(Ids)]
  BY DEF CoreInv, TypeOK
<1>2. \A y : On(bg'[q], y) <=> On(bg[q], y) \/ y = x
  BY <1>1, AppendOn
<1>3. \A r \in Tqs : r # q => bg'[r] = bg[r]
  BY <1>1
<1>4. /\ \A r \in Tqs : player'[r] = player[r] \/ player[r] = FREE
      /\ player'[q] = task[x].progr
  BY FoundPlayers
<1>5. \A id \in Ids : InQueue(id)' <=> InQueue(id)
  BY <1>2, <1>3 DEF InQueue
<1>6. \A r \in Tqs, id \in Ids :
        On(bg'[r], id) => On(bg[r], id) \/ task'[id].progr = player'[r]
  BY <1>2, <1>3, <1>4
<1>7. QED  BY <1>4, <1>5, <1>6 DEF Still

\* A background task leaves its queue.
LEMMA LeftBg ==
  ASSUME CoreInv, PlaceInv, NEW q \in Tqs, NEW x \in Ids, On(bg[q], x),
         num_bg_tasks' = [num_bg_tasks EXCEPT ![q] = @ - 1],
         UNCHANGED <<player, disk, waiting_tasks>>,
         \A id \in Ids : id # x => task'[id] = task[id],
         \A y : On(bg'[q], y) <=> On(bg[q], y) /\ y # x,
         \A r \in Tqs : r # q => bg'[r] = bg[r]
  PROVE  Left(x, q)
<1>1. ~On(waiting_tasks, x) /\ \A r \in Tqs : On(bg[r], x) => r = q
  BY DEF PlaceInv, Unique, OneBox
<1>2. \A id \in Ids : InQueue(id)' <=> InQueue(id) /\ id # x
  BY <1>1 DEF InQueue
<1>3. QED  BY <1>2 DEF Left

\* What any step does to the queued tasks, told once for the proofs below.
QueueStep ==
  \/ Still
  \/ \E x \in Ids : Joined(x)
  \/ \E x \in Ids, q \in Tqs : Left(x, q)
  \/ \E x \in external_queue : ResumeExternal(x)
  \/ \E i \in 1 .. Len(waiting_tasks) : KillWaiting(i)
  \/ \E q \in Tqs : FreeTqueue(q)
  \/ \E u \in Users, old \in Tqs : LoginTask(u, old)
  \/ Restart

\* A task is interpreted in four phases only, and the dump is read in one.
PhaseInv ==
  /\ disk # << >> => phase = "load"
  /\ Running => phase \in {"io", "prompt", "line", "bg"}

\* Every step keeps PhaseInv.
LEMMA PhaseNext ==
  ASSUME PhaseInv, [Next]_vars
  PROVE  PhaseInv'
<1>1. CASE NetworkStep
  BY <1>1 DEF NetworkStep, NewConnection, InputLine, FlushCommand,
     FreeTaskQueue, ResumeExternal, PhaseInv, Running, sched
<1>2. CASE SchedulerStep
  BY <1>2 DEF SchedulerStep, RunReadyTasks, MoveDue, MoveDone, PickOutOfInput,
     PickNone, PickInput, AtHead, PickBg, PickNothing, EmptyCommand, Command,
     TaskDone, FreeTqueue, SweepDone, PhaseInv, Running, sched, Io
<1>3. CASE TaskStep
  BY <1>3 DEF TaskStep, Fork, Suspend, MakeReadingTask, ReadInputNow,
     ForceInput, FlushInput, SuspendExternally, KillWaiting, DoResume,
     KillReading, KillBg, KillExternal, Finish, LoginTask, PhaseInv, Running,
     sched
<1>4. CASE LoadTask
  BY <1>4 DEF LoadTask, PhaseInv, Running, sched
<1>5. QED
  BY <1>1, <1>2, <1>3, <1>4 DEF Next, StartServerTask, Tick, Restart, LoadDone,
     Io, vars, sched, PhaseInv, Running

\* The cases of QueueStep are all there is.
LEMMA QueueSteps ==
  ASSUME CoreInv, PlaceInv, PhaseInv, [Next]_vars
  PROVE  QueueStep
<1>1. /\ waiting_tasks \in Seq(Ids) /\ task \in [Ids -> TaskRec] /\ TypeOK
      /\ reading \in [Tqs -> Ids \cup {NoTask}] /\ bg \in [Tqs -> Seq(Ids)]
      /\ NoTask \notin Ids
  BY NoTaskFacts DEF CoreInv, TypeOK
<1>2. \A id \in Ids :
        (id = current_task_id \/ id \in external_queue
         \/ \E q \in Tqs : reading[q] = id)
          => ~InQueue(id) /\ ~On(disk, id)
  BY DEF PlaceInv, Unique, OneBox, InQueue
<1>3. ASSUME NEW x,
             x \in Ids => ~InQueue(x) /\ ~On(disk, x),
             UNCHANGED <<num_bg_tasks, disk, waiting_tasks, bg>>,
             task' = [task EXCEPT ![x] = NoTaskRec] \/ UNCHANGED task,
             \A q \in Tqs : player'[q] = player[q] \/ player[q] = FREE
      PROVE  Still
  <2>1. \A id \in Ids : id # x => task'[id] = task[id]
    BY <1>1, <1>3
  <2>2. QED  BY <1>3, <2>1, StillKept
<1>4. CASE UNCHANGED <<num_bg_tasks, disk, waiting_tasks, bg, task, player>>
  <2>1. Still
    BY <1>4 DEF Still, InQueue
  <2>2. QED  BY <2>1 DEF QueueStep
<1>5. ASSUME NEW q \in Tqs, NEW p, FindOrCreate(q, p),
             player' = [player EXCEPT ![q] = p],
             UNCHANGED <<num_bg_tasks, disk, waiting_tasks, bg, task>>
      PROVE  Still
  <2>1. \A r \in Tqs : player'[r] = player[r] \/ player[r] = FREE
    BY <1>5, FoundPlayers
  <2>2. QED  BY <1>1, <1>3, <1>5, <2>1
<1>6. ASSUME NEW x \in Ids, NEW p, NewTaskId(x),
             task' = [task EXCEPT ![x].progr = p],
             UNCHANGED <<num_bg_tasks, disk, waiting_tasks, bg, player>>
      PROVE  Still
  <2>1. ~InQueue(x) /\ ~On(disk, x)
    BY <1>6, NewIsNowhere DEF Placed, InQueue
  <2>2. \A i \in Ids : i # x => task'[i] = task[i]
    BY <1>1, <1>6
  <2>3. QED  BY <1>6, <2>1, <2>2, StillKept
<1>7. CASE NetworkStep
  <2>1. CASE \E id \in Ids : ResumeExternal(id)
    BY <2>1 DEF ResumeExternal, QueueStep
  <2>2. CASE \E c \in Conns : NewConnection(c)
    BY <1>5, <2>2 DEF NewConnection, QueueStep
  <2>3. QED
    BY <1>4, <1>7, <2>1, <2>2 DEF NetworkStep, InputLine, FlushCommand,
       FreeTaskQueue, QueueStep
<1>8. CASE SchedulerStep
  <2>1. CASE MoveDue
    <3>1. PICK x : x = Head(waiting_tasks)
      OBVIOUS
    <3>2. PICK q \in Tqs :
            /\ FindOrCreate(q, task[x].progr)
            /\ player' = [player EXCEPT ![q] = task[x].progr]
            /\ bg' = [bg EXCEPT ![q] = Append(@, x)]
      BY <2>1, <3>1 DEF MoveDue
    <3>3. /\ waiting_tasks # << >> /\ waiting_tasks' = Tail(waiting_tasks)
          /\ UNCHANGED <<num_bg_tasks, disk, task>>
      BY <2>1 DEF MoveDue, Due
    <3>4. NoDup(waiting_tasks)
      BY DEF PlaceInv, Lists
    <3>5. /\ ~On(waiting_tasks', x)
          /\ \A y : On(waiting_tasks, y) <=> On(waiting_tasks', y) \/ y = x
      BY <1>1, <3>1, <3>3, <3>4, TailOn
    <3>6. x \in Ids
      BY <1>1, <3>1, <3>3
    <3>7. Still
      BY <3>2, <3>3, <3>5, <3>6, StillMoved
    <3>8. QED  BY <3>7 DEF QueueStep
  <2>2. CASE \E q \in Tqs : PickInput(q)
    BY <1>4, <1>6, <2>2 DEF PickInput, QueueStep
  <2>3. CASE \E q \in Tqs : PickBg(q)
    <3>1. PICK q \in Tqs : PickBg(q)
      BY <2>3
    <3>2. PICK x : x = Head(bg[q])
      OBVIOUS
    <3>3. /\ bg[q] # << >> /\ bg' = [bg EXCEPT ![q] = Tail(@)]
          /\ num_bg_tasks' = [num_bg_tasks EXCEPT ![q] = @ - 1]
          /\ UNCHANGED <<player, disk, waiting_tasks, task>>
      BY <3>1 DEF PickBg
    <3>4. /\ ~On(Tail(bg[q]), x)
          /\ \A y : On(bg[q], y) <=> On(Tail(bg[q]), y) \/ y = x
      BY <1>1, <3>2, <3>3, TailOn DEF PlaceInv, Lists
    <3>5. /\ bg'[q] = Tail(bg[q])
          /\ \A r \in Tqs : r # q => bg'[r] = bg[r]
      BY <1>1, <3>3
    <3>6. x \in Ids /\ On(bg[q], x)
      BY <1>1, <3>2, <3>3, <3>4
    <3>7. Left(x, q)
      BY <3>3, <3>4, <3>5, <3>6, LeftBg
    <3>8. QED  BY <3>6, <3>7 DEF QueueStep
  <2>4. CASE \E q \in Tqs : FreeTqueue(q)
    BY <2>4 DEF QueueStep
  <2>5. QED
    BY <1>4, <1>8, <2>1, <2>2, <2>3, <2>4 DEF SchedulerStep, RunReadyTasks,
       MoveDone, PickOutOfInput, PickNone, PickNothing, EmptyCommand, Command,
       TaskDone, SweepDone, queues, QueueStep
<1>9. CASE TaskStep
  <2>1. Running => current_task_id \in Ids /\ Me \in Players
    BY <1>1, MeType DEF PlaceInv, Real, Placed, Me
  <2>2. Running => disk = << >>
    BY DEF PhaseInv
  <2>3. \A x : ~On(<< >>, x)
    BY DEF On
  <2>4. CASE \E d \in 0 .. MaxDelay : Fork(d)
    <3>1. PICK d \in 0 .. MaxDelay : Fork(d)
      BY <2>4
    <3>2. PICK rec : rec = [kind |-> "FORKED", progr |-> Me,
                            start |-> clock + d]
      OBVIOUS
    <3>3. PICK q \in Tqs, x \in Ids :
            NewTaskId(x) /\ EnqueueWaiting(q, x, rec)
      BY <3>1, <3>2 DEF Fork
    <3>4. ~InQueue(x) /\ ~On(disk, x)
      BY <3>3, NewIsNowhere DEF Placed, InQueue
    <3>5. Running /\ UnderLimit(Me) /\ UNCHANGED <<bg, disk>>
      BY <3>1 DEF Fork
    <3>6. /\ rec \in TaskRec /\ rec.progr = Me /\ rec.kind = "FORKED"
          /\ Me \in Players
      BY <1>1, <2>1, <3>2, <3>5, NewTaskRec DEF Kinds
    <3>7. Joined(x)
      BY <3>3, <3>4, <3>5, <3>6 DEF Joined
    <3>8. QED  BY <3>7 DEF QueueStep
  <2>5. CASE \E d \in 0 .. MaxDelay : Suspend(d)
    <3>1. PICK d \in 0 .. MaxDelay : Suspend(d)
      BY <2>5
    <3>2. PICK rec : rec = [kind |-> "SUSPENDED", progr |-> Me,
                            start |-> clock + d]
      OBVIOUS
    <3>3. PICK x \in Ids : x = current_task_id
      BY <2>1, <3>1 DEF Suspend
    <3>4. PICK q \in Tqs : EnqueueWaiting(q, x, rec)
      BY <3>1, <3>2, <3>3 DEF Suspend
    <3>5. ~InQueue(x) /\ ~On(disk, x)
      BY <1>2, <3>3
    <3>6. Running /\ UnderLimit(Me) /\ UNCHANGED <<bg, disk>>
      BY <3>1 DEF Suspend
    <3>7. /\ rec \in TaskRec /\ rec.progr = Me /\ rec.kind = "SUSPENDED"
          /\ Me \in Players
      BY <1>1, <2>1, <3>2, <3>6, NewTaskRec DEF Kinds
    <3>8. Joined(x)
      BY <3>4, <3>5, <3>6, <3>7 DEF Joined
    <3>9. QED  BY <3>8 DEF QueueStep
  <2>6. CASE \E i \in 1 .. Len(waiting_tasks) : DoResume(i)
    <3>1. PICK i \in 1 .. Len(waiting_tasks) : DoResume(i)
      BY <2>6
    <3>2. PICK x : x = waiting_tasks[i]
      OBVIOUS
    <3>3. /\ waiting_tasks' = RemoveAt(waiting_tasks, i)
          /\ task' = [task EXCEPT ![x].start = 0]
          /\ UNCHANGED <<num_bg_tasks, disk>>
      BY <3>1, <3>2 DEF DoResume
    <3>4. PICK q \in Tqs :
            /\ FindOrCreate(q, task[x].progr)
            /\ player' = [player EXCEPT ![q] = task[x].progr]
            /\ bg' = [bg EXCEPT ![q] = Append(@, x)]
      BY <3>1, <3>2 DEF DoResume
    <3>5. /\ x \in Ids /\ On(waiting_tasks, x)
          /\ \A y : On(waiting_tasks', y) <=> On(waiting_tasks, y) /\ y # x
      BY <3>2, <3>3, WaitingRemoved
    <3>6. \A id \in Ids : /\ task'[id].kind = task[id].kind
                          /\ task'[id].progr = task[id].progr
      <4> DEFINE rec == [task[x] EXCEPT !.start = 0]
      <4>1. /\ rec.progr = task[x].progr /\ rec.kind = task[x].kind
            /\ task' = [task EXCEPT ![x] = rec]
        BY <1>1, <3>3, <3>5 DEF TaskRec
      <4> HIDE DEF rec
      <4>2. QED  BY <1>1, <4>1
    <3>7. Still
      BY <3>3, <3>4, <3>5, <3>6, StillMoved
    <3>8. QED  BY <3>7 DEF QueueStep
  <2>7. CASE \E q \in Tqs : KillReading(q)
    <3>1. PICK q \in Tqs : KillReading(q)
      BY <2>7
    <3>2. PICK x \in Ids : x = reading[q]
      BY <1>1, <3>1 DEF KillReading
    <3>3. /\ task' = [task EXCEPT ![x] = NoTaskRec]
          /\ UNCHANGED <<num_bg_tasks, disk, waiting_tasks, bg, player>>
      BY <3>1, <3>2 DEF KillReading, Forget
    <3>4. Still
      BY <1>2, <1>3, <3>2, <3>3
    <3>5. QED  BY <3>4 DEF QueueStep
  <2>8. CASE \E q \in Tqs : \E i \in 1 .. Len(bg[q]) : KillBg(q, i)
    <3>1. PICK q \in Tqs : \E i \in 1 .. Len(bg[q]) : KillBg(q, i)
      BY <2>8
    <3>2. PICK i \in 1 .. Len(bg[q]) : KillBg(q, i)
      BY <3>1
    <3>3. PICK x \in Ids : x = bg[q][i]
      BY <1>1
    <3>4. /\ task' = [task EXCEPT ![x] = NoTaskRec]
          /\ bg' = [bg EXCEPT ![q] = RemoveAt(@, i)]
          /\ num_bg_tasks' = [num_bg_tasks EXCEPT ![q] = @ - 1]
          /\ UNCHANGED <<player, disk, waiting_tasks>>
      BY <3>2, <3>3 DEF KillBg, Forget
    <3>5. NoDup(bg[q]) /\ bg[q] \in Seq(Ids)
      BY <1>1 DEF PlaceInv, Lists
    <3>6. \A y : On(RemoveAt(bg[q], i), y) <=> On(bg[q], y) /\ y # x
      BY <3>3, <3>5, RemoveAtOn
    <3>7. /\ bg'[q] = RemoveAt(bg[q], i)
          /\ \A r \in Tqs : r # q => bg'[r] = bg[r]
          /\ \A id \in Ids : id # x => task'[id] = task[id]
      BY <1>1, <3>4
    <3>8. On(bg[q], x)
      BY <3>3 DEF On
    <3>9. Left(x, q)
      BY <3>4, <3>6, <3>7, <3>8, LeftBg
    <3>10. QED  BY <3>9 DEF QueueStep
  <2>9. CASE \E id \in Ids : KillExternal(id)
    <3>1. PICK x \in Ids : KillExternal(x)
      BY <2>9
    <3>2. /\ task' = [task EXCEPT ![x] = NoTaskRec] /\ x \in external_queue
          /\ UNCHANGED <<num_bg_tasks, disk, waiting_tasks, bg, player>>
      BY <3>1 DEF KillExternal, Forget, queues
    <3>3. Still
      BY <1>2, <1>3, <3>2
    <3>4. QED  BY <3>3 DEF QueueStep
  <2>10. CASE Finish
    <3>1. PICK x \in Ids : x = current_task_id
      BY <2>1, <2>10 DEF Finish
    <3>2. /\ task' = [task EXCEPT ![x] = NoTaskRec]
          /\ UNCHANGED <<num_bg_tasks, disk, waiting_tasks, bg, player>>
      BY <2>10, <3>1 DEF Finish, Forget, queues
    <3>3. Still
      BY <1>2, <1>3, <3>1, <3>2
    <3>4. QED  BY <3>3 DEF QueueStep
  <2>11. CASE \E p \in Users \cup opened : ForceInput(p) \/ FlushInput(p)
    BY <1>5, <2>11 DEF ForceInput, FlushInput, QueueStep
  <2>12. QED
    BY <1>4, <1>9, <2>4, <2>5, <2>6, <2>7, <2>8, <2>9, <2>10, <2>11
       DEF TaskStep, MakeReadingTask, ReadInputNow, SuspendExternally, queues,
       QueueStep
<1>10. CASE \E p \in Progrs : StartServerTask(p)
  BY <1>6, <1>10 DEF StartServerTask, queues, QueueStep
<1>11. CASE LoadTask
  <2>1. PICK q \in Tqs, x \in Ids :
          x = Head(disk) /\ EnqueueWaiting(q, x, task[x])
    BY <1>11 DEF LoadTask
  <2>2. /\ disk # << >> /\ disk \in Seq(Ids) /\ disk' = Tail(disk)
        /\ UNCHANGED bg
    BY <1>11 DEF LoadTask, PlaceInv, Lists
  <2>3. On(disk, x)
    BY <2>1, <2>2 DEF On
  <2>4. ~InQueue(x) /\ task[x].progr \in Players /\ task[x] \in TaskRec
    BY <1>1, <2>3 DEF PlaceInv, Unique, OneBox, Real, Placed, InQueue
  <2>5. Joined(x)
    BY <2>1, <2>2, <2>4 DEF Joined
  <2>6. QED  BY <2>5 DEF QueueStep
<1>12. QED
  BY <1>4, <1>7, <1>8, <1>9, <1>10, <1>11 DEF Next, Tick, Restart, LoadDone,
     queues, vars, QueueStep

\* What the login of u does to the queues: q is the queue of the connection,
\* old the one its own tasks go to, and d the queue u had before, if any.
LoginQueues(u, old, q, d) ==
  /\ player[q] \in Conns /\ player[old] = FREE
  /\ player'[q] = u /\ num_bg_tasks'[old] = num_bg_tasks[q]
  /\ player'[old] = IF OwnsTasks(q) THEN player[q] ELSE FREE
  /\ \A y : On(bg'[old], y) <=> OwnsTasks(q) /\ On(bg[q], y)
  /\ \A y : On(bg'[q], y) <=> \/ ~OwnsTasks(q) /\ On(bg[q], y)
                              \/ d # old /\ On(bg[d], y)
  /\ d = old => num_bg_tasks'[q] = 0 /\ \A r \in Tqs : player[r] # u
  /\ d # old => /\ player[d] = u /\ player'[d] = NOTHING /\ d # q
                /\ num_bg_tasks'[q] = num_bg_tasks[d]
                /\ num_bg_tasks'[d] = 0 /\ \A y : ~On(bg'[d], y)
  /\ \A r \in Tqs : r # q /\ r # old /\ r # d =>
       /\ player'[r] = player[r] /\ bg'[r] = bg[r]
       /\ num_bg_tasks'[r] = num_bg_tasks[r]

\* A login does that, with old for d when u had no queue.
LEMMA LoginEffect ==
  ASSUME CoreInv, PlaceInv, OneQueuePerPlayer, NEW u \in Users,
         NEW old \in Tqs, LoginTask(u, old)
  PROVE  \E q \in Tqs, d \in Tqs : LoginQueues(u, old, q, d)
<1>0. PICK q : q = running_tq
  OBVIOUS
<1> DEFINE owns == num_bg_tasks[q] # 0
           dead == {d \in Tqs : player[d] = u}
<1>1. /\ bg \in [Tqs -> Seq(Ids)] /\ num_bg_tasks \in [Tqs -> Int]
      /\ player \in [Tqs -> Players \cup {NOTHING, FREE}]
      /\ TypeOK /\ RunningIsHead /\ FreeBlank
  BY DEF CoreInv, TypeOK
<1>2. owns <=> OwnsTasks(running_tq)
  BY <1>0 DEF OwnsTasks
<1>3. q \in Tqs /\ player[q] \in Conns /\ player[old] = FREE
  BY <1>0, <1>1, HeadIsQueue DEF LoginTask, CoreInv, RunningIsHead
<1>4. /\ q # old /\ u # player[q] /\ u # FREE /\ u \in Players
      /\ bg[old] = << >>
  BY <1>1, <1>3, SetsAssumption DEF Players, FreeBlank
<1>5. PICK e : e = << >> /\ e \in Seq(Ids) /\ \A y : ~On(e, y)
  <2>1. << >> \in Seq(Ids)
    OBVIOUS
  <2>2. \A y : ~On(<< >>, y)
    BY DEF On
  <2>3. QED  BY <2>1, <2>2, Zenon
<1>6. player' = [r \in Tqs |-> CASE r = q -> u
                               [] r \in dead -> NOTHING
                               [] r = old /\ owns -> player[q]
                               [] OTHER -> player[r]]
  BY <1>0, <1>2 DEF LoginTask
<1>7. /\ q \notin dead /\ old \notin dead
  BY <1>3, <1>4
<1>8. /\ player'[q] = u
      /\ player'[old] = IF owns THEN player[q] ELSE FREE
      /\ \A r \in dead : player'[r] = NOTHING
      /\ \A r \in Tqs : r # q /\ r # old /\ r \notin dead
                         => player'[r] = player[r]
  <2>1. player'[q] = u
    <3> HIDE DEF owns, dead
    <3>1. QED  BY <1>3, <1>4, <1>6, <1>7
  <2>2. player'[old] = IF owns THEN player[q] ELSE FREE
    <3> HIDE DEF owns, dead
    <3>1. CASE owns
      BY <1>3, <1>4, <1>6, <1>7, <3>1
    <3>2. CASE ~owns
      BY <1>3, <1>4, <1>6, <1>7, <3>2
    <3>3. QED  BY <3>1, <3>2
  <2>3. \A r \in dead : r \in Tqs
    OBVIOUS
  <2>4. \A r \in dead : player'[r] = NOTHING
    <3> HIDE DEF owns, dead
    <3>1. QED  BY <1>6, <1>7, <2>3
  <2>5. \A r \in Tqs : r # q /\ r # old /\ r \notin dead
                      => player'[r] = player[r]
    <3> HIDE DEF owns, dead
    <3>1. QED  BY <1>6
  <2>6. QED  BY <2>1, <2>2, <2>4, <2>5
<1>9. PICK given, kept :
        /\ given = (IF owns THEN bg[q] ELSE bg[old]) /\ kept = KeptBg(q)
        /\ given \in Seq(Ids) /\ kept \in Seq(Ids)
        /\ \A y : On(given, y) <=> owns /\ On(bg[q], y)
        /\ \A y : On(kept, y) <=> ~owns /\ On(bg[q], y)
  <2>1. CASE owns
    <3>1. KeptBg(q) = e
      BY <1>5, <2>1 DEF KeptBg, OwnsTasks
    <3>2. bg[q] \in Seq(Ids)
      BY <1>1, <1>3
    <3> HIDE DEF owns
    <3>3. QED  BY <1>5, <2>1, <3>1, <3>2
  <2>2. CASE ~owns
    <3>1. KeptBg(q) = bg[q] /\ bg[old] = e
      BY <1>4, <1>5, <2>2 DEF KeptBg, OwnsTasks
    <3>2. bg[q] \in Seq(Ids)
      BY <1>1, <1>3
    <3> HIDE DEF owns
    <3>3. QED  BY <1>5, <2>2, <3>1, <3>2
  <2>3. QED  BY <2>1, <2>2
<1>10. CASE dead = {}
  <2>1. /\ bg' = [bg EXCEPT ![old] = IF owns THEN bg[q] ELSE @,
                            ![q] = KeptBg(q)]
        /\ num_bg_tasks' = [num_bg_tasks EXCEPT ![old] = num_bg_tasks[q],
                                                ![q] = 0]
    BY <1>0, <1>2, <1>10 DEF LoginTask
  <2>2. bg' = [bg EXCEPT ![old] = given, ![q] = kept]
    BY <1>9, <2>1, Zenon
  <2>3. /\ bg'[old] = given /\ bg'[q] = kept
        /\ \A r \in Tqs : r # q /\ r # old => bg'[r] = bg[r]
    BY <1>1, <1>3, <1>4, <2>2
  <2>4. /\ num_bg_tasks'[old] = num_bg_tasks[q] /\ num_bg_tasks'[q] = 0
        /\ \A r \in Tqs : r # q /\ r # old => num_bg_tasks'[r] = num_bg_tasks[r]
    BY <1>1, <1>3, <1>4, <2>1
  <2>5. /\ \A r \in Tqs : player[r] # u
        /\ \A r \in Tqs : r # q /\ r # old => player'[r] = player[r]
    BY <1>8, <1>10
  <2> HIDE DEF dead
  <2>6. LoginQueues(u, old, q, old)
    <3>1. /\ \A y : On(bg'[old], y) <=> OwnsTasks(q) /\ On(bg[q], y)
          /\ \A y : On(bg'[q], y) <=> ~OwnsTasks(q) /\ On(bg[q], y)
      BY <1>9, <2>3 DEF OwnsTasks
    <3>2. player'[old] = IF OwnsTasks(q) THEN player[q] ELSE FREE
      BY <1>8 DEF OwnsTasks
    <3>3. \A r \in Tqs : r # q /\ r # old =>
            /\ player'[r] = player[r] /\ bg'[r] = bg[r]
            /\ num_bg_tasks'[r] = num_bg_tasks[r]
      BY <2>3, <2>4, <2>5
    <3>4. QED
      BY <1>3, <1>8, <2>4, <2>5, <3>1, <3>2, <3>3, ZenonT(30) DEF LoginQueues
  <2>7. QED  BY <1>3, <2>6
<1>11. CASE dead # {}
  <2>1. PICK d \in dead :
          /\ bg' = [bg EXCEPT ![old] = IF owns THEN bg[q] ELSE @,
                              ![q] = KeptBg(q) \o bg[d], ![d] = << >>]
          /\ num_bg_tasks' = [num_bg_tasks EXCEPT
                                ![old] = num_bg_tasks[q],
                                ![q] = num_bg_tasks[d], ![d] = 0]
    BY <1>0, <1>2, <1>11 DEF LoginTask
  <2>2. d \in Tqs /\ d # q /\ d # old /\ player[d] = u
    BY <1>7
  <2>3. \A r \in dead : r = d
    BY <1>4, <2>2 DEF OneQueuePerPlayer
  <2>4. bg' = [bg EXCEPT ![old] = given, ![q] = kept \o bg[d], ![d] = << >>]
    BY <1>9, <2>1, Zenon
  <2>5. /\ bg'[old] = given /\ bg'[q] = kept \o bg[d] /\ bg'[d] = << >>
        /\ \A r \in Tqs : r # q /\ r # old /\ r # d => bg'[r] = bg[r]
    BY <1>1, <1>3, <1>4, <2>2, <2>4
  <2>6. /\ num_bg_tasks'[old] = num_bg_tasks[q]
        /\ num_bg_tasks'[q] = num_bg_tasks[d] /\ num_bg_tasks'[d] = 0
        /\ \A r \in Tqs : r # q /\ r # old /\ r # d =>
                           num_bg_tasks'[r] = num_bg_tasks[r]
    BY <1>1, <1>3, <1>4, <2>1, <2>2
  <2>7. \A r \in Tqs : r # q /\ r # old /\ r # d => player'[r] = player[r]
    BY <1>8, <2>3
  <2>8. \A y : On(kept \o bg[d], y) <=> On(kept, y) \/ On(bg[d], y)
    BY <1>1, <1>9, <2>2, ConcatOn
  <2>9. \A y : On(bg'[q], y) <=> (~owns /\ On(bg[q], y)) \/ On(bg[d], y)
    BY <1>9, <2>5, <2>8
  <2>10. \A y : ~On(bg'[d], y)
    BY <1>5, <2>5
  <2>11. player'[d] = NOTHING
    BY <1>8
  <2> HIDE DEF dead
  <2>12. LoginQueues(u, old, q, d)
    <3>1. /\ \A y : On(bg'[old], y) <=> OwnsTasks(q) /\ On(bg[q], y)
          /\ \A y : On(bg'[q], y) <=> \/ ~OwnsTasks(q) /\ On(bg[q], y)
                                      \/ On(bg[d], y)
      BY <1>9, <2>5, <2>9 DEF OwnsTasks
    <3>2. player'[old] = IF OwnsTasks(q) THEN player[q] ELSE FREE
      BY <1>8 DEF OwnsTasks
    <3>3. \A r \in Tqs : r # q /\ r # old /\ r # d =>
            /\ player'[r] = player[r] /\ bg'[r] = bg[r]
            /\ num_bg_tasks'[r] = num_bg_tasks[r]
      BY <2>5, <2>6, <2>7
    <3>4. QED
      BY <1>3, <1>8, <2>2, <2>6, <2>10, <2>11, <3>1, <3>2, <3>3, Zenon
         DEF LoginQueues
  <2>13. QED  BY <1>3, <2>2, <2>12
<1>12. QED  BY <1>10, <1>11

-----------------------------------------------------------------------------
(* num_bg_tasks counts the queued tasks *)

\* A player's queue counts the player's queued tasks.
Exact(p) ==
  \/ \E q \in Tqs : player[q] = p /\ num_bg_tasks[q] = Cardinality(Owned(p))
  \/ (\A q \in Tqs : player[q] # p) /\ Owned(p) = {}

\* The background tasks of a queue are those of its player.
BgOwned == \A q \in Tqs, id \in Ids :
             On(bg[q], id) => task[id].progr = player[q]

\* The players whose count can be relied on.  resume_task() puts a task back
\* without counting it: where there are lookups, that leaves the connections,
\* for which no task is ever parked.
Counted == {p \in Players : MaxLookups = 0 \/ p \in Conns}

ParkedInv == \A id \in external_queue : task[id].progr \notin Counted

CountInv == BgOwned /\ ParkedInv /\ \A p \in Counted : Exact(p)

\* Where a step may put the background tasks of a queue.
LEMMA BgKept ==
  ASSUME CoreInv, BgOwned,
         \A q \in Tqs, id \in Ids : On(bg'[q], id) =>
           \/ task'[id].progr = player'[q]
           \/ /\ On(bg[q], id) /\ task'[id].progr = task[id].progr
              /\ player'[q] = player[q] \/ player[q] = FREE
  PROVE  BgOwned'
<1> SUFFICES ASSUME NEW q \in Tqs, NEW id \in Ids, On(bg'[q], id)
             PROVE  task'[id].progr = player'[q]
  BY DEF BgOwned
<1>1. CASE On(bg[q], id)
  <2>1. bg[q] # << >>
    <3>1. ~On(<< >>, id)
      BY DEF On
    <3>2. QED  BY <1>1, <3>1
  <2>2. player[q] # FREE
    BY <2>1 DEF CoreInv, FreeBlank
  <2>3. QED  BY <1>1, <2>2 DEF BgOwned
<1>2. CASE ~On(bg[q], id)
  BY <1>2
<1>3. QED  BY <1>1, <1>2

\* Queued is what is on the lists.
LEMMA QueuedOn ==
  ASSUME TypeOK
  PROVE  \A id : id \in Queued <=> InQueue(id)
<1>1. waiting_tasks \in Seq(Ids) /\ bg \in [Tqs -> Seq(Ids)]
  BY DEF TypeOK
<1>2. \A s \in Seq(Ids) : \A id : id \in IdsOf(s) <=> On(s, id)
  BY DEF IdsOf, On
<1>3. \A id : id \in IdsOf(waiting_tasks) <=> On(waiting_tasks, id)
  BY <1>1, <1>2
<1>4. \A q \in Tqs : \A id : id \in IdsOf(bg[q]) <=> On(bg[q], id)
  BY <1>1, <1>2
<1>5. QED  BY <1>3, <1>4 DEF Queued, InQueue

\* Whose tasks are queued, told by the lists they are on.
OwnedOn ==
  \A p : /\ Owned(p) = {id \in Ids : InQueue(id) /\ task[id].progr = p}
         /\ IsFiniteSet(Owned(p)) /\ Cardinality(Owned(p)) \in Nat

\* Owned is made of what is on the lists.
LEMMA OwnedSets == TypeOK => OwnedOn
<1> SUFFICES ASSUME TypeOK PROVE OwnedOn
  OBVIOUS
<1>1. \A id : InQueue(id) => id \in Ids
  <2>1. waiting_tasks \in Seq(Ids) /\ bg \in [Tqs -> Seq(Ids)]
    BY DEF TypeOK
  <2>2. \A s \in Seq(Ids) : \A id : On(s, id) => id \in Ids
    BY DEF On
  <2>3. QED  BY <2>1, <2>2 DEF InQueue
<1>2. IsFiniteSet(Ids)
  BY FS_Interval, BoundsAssumption DEF Ids
<1>3. ASSUME NEW p
      PROVE  /\ Owned(p) = {id \in Ids : InQueue(id) /\ task[id].progr = p}
             /\ IsFiniteSet(Owned(p)) /\ Cardinality(Owned(p)) \in Nat
  <2>1. Owned(p) = {id \in Ids : InQueue(id) /\ task[id].progr = p}
    BY <1>1, QueuedOn DEF Owned
  <2>2. IsFiniteSet(Owned(p))
    BY <1>2, <2>1, FS_Subset
  <2>3. QED  BY <2>1, <2>2, FS_CardinalityType
<1>4. QED  BY <1>3 DEF OwnedOn

\* The same of the state a step leads to.
LEMMA OwnedSetsNext == TypeOK' => OwnedOn'
BY OwnedSets, PTL

\* A step that neither adds to the tasks of p nor takes from them, and leaves
\* p's queue, or makes one, with the count it has.
LEMMA ExactSame ==
  ASSUME NEW p \in Players, Exact(p), Owned(p)' = Owned(p),
         \A q \in Tqs : player[q] = p => /\ player'[q] = p
                                         /\ num_bg_tasks'[q] = num_bg_tasks[q],
         \A q \in Tqs : player'[q] = p /\ player[q] # p =>
                            num_bg_tasks'[q] = 0
  PROVE  Exact(p)'
<1>1. CASE \E q \in Tqs : player[q] = p /\ num_bg_tasks[q] = Cardinality(Owned(p))
  BY <1>1 DEF Exact
<1>2. CASE (\A q \in Tqs : player[q] # p) /\ Owned(p) = {}
  <2>1. Cardinality(Owned(p)') = 0
    BY <1>2, FS_EmptySet
  <2>2. QED  BY <1>2, <2>1 DEF Exact
<1>3. QED  BY <1>1, <1>2 DEF Exact

CountsKept == BgOwned' /\ \A p \in Counted : Exact(p)'

\* A step that does not change what is queued.
LEMMA CountStill ==
  ASSUME CoreInv, CoreInv', CountInv, Still
  PROVE  CountsKept
<1>1. OwnedOn /\ OwnedOn' /\ TypeOK /\ FreeBlank
  BY OwnedSets, OwnedSetsNext DEF CoreInv
<1>2. ASSUME NEW p \in Counted PROVE Exact(p)'
  <2>1. Owned(p)' = Owned(p)
    BY <1>1 DEF OwnedOn, Still
  <2>2. p # FREE /\ p \in Players
    BY SetsAssumption DEF Counted
  <2>3. \A q \in Tqs : player[q] = p => /\ player'[q] = p
                                        /\ num_bg_tasks'[q] = num_bg_tasks[q]
    BY <2>2 DEF Still
  <2>4. \A q \in Tqs : player'[q] = p /\ player[q] # p =>
                          num_bg_tasks'[q] = 0
    BY <1>1 DEF Still, FreeBlank
  <2>5. QED  BY <2>1, <2>2, <2>3, <2>4, ExactSame DEF CountInv
<1>3. BgOwned'
  <2> SUFFICES ASSUME NEW q \in Tqs, NEW id \in Ids, On(bg'[q], id)
               PROVE  task'[id].progr = player'[q]
    BY DEF BgOwned
  <2>1. CASE On(bg[q], id)
    <3>1. bg[q] # << >>
      <4>1. ~On(<< >>, id)
        BY DEF On
      <4>2. QED  BY <2>1, <4>1
    <3>2. player'[q] = player[q]
      BY <1>1, <3>1 DEF FreeBlank, Still
    <3>3. task'[id].progr = task[id].progr
      BY <2>1 DEF Still, InQueue
    <3>4. QED  BY <2>1, <3>2, <3>3 DEF CountInv, BgOwned
  <2>2. CASE ~On(bg[q], id)
    BY <2>2 DEF Still
  <2>3. QED  BY <2>1, <2>2
<1>4. QED  BY <1>2, <1>3 DEF CountsKept

\* A task that was not queued joins those of the programmer p.
LEMMA CountJoined ==
  ASSUME CoreInv, CoreInv', OneQueuePerPlayer, CountInv, NEW x \in Ids,
         Joined(x)
  PROVE  CountsKept
<1>1. /\ OwnedOn /\ OwnedOn' /\ TypeOK /\ FreeBlank
      /\ task \in [Ids -> TaskRec] /\ waiting_tasks \in Seq(Ids)
      /\ num_bg_tasks \in [Tqs -> Int]
      /\ player \in [Tqs -> Players \cup {NOTHING, FREE}]
  BY OwnedSets, OwnedSetsNext DEF CoreInv, TypeOK
<1>2. PICK q \in Tqs, rec \in TaskRec :
        /\ EnqueueWaiting(q, x, rec)
        /\ rec.progr \in Players /\ UNCHANGED bg /\ ~InQueue(x)
  BY DEF Joined
<1>3. PICK o \in Players : o = rec.progr
  BY <1>2
<1>4. /\ FindOrCreate(q, o) /\ player' = [player EXCEPT ![q] = o]
      /\ num_bg_tasks' = [num_bg_tasks EXCEPT ![q] = @ + 1]
      /\ task' = [task EXCEPT ![x] = rec] /\ WaitingInsert(x, rec.start)
  BY <1>2, <1>3 DEF EnqueueWaiting
<1>5. \A y : On(waiting_tasks', y) <=> On(waiting_tasks, y) \/ y = x
  BY <1>1, <1>4, InsertAtOn DEF WaitingInsert
<1>6. /\ task'[x] = rec /\ \A id \in Ids : id # x => task'[id] = task[id]
      /\ player'[q] = o /\ \A r \in Tqs : r # q => player'[r] = player[r]
      /\ num_bg_tasks'[q] = num_bg_tasks[q] + 1
      /\ \A r \in Tqs : r # q => num_bg_tasks'[r] = num_bg_tasks[r]
  BY <1>1, <1>4
<1>7. \A id \in Ids : InQueue(id)' <=> InQueue(id) \/ id = x
  BY <1>2, <1>5 DEF InQueue
<1>8. \A p : Owned(p)' = IF p = o THEN Owned(p) \cup {x} ELSE Owned(p)
  BY <1>1, <1>2, <1>3, <1>6, <1>7 DEF OwnedOn
<1>9. x \notin Owned(o)
  BY <1>1, <1>2 DEF OwnedOn
<1>10. player[q] = o \/ (player[q] = FREE /\ \A r \in Tqs : player[r] # o)
  BY <1>4 DEF FindOrCreate, Find
<1>11. Cardinality(Owned(o)') = Cardinality(Owned(o)) + 1
  BY <1>1, <1>8, <1>9, FS_AddElement DEF OwnedOn
<1>12. ASSUME o \in Counted PROVE Exact(o)'
  <2>1. CASE player[q] = o
    <3>1. num_bg_tasks[q] = Cardinality(Owned(o))
      BY <1>1, <1>10, <1>12, <2>1 DEF CountInv, Exact, OneQueuePerPlayer
    <3>2. QED  BY <1>6, <1>11, <3>1 DEF Exact
  <2>2. CASE player[q] # o
    <3>1. num_bg_tasks[q] = 0
      BY <1>1, <1>10, <2>2 DEF FreeBlank
    <3>2. Owned(o) = {}
      BY <1>10, <1>12, <2>2 DEF CountInv, Exact
    <3>3. QED  BY <1>6, <1>11, <3>1, <3>2, FS_EmptySet DEF Exact
  <2>3. QED  BY <2>1, <2>2
<1>13. ASSUME NEW p \in Counted, p # o PROVE Exact(p)'
  <2>1. player[q] # p /\ p \in Players
    BY <1>10, <1>13, SetsAssumption DEF Counted
  <2>2. QED  BY <1>6, <1>8, <1>13, <2>1, ExactSame DEF CountInv
<1>14. BgOwned'
  <2> SUFFICES ASSUME NEW r \in Tqs, NEW id \in Ids, On(bg[r], id)
               PROVE  task'[id].progr = player'[r]
    BY <1>2 DEF BgOwned
  <2>1. id # x
    BY <1>2 DEF InQueue
  <2>2. bg[r] # << >>
    <3>1. ~On(<< >>, id)
      BY DEF On
    <3>2. QED  BY <3>1
  <2>3. player'[r] = player[r]
    BY <1>1, <1>6, <1>10, <2>2 DEF FreeBlank
  <2>4. QED  BY <1>6, <2>1, <2>3 DEF CountInv, BgOwned
<1>15. QED  BY <1>12, <1>13, <1>14 DEF CountsKept

\* A task leaves the background tasks of a queue.
LEMMA CountLeft ==
  ASSUME CoreInv, CoreInv', PlaceInv, OneQueuePerPlayer, CountInv,
         NEW x \in Ids, NEW q \in Tqs, Left(x, q)
  PROVE  CountsKept
<1>1. /\ OwnedOn /\ OwnedOn' /\ num_bg_tasks \in [Tqs -> Int]
      /\ task \in [Ids -> TaskRec]
  BY OwnedSets, OwnedSetsNext DEF CoreInv, TypeOK
<1>2. PICK o : o = task[x].progr
  OBVIOUS
<1>3. InQueue(x) /\ player[q] = o /\ o \in Players
  BY <1>2 DEF Left, InQueue, CountInv, BgOwned, PlaceInv, Real, Placed
<1>4. \A p : Owned(p)' = IF p = o THEN Owned(p) \ {x} ELSE Owned(p)
  BY <1>1, <1>2 DEF OwnedOn, Left
<1>5. x \in Owned(o)
  BY <1>1, <1>2, <1>3 DEF OwnedOn
<1>6. Cardinality(Owned(o)') = Cardinality(Owned(o)) - 1
  BY <1>1, <1>4, <1>5, FS_RemoveElement DEF OwnedOn
<1>7. /\ num_bg_tasks'[q] = num_bg_tasks[q] - 1 /\ player' = player
      /\ \A r \in Tqs : r # q => num_bg_tasks'[r] = num_bg_tasks[r]
  BY <1>1 DEF Left
<1>8. ASSUME o \in Counted PROVE Exact(o)'
  <2>1. num_bg_tasks[q] = Cardinality(Owned(o))
    BY <1>3, <1>5, <1>8 DEF CountInv, Exact, OneQueuePerPlayer
  <2>2. QED  BY <1>3, <1>6, <1>7, <2>1 DEF Exact
<1>9. ASSUME NEW p \in Counted, p # o PROVE Exact(p)'
  <2>1. p \in Players
    BY DEF Counted
  <2>2. QED  BY <1>3, <1>4, <1>7, <1>9, <2>1, ExactSame DEF CountInv
<1>10. BgOwned'
  <2> SUFFICES ASSUME NEW r \in Tqs, NEW id \in Ids, On(bg'[r], id)
               PROVE  task'[id].progr = player'[r]
    BY DEF BgOwned
  <2>1. On(bg[r], id) /\ InQueue(id)'
    BY DEF Left, InQueue
  <2>2. id # x
    BY <2>1 DEF Left
  <2>3. task'[id] = task[id]
    BY <2>2 DEF Left
  <2>4. QED  BY <1>7, <2>1, <2>3 DEF CountInv, BgOwned
<1>11. QED  BY <1>8, <1>9, <1>10 DEF CountsKept

\* A waiting task is killed: every queue of its owner is discounted.
LEMMA CountKilled ==
  ASSUME CoreInv, CoreInv', PlaceInv, OneQueuePerPlayer, CountInv,
         NEW i \in 1 .. Len(waiting_tasks), KillWaiting(i)
  PROVE  CountsKept
<1>1. /\ OwnedOn /\ OwnedOn' /\ num_bg_tasks \in [Tqs -> Int]
      /\ task \in [Ids -> TaskRec]
  BY OwnedSets, OwnedSetsNext DEF CoreInv, TypeOK
<1>2. PICK x, o : x = waiting_tasks[i] /\ o = task[x].progr
  OBVIOUS
<1>3. /\ num_bg_tasks' = [q \in Tqs |-> IF player[q] = o
                                        THEN num_bg_tasks[q] - 1
                                        ELSE num_bg_tasks[q]]
      /\ waiting_tasks' = RemoveAt(waiting_tasks, i)
      /\ task' = [task EXCEPT ![x] = NoTaskRec] /\ UNCHANGED <<player, bg>>
  BY <1>2 DEF KillWaiting, Forget
<1>4. /\ x \in Ids /\ On(waiting_tasks, x)
      /\ \A y : On(waiting_tasks', y) <=> On(waiting_tasks, y) /\ y # x
  BY <1>2, <1>3, WaitingRemoved
<1>5. InQueue(x) /\ o \in Players /\ \A r \in Tqs : ~On(bg[r], x)
  BY <1>2, <1>4 DEF InQueue, PlaceInv, Unique, OneBox, Real, Placed
<1>6. \A id \in Ids : InQueue(id)' <=> InQueue(id) /\ id # x
  BY <1>3, <1>4, <1>5 DEF InQueue
<1>7. \A id \in Ids : id # x => task'[id] = task[id]
  BY <1>1, <1>3
<1>8. \A p : Owned(p)' = IF p = o THEN Owned(p) \ {x} ELSE Owned(p)
  BY <1>1, <1>2, <1>6, <1>7 DEF OwnedOn
<1>9. x \in Owned(o)
  BY <1>1, <1>2, <1>4, <1>5 DEF OwnedOn
<1>10. Cardinality(Owned(o)') = Cardinality(Owned(o)) - 1
  BY <1>1, <1>8, <1>9, FS_RemoveElement DEF OwnedOn
<1>11. ASSUME o \in Counted PROVE Exact(o)'
  <2>1. PICK q \in Tqs :
          player[q] = o /\ num_bg_tasks[q] = Cardinality(Owned(o))
    BY <1>9, <1>11 DEF CountInv, Exact
  <2>2. num_bg_tasks'[q] = num_bg_tasks[q] - 1
    BY <1>3, <2>1
  <2>3. QED  BY <1>3, <1>10, <2>1, <2>2 DEF Exact
<1>12. ASSUME NEW p \in Counted, p # o PROVE Exact(p)'
  <2>1. p \in Players
    BY DEF Counted
  <2>2. QED  BY <1>3, <1>8, <1>12, <2>1, ExactSame DEF CountInv
<1>13. BgOwned'
  BY <1>3, <1>5, <1>7 DEF CountInv, BgOwned
<1>14. QED  BY <1>11, <1>12, <1>13 DEF CountsKept

\* A queue that counts no task has none, if its count can be relied on.
LEMMA NoneCounted ==
  ASSUME CoreInv, PlaceInv, OneQueuePerPlayer, CountInv,
         NEW q \in Tqs, num_bg_tasks[q] = 0, player[q] \in Counted
  PROVE  Owned(player[q]) = {} /\ \A id \in Ids : ~On(bg[q], id)
<1>1. OwnedOn
  BY OwnedSets DEF CoreInv
<1>2. Owned(player[q]) = {}
  <2>1. ASSUME Cardinality(Owned(player[q])) = 0
        PROVE  Owned(player[q]) = {}
    BY <1>1, <2>1, FS_EmptySet DEF OwnedOn
  <2>2. player[q] \in Players
    BY DEF Counted
  <2>3. QED  BY <2>1, <2>2 DEF CountInv, Exact, OneQueuePerPlayer
<1>3. ASSUME NEW id \in Ids, On(bg[q], id) PROVE FALSE
  <2>1. task[id].progr = player[q] /\ InQueue(id)
    BY <1>3 DEF CountInv, BgOwned, InQueue
  <2>2. QED  BY <1>1, <1>2, <2>1 DEF OwnedOn
<1>4. QED  BY <1>2, <1>3

\* A queue that is freed has no task: its count says so if it belonged to a
\* connection, and else it would be active.
LEMMA FreedEmpty ==
  ASSUME CoreInv, PlaceInv, OneQueuePerPlayer, ReadyInv, CountInv,
         NEW q \in Tqs, FreeTqueue(q)
  PROVE  bg[q] = << >>
<1>1. num_bg_tasks[q] = 0 /\ ~OnActive(q)
  BY DEF FreeTqueue, Unneeded
<1>2. CASE player[q] \in Conns
  <2>1. player[q] \in Counted
    BY <1>2 DEF Counted, Players
  <2>2. \A id \in Ids : ~On(bg[q], id)
    BY <1>1, <2>1, NoneCounted
  <2>3. bg[q] \in Seq(Ids)
    BY DEF CoreInv, TypeOK
  <2>4. bg[q] # << >> => On(bg[q], bg[q][1]) /\ bg[q][1] \in Ids
    BY <2>3 DEF On
  <2>5. QED  BY <2>2, <2>4
<1>3. CASE player[q] \notin Conns
  BY <1>1, <1>3, ReadyImplies DEF ReadyIsActive, Detached
<1>4. QED  BY <1>2, <1>3

\* A queue that counts no task is freed.
LEMMA CountFreed ==
  ASSUME CoreInv, CoreInv', PlaceInv, OneQueuePerPlayer, ReadyInv, CountInv,
         NEW q \in Tqs, FreeTqueue(q)
  PROVE  CountsKept
<1>1. /\ OwnedOn /\ OwnedOn' /\ task \in [Ids -> TaskRec]
      /\ bg \in [Tqs -> Seq(Ids)]
      /\ player \in [Tqs -> Players \cup {NOTHING, FREE}]
  BY OwnedSets, OwnedSetsNext DEF CoreInv, TypeOK
<1>2. /\ num_bg_tasks[q] = 0 /\ player' = [player EXCEPT ![q] = FREE]
      /\ bg' = [bg EXCEPT ![q] = << >>]
      /\ \A id \in Ids : id # reading[q] => task'[id] = task[id]
      /\ UNCHANGED <<num_bg_tasks, waiting_tasks>>
  BY DEF FreeTqueue, Unneeded
<1>3. /\ player[q] \in Counted => Owned(player[q]) = {}
      /\ \A id \in Ids : ~On(bg[q], id)
  BY <1>2, NoneCounted, FreedEmpty DEF On
<1>4. \A id : ~On(bg'[q], id)
  <2>1. bg'[q] = << >>
    BY <1>1, <1>2
  <2>2. \A id : ~On(<< >>, id)
    BY DEF On
  <2>3. QED  BY <2>1, <2>2
<1>5. \A r \in Tqs : r # q => bg'[r] = bg[r]
  BY <1>1, <1>2
<1>6. \A id \in Ids : InQueue(id)' <=> InQueue(id)
  BY <1>2, <1>3, <1>4, <1>5 DEF InQueue
<1>7. \A id \in Ids : InQueue(id) => task'[id] = task[id]
  BY <1>2 DEF InQueue, PlaceInv, Unique, OneBox
<1>8. \A p : Owned(p)' = Owned(p)
  BY <1>1, <1>6, <1>7 DEF OwnedOn
<1>9. player'[q] = FREE /\ \A r \in Tqs : r # q => player'[r] = player[r]
  BY <1>1, <1>2
<1>10. ASSUME NEW p \in Counted PROVE Exact(p)'
  <2>1. p # FREE /\ p \in Players
    BY SetsAssumption DEF Counted
  <2>2. CASE player[q] = p
    <3>1. \A r \in Tqs : player'[r] # p
      BY <1>9, <2>1, <2>2 DEF OneQueuePerPlayer
    <3>2. QED  BY <1>3, <1>8, <2>2, <3>1 DEF Exact
  <2>3. CASE player[q] # p
    BY <1>2, <1>8, <1>9, <2>1, <2>3, ExactSame DEF CountInv
  <2>4. QED  BY <2>2, <2>3
<1>11. BgOwned'
  <2> SUFFICES ASSUME NEW r \in Tqs, NEW id \in Ids, On(bg'[r], id)
               PROVE  task'[id].progr = player'[r]
    BY DEF BgOwned
  <2>1. r # q /\ On(bg[r], id)
    BY <1>4, <1>5
  <2>2. InQueue(id)
    BY <2>1 DEF InQueue
  <2>3. QED  BY <1>7, <1>9, <2>1, <2>2 DEF CountInv, BgOwned
<1>12. QED  BY <1>10, <1>11 DEF CountsKept

\* A parked task that is resumed is not counted, and its programmer's count
\* is none of those that can be relied on.
LEMMA CountResumed ==
  ASSUME CoreInv, CoreInv', PlaceInv, CountInv,
         NEW x \in external_queue, ResumeExternal(x)
  PROVE  CountsKept
<1>1. /\ OwnedOn /\ OwnedOn' /\ x \in Ids /\ task \in [Ids -> TaskRec]
      /\ bg \in [Tqs -> Seq(Ids)]
      /\ player \in [Tqs -> Players \cup {NOTHING, FREE}]
  BY OwnedSets, OwnedSetsNext DEF CoreInv, TypeOK
<1>2. PICK o : o = task[x].progr
  OBVIOUS
<1>3. PICK q \in Tqs :
        /\ FindOrCreate(q, o) /\ player' = [player EXCEPT ![q] = o]
        /\ bg' = [bg EXCEPT ![q] = Append(@, x)]
  BY <1>2 DEF ResumeExternal
<1>4. UNCHANGED <<waiting_tasks, num_bg_tasks>>
  BY DEF ResumeExternal
<1>5. \A id \in Ids : task'[id].progr = task[id].progr
  BY <1>1 DEF ResumeExternal
<1>6. /\ \A y : On(bg'[q], y) <=> On(bg[q], y) \/ y = x
      /\ \A r \in Tqs : r # q => bg'[r] = bg[r]
  BY <1>1, <1>3, AppendOn
<1>7. /\ \A r \in Tqs : player'[r] = player[r] \/ player[r] = FREE
      /\ player'[q] = o /\ \A r \in Tqs : r # q => player'[r] = player[r]
  BY <1>1, <1>3, FoundPlayers
<1>8. BgOwned'
  BY <1>2, <1>5, <1>6, <1>7, BgKept DEF CountInv
<1>9. \A id \in Ids : InQueue(id)' <=> InQueue(id) \/ id = x
  BY <1>4, <1>6 DEF InQueue
<1>10. ASSUME NEW p \in Counted PROVE Exact(p)'
  <2>1. p # FREE /\ p \in Players /\ p # o
    BY <1>2, SetsAssumption DEF Counted, CountInv, ParkedInv
  <2>2. Owned(p)' = Owned(p)
    BY <1>1, <1>2, <1>5, <1>9, <2>1 DEF OwnedOn
  <2>3. \A r \in Tqs : /\ player[r] = p => player'[r] = p
                       /\ player'[r] = p => player[r] = p
    BY <1>7, <2>1
  <2>4. QED  BY <1>4, <2>1, <2>2, <2>3, ExactSame DEF CountInv
<1>11. QED  BY <1>8, <1>10 DEF CountsKept

\* A login moves the tasks of whole queues, and their counts with them.
LEMMA CountLogin ==
  ASSUME CoreInv, CoreInv', PlaceInv, OneQueuePerPlayer, CountInv,
         NEW u \in Users, NEW old \in Tqs, LoginTask(u, old)
  PROVE  CountsKept /\ \A id \in Ids : InQueue(id)' <=> InQueue(id)
<1>1. PICK q \in Tqs, d \in Tqs : LoginQueues(u, old, q, d)
  BY LoginEffect
<1>2. /\ OwnedOn /\ OwnedOn' /\ task \in [Ids -> TaskRec]
      /\ bg \in [Tqs -> Seq(Ids)] /\ FreeBlank
      /\ player \in [Tqs -> Players \cup {NOTHING, FREE}]
  BY OwnedSets, OwnedSetsNext DEF CoreInv, TypeOK
<1>3. /\ task' = [task EXCEPT ![current_task_id] = NoTaskRec]
      /\ UNCHANGED waiting_tasks
  BY DEF LoginTask, Forget
<1>4. PICK c \in Conns : c = player[q]
  BY <1>1 DEF LoginQueues
<1>5. /\ c \in Players /\ u \in Players /\ c # u /\ c # FREE /\ u # FREE
      /\ c # NOTHING /\ u # NOTHING /\ q # old
  BY <1>1, <1>4, SetsAssumption DEF Players, LoginQueues
<1>6. num_bg_tasks[old] = 0 /\ \A id : ~On(bg[old], id)
  <2>1. num_bg_tasks[old] = 0 /\ bg[old] = << >>
    BY <1>1, <1>2 DEF LoginQueues, FreeBlank
  <2>2. \A id : ~On(<< >>, id)
    BY DEF On
  <2>3. QED  BY <2>1, <2>2
<1>7. ASSUME ~OwnsTasks(q)
      PROVE  Owned(c) = {} /\ \A id \in Ids : ~On(bg[q], id)
  BY <1>1, <1>4, <1>5, <1>7, NoneCounted DEF OwnsTasks, Counted
<1>8. \A id \in Ids : (\E r \in Tqs : On(bg'[r], id))
                      <=> \E r \in Tqs : On(bg[r], id)
  <2> SUFFICES ASSUME NEW id \in Ids
               PROVE  (\E r \in Tqs : On(bg'[r], id))
                        <=> \E r \in Tqs : On(bg[r], id)
    OBVIOUS
  <2>1. ASSUME NEW r \in Tqs, On(bg'[r], id) PROVE \E s \in Tqs : On(bg[s], id)
    BY <1>1, <2>1 DEF LoginQueues
  <2>2. ASSUME NEW r \in Tqs, On(bg[r], id) PROVE \E s \in Tqs : On(bg'[s], id)
    <3>1. CASE r = q
      BY <1>1, <1>7, <2>2, <3>1 DEF LoginQueues
    <3>2. CASE r = old
      BY <1>6, <2>2, <3>2
    <3>3. CASE r # q /\ r # old /\ r = d
      BY <1>1, <2>2, <3>3 DEF LoginQueues
    <3>4. CASE r # q /\ r # old /\ r # d
      BY <1>1, <2>2, <3>4 DEF LoginQueues
    <3>5. QED  BY <3>1, <3>2, <3>3, <3>4
  <2>3. QED  BY <2>1, <2>2
<1>9. \A id \in Ids : InQueue(id)' <=> InQueue(id)
  BY <1>3, <1>8 DEF InQueue
<1>10. \A id \in Ids : InQueue(id) => task'[id] = task[id]
  <2>1. \A id \in Ids : id # current_task_id => task'[id] = task[id]
    BY <1>2, <1>3
  <2>2. QED  BY <2>1 DEF InQueue, PlaceInv, Unique, OneBox
<1>11. \A p : Owned(p)' = Owned(p)
  BY <1>2, <1>9, <1>10 DEF OwnedOn
<1>12. ASSUME u \in Counted PROVE Exact(u)'
  <2>1. CASE d = old
    <3>1. Owned(u) = {}
      BY <1>1, <1>5, <1>12, <2>1 DEF LoginQueues, CountInv, Exact
    <3>2. player'[q] = u /\ num_bg_tasks'[q] = 0
      BY <1>1, <2>1 DEF LoginQueues
    <3>3. QED  BY <1>11, <3>1, <3>2, FS_EmptySet DEF Exact
  <2>2. CASE d # old
    <3>1. player[d] = u /\ player'[q] = u /\ num_bg_tasks'[q] = num_bg_tasks[d]
      BY <1>1, <2>2 DEF LoginQueues
    <3>2. num_bg_tasks[d] = Cardinality(Owned(u))
      BY <1>5, <1>12, <3>1 DEF CountInv, Exact, OneQueuePerPlayer
    <3>3. QED  BY <1>11, <3>1, <3>2 DEF Exact
  <2>3. QED  BY <2>1, <2>2
<1>13. \A r \in Tqs : r # q => player[r] # c
  BY <1>4, <1>5 DEF OneQueuePerPlayer
<1>14. Exact(c)'
  <2>1. CASE OwnsTasks(q)
    <3>1. player'[old] = c /\ num_bg_tasks'[old] = num_bg_tasks[q]
      BY <1>1, <1>4, <2>1 DEF LoginQueues
    <3>2. num_bg_tasks[q] = Cardinality(Owned(c))
      BY <1>1, <1>4, <1>5, <1>13 DEF CountInv, Exact, Counted
    <3>3. QED  BY <1>11, <3>1, <3>2 DEF Exact
  <2>2. CASE ~OwnsTasks(q)
    <3>1. \A r \in Tqs : player'[r] # c
      BY <1>1, <1>5, <1>13, <2>2 DEF LoginQueues
    <3>2. QED  BY <1>7, <1>11, <2>2, <3>1 DEF Exact
  <2>3. QED  BY <2>1, <2>2
<1>15. ASSUME NEW p \in Counted, p # u, p # c PROVE Exact(p)'
  <2>1. p # FREE /\ p # NOTHING /\ p \in Players
    BY SetsAssumption DEF Counted
  <2>2. \A r \in Tqs : player[r] = p => r # q /\ r # old /\ (d # old => r # d)
    BY <1>1, <1>4, <1>15, <2>1 DEF LoginQueues
  <2>3. \A r \in Tqs : player[r] = p => /\ player'[r] = p
                                        /\ num_bg_tasks'[r] = num_bg_tasks[r]
    BY <1>1, <2>2 DEF LoginQueues
  <2>4. \A r \in Tqs : player'[r] = p => player[r] = p
    BY <1>1, <1>4, <1>15, <2>1 DEF LoginQueues
  <2>5. QED  BY <1>11, <2>1, <2>3, <2>4, ExactSame DEF CountInv
<1>16. BgOwned'
  <2> SUFFICES ASSUME NEW r \in Tqs, NEW id \in Ids, On(bg'[r], id)
               PROVE  task'[id].progr = player'[r]
    BY DEF BgOwned
  <2>1. \E s \in Tqs : On(bg[s], id) /\ player[s] = player'[r]
    <3>1. CASE r = old
      BY <1>1, <3>1 DEF LoginQueues
    <3>2. CASE r = q
      BY <1>1, <1>7, <3>2 DEF LoginQueues
    <3>3. CASE r # q /\ r # old /\ r = d
      BY <1>1, <3>3 DEF LoginQueues
    <3>4. CASE r # q /\ r # old /\ r # d
      BY <1>1, <3>4 DEF LoginQueues
    <3>5. QED  BY <3>1, <3>2, <3>3, <3>4
  <2>2. InQueue(id)
    BY <2>1 DEF InQueue
  <2>3. QED  BY <1>10, <2>1, <2>2 DEF CountInv, BgOwned
<1>17. QED  BY <1>9, <1>12, <1>14, <1>15, <1>16 DEF CountsKept

\* A restart leaves no queue and no queued task.
LEMMA CountRestart ==
  ASSUME CoreInv', Restart
  PROVE  CountsKept
<1>1. OwnedOn'
  BY OwnedSetsNext DEF CoreInv
<1>2. \A id : ~On(<< >>, id)
  BY DEF On
<1>3. /\ waiting_tasks' = << >> /\ \A q \in Tqs : bg'[q] = << >>
      /\ \A q \in Tqs : player'[q] = FREE
  BY DEF Restart
<1>4. \A id : ~InQueue(id)'
  BY <1>2, <1>3 DEF InQueue
<1>5. \A p : Owned(p)' = {}
  BY <1>1, <1>4 DEF OwnedOn
<1>6. \A p \in Counted : p # FREE
  BY SetsAssumption DEF Counted
<1>7. QED  BY <1>2, <1>3, <1>5, <1>6 DEF CountsKept, Exact, BgOwned

\* A step that parks no task leaves the parked ones what they are.
LEMMA ParkedNext ==
  ASSUME CoreInv, PlaceInv, ParkedInv, [Next]_vars
  PROVE  ParkedInv'
<1>1. /\ task \in [Ids -> TaskRec] /\ external_queue \subseteq Ids
      /\ bg \in [Tqs -> Seq(Ids)] /\ waiting_tasks \in Seq(Ids)
  BY DEF CoreInv, TypeOK
<1>2. \A id \in external_queue :
        /\ id # current_task_id /\ ~On(waiting_tasks, id) /\ ~On(disk, id)
        /\ \A q \in Tqs : reading[q] # id /\ ~On(bg[q], id)
        /\ ~NewTaskId(id)
  BY <1>1, NewIsNowhere DEF PlaceInv, Unique, OneBox, Placed
<1>3. ASSUME NEW x, x \notin external_queue',
             \A id \in Ids : id # x => task'[id].progr = task[id].progr,
             external_queue' \subseteq external_queue
      PROVE  ParkedInv'
  BY <1>1, <1>3 DEF ParkedInv
<1>4. ASSUME NEW x, x \notin external_queue, UNCHANGED external_queue,
             \/ \E rec : task' = [task EXCEPT ![x] = rec]
             \/ \E p : task' = [task EXCEPT ![x].progr = p]
             \/ \E t : task' = [task EXCEPT ![x].start = t]
      PROVE  ParkedInv'
  <2>1. \A id \in Ids : id # x => task'[id] = task[id]
    BY <1>1, <1>4
  <2>2. QED  BY <1>3, <1>4, <2>1
<1>5. ASSUME UNCHANGED <<task, external_queue>> PROVE ParkedInv'
  BY <1>5 DEF ParkedInv
<1>6. CASE NetworkStep
  <2>1. CASE \E x \in Ids : ResumeExternal(x)
    <3>1. PICK x \in Ids : ResumeExternal(x)
      BY <2>1
    <3>2. /\ external_queue' = external_queue \ {x}
          /\ \A id \in Ids : id # x => task'[id] = task[id]
      BY <1>1, <3>1 DEF ResumeExternal
    <3>3. QED  BY <1>3, <3>2
  <2>2. QED
    BY <1>5, <1>6, <2>1 DEF NetworkStep, NewConnection, InputLine,
       FlushCommand, FreeTaskQueue
<1>7. CASE SchedulerStep
  <2>1. CASE \E q \in Tqs : PickInput(q)
    <3>1. PICK q \in Tqs : PickInput(q)
      BY <2>1
    <3>2. CASE UNCHANGED task
      BY <1>5, <3>1, <3>2 DEF PickInput
    <3>3. CASE \E x \in Ids, p \in Progrs :
                 NewTaskId(x) /\ task' = [task EXCEPT ![x].progr = p]
      BY <1>2, <1>4, <3>1, <3>3 DEF PickInput
    <3>4. QED  BY <3>1, <3>2, <3>3 DEF PickInput
  <2>2. CASE \E q \in Tqs : FreeTqueue(q)
    <3>1. PICK q \in Tqs : FreeTqueue(q)
      BY <2>2
    <3>2. /\ UNCHANGED external_queue
          /\ \A id \in Ids : id # reading[q] => task'[id] = task[id]
      BY <1>1, <3>1 DEF FreeTqueue
    <3>3. reading[q] \notin external_queue
      BY <1>2
    <3>4. QED  BY <1>3, <3>2, <3>3
  <2>3. CASE \E q \in Tqs : PickBg(q) \/ PickNothing(q)
    BY <1>5, <2>3 DEF PickBg, PickNothing
  <2>4. CASE \E secs \in 0 .. MaxUsage : TaskDone(secs)
    BY <1>5, <2>4 DEF TaskDone
  <2>5. QED
    BY <1>5, <1>7, <2>1, <2>2, <2>3, <2>4 DEF SchedulerStep, RunReadyTasks,
       MoveDue, MoveDone, PickOutOfInput, PickNone, EmptyCommand, Command,
       SweepDone
<1>8. CASE TaskStep
  <2>1. CASE \E d \in 0 .. MaxDelay : Fork(d) \/ Suspend(d)
    <3>1. PICK x : /\ NewTaskId(x) \/ x = current_task_id
                   /\ \E q \in Tqs : \E rec : EnqueueWaiting(q, x, rec)
                   /\ UNCHANGED external_queue
      BY <2>1 DEF Fork, Suspend
    <3>2. x \notin external_queue
      BY <1>2, <3>1
    <3>3. QED  BY <1>4, <3>1, <3>2 DEF EnqueueWaiting
  <2>2. CASE SuspendExternally
    <3>1. /\ external_queue' = external_queue \cup {current_task_id}
          /\ Me \in Wizards /\ MaxLookups > 0 /\ UNCHANGED task
      BY <2>2 DEF SuspendExternally
    <3>2. Me \notin Counted
      BY <3>1, SetsAssumption, BoundsAssumption DEF Counted
    <3>3. QED  BY <3>1, <3>2 DEF ParkedInv, Me
  <2>3. CASE \E i \in 1 .. Len(waiting_tasks) : KillWaiting(i) \/ DoResume(i)
    <3>1. PICK i \in 1 .. Len(waiting_tasks) : KillWaiting(i) \/ DoResume(i)
      BY <2>3
    <3>2. PICK x : x = waiting_tasks[i]
      OBVIOUS
    <3>3. x \notin external_queue
      BY <1>2, <3>2 DEF On
    <3>4. QED  BY <1>4, <3>1, <3>2, <3>3 DEF KillWaiting, DoResume, Forget
  <2>4. CASE \E q \in Tqs : KillReading(q)
    BY <1>2, <1>4, <2>4 DEF KillReading, Forget
  <2>5. CASE \E q \in Tqs : \E i \in 1 .. Len(bg[q]) : KillBg(q, i)
    <3>0. PICK q \in Tqs : \E i \in 1 .. Len(bg[q]) : KillBg(q, i)
      BY <2>5
    <3>1. PICK i \in 1 .. Len(bg[q]) : KillBg(q, i)
      BY <3>0
    <3>2. PICK x : x = bg[q][i]
      OBVIOUS
    <3>3. x \notin external_queue
      BY <1>2, <3>2 DEF On
    <3>4. QED  BY <1>4, <3>1, <3>2, <3>3 DEF KillBg, Forget
  <2>6. CASE \E x \in Ids : KillExternal(x)
    <3>1. PICK x \in Ids : KillExternal(x)
      BY <2>6
    <3>2. /\ external_queue' = external_queue \ {x}
          /\ \A id \in Ids : id # x => task'[id] = task[id]
      BY <1>1, <3>1 DEF KillExternal, Forget
    <3>3. QED  BY <1>3, <3>2
  <2>7. CASE Finish \/ \E u \in Users, old \in Tqs : LoginTask(u, old)
    BY <1>2, <1>4, <2>7 DEF Finish, LoginTask, Forget
  <2>8. CASE \E p \in Users \cup opened :
               \/ MakeReadingTask(p) \/ ReadInputNow(p)
               \/ ForceInput(p) \/ FlushInput(p)
    BY <1>5, <2>8 DEF MakeReadingTask, ReadInputNow, ForceInput, FlushInput
  <2>9. QED
    BY <1>8, <2>1, <2>2, <2>3, <2>4, <2>5, <2>6, <2>7, <2>8 DEF TaskStep
<1>9. CASE \E p \in Progrs : StartServerTask(p)
  BY <1>2, <1>4, <1>9 DEF StartServerTask
<1>10. CASE LoadTask
  <2>1. PICK q \in Tqs, x \in Ids :
          x = Head(disk) /\ EnqueueWaiting(q, x, task[x])
    BY <1>10 DEF LoadTask
  <2>2. disk # << >> /\ disk \in Seq(Ids) /\ UNCHANGED external_queue
    BY <1>10 DEF LoadTask, PlaceInv, Lists
  <2>3. x \notin external_queue
    BY <1>2, <2>1, <2>2 DEF On
  <2>4. QED  BY <1>4, <2>1, <2>2, <2>3 DEF EnqueueWaiting
<1>11. CASE Restart
  BY <1>11 DEF Restart, ParkedInv
<1>12. CASE Tick \/ LoadDone \/ UNCHANGED vars
  BY <1>5, <1>12 DEF Tick, LoadDone, vars
<1>13. QED
  BY <1>6, <1>7, <1>8, <1>9, <1>10, <1>11, <1>12 DEF Next

\* What the counts need to stay exact.
CountCore == /\ CoreInv /\ PlaceInv /\ PhaseInv /\ OneQueuePerPlayer
             /\ ReadyInv /\ CountInv

\* Every step keeps the counts exact.
LEMMA CountNext ==
  ASSUME CountCore, [Next]_vars
  PROVE  CountCore'
<1>1. CoreInv' /\ PlaceInv' /\ PhaseInv' /\ OneQueuePerPlayer' /\ ReadyInv'
  BY CoreNext, PlaceNext, PhaseNext, OneQueueNext, ReadyNext DEF CountCore
<1>2. ParkedInv'
  BY ParkedNext DEF CountCore, CountInv
<1>3. QueueStep
  BY QueueSteps DEF CountCore
<1>4. CountsKept
  BY <1>1, <1>3, CountStill, CountJoined, CountLeft, CountResumed,
     CountKilled, CountFreed, CountLogin, CountRestart
     DEF QueueStep, CountCore
<1>5. CountInv'
  BY <1>2, <1>4 DEF CountInv, CountsKept, Counted
<1>6. QED  BY <1>1, <1>5 DEF CountCore

\* There is nothing to count at the start.
LEMMA CountInit == Init => CountCore
<1> SUFFICES ASSUME Init PROVE CountCore
  OBVIOUS
<1>1. CoreInv /\ PlaceInv /\ OwnedOn
  BY CoreInit, PlaceInit, OwnedSets DEF CoreInv
<1>2. /\ waiting_tasks = << >> /\ \A q \in Tqs : bg[q] = << >>
      /\ \A q \in Tqs : player[q] = FREE
      /\ external_queue = {} /\ disk = << >> /\ ~Running
  BY DEF Init, Running
<1>3. \A id : ~On(<< >>, id)
  BY DEF On
<1>4. \A p : Owned(p) = {}
  BY <1>1, <1>2, <1>3 DEF OwnedOn, InQueue
<1>5. \A p \in Players : p # FREE
  BY SetsAssumption
<1>6. CountInv
  BY <1>2, <1>3, <1>4, <1>5 DEF CountInv, Counted, Exact, BgOwned, ParkedInv
<1>7. QED
  BY <1>1, <1>2, <1>5, <1>6, ReadyInit, SetsAssumption
     DEF CountCore, PhaseInv, OneQueuePerPlayer

\* num_bg_tasks, which fork, suspend, kill, resume, the dump and a login keep
\* by hand, is always the number of its player's queued tasks, and a player
\* without a queue has none, in a server that never parks a task with
\* exec() or a name lookup: resume_task() does not count the tasks it puts
\* back.
THEOREM CountsExact ==
  ASSUME MaxLookups = 0
  PROVE  Spec => []CountExact
<1>1. CountCore => CountExact
  BY DEF CountCore, CountInv, Counted, Exact, CountExact
<1>2. CountCore /\ [Next]_vars => CountCore'
  BY CountNext
<1>3. QED
  BY <1>1, <1>2, CountInit, PTL DEF Spec

-----------------------------------------------------------------------------
(* The limit on queued tasks *)

\* The tasks of p that are queued or still to be read from the dump.
Held(p) == {id \in Ids : (InQueue(id) \/ On(disk, id)) /\ task[id].progr = p}

HeldInv == Limit >= 0 => \A p \in Players : Cardinality(Held(p)) <= Limit

HeldFine ==
  /\ \A p : IsFiniteSet(Held(p)) /\ Cardinality(Held(p)) \in Nat
  /\ \A p : \A S \in SUBSET Held(p) : Cardinality(S) <= Cardinality(Held(p))

\* They are finitely many.
LEMMA HeldFinite == HeldFine
<1>1. IsFiniteSet(Ids)
  BY FS_Interval, BoundsAssumption DEF Ids
<1>2. \A p : Held(p) \subseteq Ids
  BY DEF Held
<1>3. \A p : IsFiniteSet(Held(p))
  BY <1>1, <1>2, FS_Subset
<1>4. QED  BY <1>3, FS_Subset, FS_CardinalityType DEF HeldFine

\* The same of the state a step leads to.
LEMMA HeldFiniteNext == HeldFine'
BY HeldFinite, PTL

\* No task joins those that are queued or on the dump, and they are what
\* they were.
Fewer ==
  \A id \in Ids : InQueue(id)' \/ On(disk', id) =>
    /\ InQueue(id) \/ On(disk, id)
    /\ task'[id].kind = task[id].kind
    /\ task'[id].progr = task[id].progr

\* A step that adds no task leaves everybody under the limit.
LEMMA HeldFewer ==
  ASSUME HeldInv, Fewer
  PROVE  HeldInv'
<1> SUFFICES ASSUME Limit >= 0, NEW p \in Players
             PROVE  Cardinality(Held(p)') <= Limit
  BY DEF HeldInv
<1>1. Held(p)' \subseteq Held(p)
  BY DEF Held, Fewer
<1>2. Cardinality(Held(p)') <= Cardinality(Held(p))
  BY <1>1, HeldFinite DEF HeldFine
<1>3. QED
  BY <1>2, HeldFinite, HeldFiniteNext, BoundsAssumption DEF HeldInv, HeldFine

\* Tasks are added by fork, suspend, the dump and resume_task() only.
LEMMA FewerSteps ==
  ASSUME CoreInv, PlaceInv, PhaseInv, OneQueuePerPlayer, [Next]_vars
  PROVE  \/ Fewer
         \/ \E x \in Ids : Joined(x)
         \/ \E x \in external_queue : ResumeExternal(x)
<1>1. QueueStep
  BY QueueSteps
<1>2. task \in [Ids -> TaskRec] /\ bg \in [Tqs -> Seq(Ids)]
  BY DEF CoreInv, TypeOK
<1>3. \A id \in Ids : On(disk, id) => ~InQueue(id)
  BY DEF PlaceInv, Unique, OneBox, InQueue
<1>4. CASE Still
  BY <1>4 DEF Still, Fewer
<1>5. CASE \E x \in Ids, q \in Tqs : Left(x, q)
  <2>1. PICK x \in Ids, q \in Tqs : Left(x, q)
    BY <1>5
  <2>2. InQueue(x) /\ ~On(disk, x)
    BY <1>3, <2>1 DEF Left, InQueue
  <2>3. QED  BY <2>1, <2>2 DEF Left, Fewer
<1>6. CASE \E i \in 1 .. Len(waiting_tasks) : KillWaiting(i)
  <2>1. PICK i \in 1 .. Len(waiting_tasks) : KillWaiting(i)
    BY <1>6
  <2>2. PICK x : x = waiting_tasks[i]
    OBVIOUS
  <2>3. /\ waiting_tasks' = RemoveAt(waiting_tasks, i)
        /\ task' = [task EXCEPT ![x] = NoTaskRec] /\ UNCHANGED <<disk, bg>>
    BY <2>1, <2>2 DEF KillWaiting, Forget
  <2>4. /\ x \in Ids /\ On(waiting_tasks, x)
        /\ \A y : On(waiting_tasks', y) <=> On(waiting_tasks, y) /\ y # x
    BY <2>2, <2>3, WaitingRemoved
  <2>5. ~On(disk, x) /\ \A q \in Tqs : ~On(bg[q], x)
    BY <2>4 DEF PlaceInv, Unique, OneBox
  <2>6. \A id \in Ids : id # x => task'[id] = task[id]
    BY <1>2, <2>3
  <2>7. \A id \in Ids : InQueue(id)' \/ On(disk', id) =>
                          id # x /\ (InQueue(id) \/ On(disk, id))
    BY <2>3, <2>4, <2>5 DEF InQueue
  <2>8. QED  BY <2>6, <2>7 DEF Fewer
<1>7. CASE \E q \in Tqs : FreeTqueue(q)
  <2>1. PICK q \in Tqs : FreeTqueue(q)
    BY <1>7
  <2>2. /\ bg' = [bg EXCEPT ![q] = << >>]
        /\ UNCHANGED <<disk, waiting_tasks>>
        /\ \A id \in Ids : id # reading[q] => task'[id] = task[id]
    BY <2>1 DEF FreeTqueue
  <2>3. \A id : \A r \in Tqs : On(bg'[r], id) => On(bg[r], id)
    <3>1. \A id : ~On(<< >>, id)
      BY DEF On
    <3>2. bg'[q] = << >> /\ \A r \in Tqs : r # q => bg'[r] = bg[r]
      BY <1>2, <2>2
    <3>3. QED  BY <3>1, <3>2
  <2>4. \A id \in Ids : InQueue(id)' \/ On(disk', id) =>
                          InQueue(id) \/ On(disk, id)
    BY <2>2, <2>3 DEF InQueue
  <2>5. \A id \in Ids : InQueue(id) \/ On(disk, id) => id # reading[q]
    BY DEF PlaceInv, Unique, OneBox, InQueue
  <2>6. QED  BY <2>2, <2>4, <2>5 DEF Fewer
<1>8. CASE \E u \in Users, old \in Tqs : LoginTask(u, old)
  <2>1. PICK u \in Users, old \in Tqs : LoginTask(u, old)
    BY <1>8
  <2>2. PICK q \in Tqs, d \in Tqs : LoginQueues(u, old, q, d)
    BY <2>1, LoginEffect
  <2>3. \A id : \A r \in Tqs : On(bg'[r], id) => \E s \in Tqs : On(bg[s], id)
    BY <2>2 DEF LoginQueues
  <2>4. /\ task' = [task EXCEPT ![current_task_id] = NoTaskRec]
        /\ UNCHANGED <<disk, waiting_tasks>>
    BY <2>1 DEF LoginTask, Forget
  <2>5. \A id \in Ids : id # current_task_id => task'[id] = task[id]
    BY <1>2, <2>4
  <2>6. \A id \in Ids : InQueue(id) \/ On(disk, id) => id # current_task_id
    BY DEF PlaceInv, Unique, OneBox, InQueue
  <2>7. \A id \in Ids : InQueue(id)' => InQueue(id)
    BY <2>3, <2>4 DEF InQueue
  <2>8. QED  BY <2>4, <2>5, <2>6, <2>7 DEF Fewer
<1>9. CASE Restart
  <2>1. \A id : ~InQueue(id)'
    <3>1. \A id : ~On(<< >>, id)
      BY DEF On
    <3>2. waiting_tasks' = << >> /\ \A q \in Tqs : bg'[q] = << >>
      BY <1>9 DEF Restart
    <3>3. QED  BY <3>1, <3>2 DEF InQueue
  <2>2. disk' = WriteTaskQueue
    BY <1>9 DEF Restart
  <2>3. \A id \in Ids : On(disk', id) => InQueue(id)
    BY <2>2, Written DEF InQueue
  <2>4. \A id \in Ids : On(disk', id) => task'[id] = task[id]
    BY <1>9 DEF Restart, On
  <2>5. QED  BY <2>1, <2>3, <2>4 DEF Fewer
<1>10. QED
  BY <1>1, <1>4, <1>5, <1>6, <1>7, <1>8, <1>9 DEF QueueStep

\* A task is only queued under its programmer's limit, or comes from the dump.
LEMMA HeldJoined ==
  ASSUME MaxLookups = 0, CountCore, HeldInv, NEW x \in Ids, Joined(x)
  PROVE  HeldInv'
<1> SUFFICES ASSUME Limit >= 0, NEW p \in Players
             PROVE  Cardinality(Held(p)') <= Limit
  BY DEF HeldInv
<1>1. /\ OwnedOn /\ task \in [Ids -> TaskRec] /\ waiting_tasks \in Seq(Ids)
      /\ num_bg_tasks \in [Tqs -> Int] /\ disk \in Seq(Ids) /\ NoDup(disk)
  BY OwnedSets DEF CountCore, CoreInv, TypeOK, PlaceInv, Lists
<1>2. PICK q \in Tqs, rec \in TaskRec :
        /\ EnqueueWaiting(q, x, rec)
        /\ rec.progr \in Players /\ UNCHANGED bg /\ ~InQueue(x)
        /\ \/ UnderLimit(rec.progr) /\ Running /\ UNCHANGED disk
           \/ /\ disk # << >> /\ x = Head(disk) /\ disk' = Tail(disk)
              /\ rec = task[x]
  BY DEF Joined
<1>3. task'[x] = rec /\ \A id \in Ids : id # x => task'[id] = task[id]
  BY <1>1, <1>2 DEF EnqueueWaiting
<1>4. \A y : On(waiting_tasks', y) <=> On(waiting_tasks, y) \/ y = x
  BY <1>1, <1>2, InsertAtOn DEF EnqueueWaiting, WaitingInsert
<1>5. \A id \in Ids : InQueue(id)' <=> InQueue(id) \/ id = x
  BY <1>2, <1>4 DEF InQueue
<1>6. Cardinality(Held(p)) <= Limit
  BY DEF HeldInv
<1>7. CASE disk # << >> /\ x = Head(disk) /\ disk' = Tail(disk) /\ rec = task[x]
  <2>1. \A id : On(disk, id) <=> On(disk', id) \/ id = x
    BY <1>1, <1>7, TailOn
  <2>2. Held(p)' = Held(p)
    BY <1>3, <1>5, <1>7, <2>1 DEF Held
  <2>3. QED  BY <1>6, <2>2
<1>8. CASE UnderLimit(rec.progr) /\ Running /\ UNCHANGED disk
  <2>1. disk = << >>
    BY <1>8 DEF CountCore, PhaseInv
  <2>2. \A id : ~On(disk, id) /\ ~On(disk', id)
    BY <1>8, <2>1 DEF On
  <2>3. CASE p # rec.progr
    <3>1. Held(p)' = Held(p)
      BY <1>2, <1>3, <1>5, <2>2, <2>3 DEF Held
    <3>2. QED  BY <1>6, <3>1
  <2>4. CASE p = rec.progr
    <3>1. Held(p)' = Held(p) \cup {x} /\ x \notin Held(p)
      BY <1>2, <1>3, <1>5, <2>2, <2>4 DEF Held
    <3>2. Held(p) = Owned(p)
      BY <1>1, <2>2 DEF Held, OwnedOn
    <3>3. Exact(p)
      BY DEF CountCore, CountInv, Counted
    <3>4. Cardinality(Owned(p)) < Limit
      <4>1. CASE \E r \in Tqs : Find(r, p) /\ num_bg_tasks[r] < Limit
        <5>1. PICK r \in Tqs : player[r] = p /\ num_bg_tasks[r] < Limit
          BY <4>1 DEF Find
        <5>2. num_bg_tasks[r] = Cardinality(Owned(p))
          BY <3>3, <5>1 DEF Exact, CountCore, OneQueuePerPlayer
        <5>3. QED  BY <5>1, <5>2
      <4>2. CASE (\A r \in Tqs : player[r] # p) /\ 0 < Limit
        <5>1. Owned(p) = {}
          BY <3>3, <4>2 DEF Exact
        <5>2. QED  BY <4>2, <5>1, FS_EmptySet
      <4>3. QED
        BY <1>8, <2>4, <4>1, <4>2, BoundsAssumption DEF UnderLimit
    <3>5. Cardinality(Held(p)') = Cardinality(Held(p)) + 1
      BY <3>1, HeldFinite, FS_AddElement DEF HeldFine
    <3>6. QED
      BY <3>2, <3>4, <3>5, HeldFinite, BoundsAssumption DEF HeldFine
  <2>5. QED  BY <2>3, <2>4
<1>9. QED  BY <1>2, <1>7, <1>8

\* So everybody stays under the limit.
LEMMA HeldNext ==
  ASSUME MaxLookups = 0, CountCore, HeldInv, [Next]_vars
  PROVE  HeldInv'
<1>1. external_queue = {}
  <2>1. external_queue \subseteq Ids
    BY DEF CountCore, CoreInv, TypeOK
  <2>2. QED
    BY <2>1 DEF CountCore, CountInv, ParkedInv, Counted, PlaceInv, Real, Placed
<1>2. QED  BY <1>1, FewerSteps, HeldFewer, HeldJoined DEF CountCore

\* Nobody ever has more queued tasks than queued_task_limit: the count that
\* fork and suspend compare with the limit is exact, and a restart or a login
\* brings back no more tasks than there were.
THEOREM QuotaIsKept ==
  ASSUME MaxLookups = 0
  PROVE  Spec => []QuotaKept
<1>1. CountCore /\ HeldInv => QuotaKept
  <2> SUFFICES ASSUME CountCore, HeldInv, Limit >= 0, NEW p \in Players
               PROVE  Cardinality(Owned(p)) <= Limit
    BY DEF QuotaKept
  <2>1. Owned(p) \subseteq Held(p)
    BY OwnedSets DEF CountCore, CoreInv, OwnedOn, Held
  <2>2. Cardinality(Owned(p)) <= Cardinality(Held(p))
    BY <2>1, HeldFinite DEF HeldFine
  <2>3. Cardinality(Owned(p)) \in Nat
    BY OwnedSets DEF CountCore, CoreInv, OwnedOn
  <2>4. QED
    BY <2>2, <2>3, HeldFinite, BoundsAssumption DEF HeldInv, HeldFine
<1>2. Init => CountCore /\ HeldInv
  <2> SUFFICES ASSUME Init PROVE CountCore /\ HeldInv
    OBVIOUS
  <2>1. \A id : ~On(<< >>, id)
    BY DEF On
  <2>2. \A p : Held(p) = {}
    BY <2>1 DEF Init, Held, InQueue
  <2>3. QED
    BY <2>2, CountInit, FS_EmptySet, BoundsAssumption DEF HeldInv
<1>3. CountCore /\ HeldInv /\ [Next]_vars => (CountCore /\ HeldInv)'
  BY CountNext, HeldNext
<1>4. QED
  BY <1>1, <1>2, <1>3, PTL DEF Spec

-----------------------------------------------------------------------------
(* No task is lost *)

\* A queued task, or one of the dump, is a forked or a suspended one, which
\* write_task_queue() writes.
Dumpable ==
  \A id \in Ids : InQueue(id) \/ On(disk, id) => task[id].kind # "NONE"

LostInv == CountCore /\ Dumpable

\* A task is queued as a forked or a suspended one.
LEMMA DumpableNext ==
  ASSUME CoreInv, PlaceInv, PhaseInv, OneQueuePerPlayer, Dumpable, [Next]_vars
  PROVE  Dumpable'
<1>1. CASE Fewer
  BY <1>1 DEF Fewer, Dumpable
<1>2. /\ task \in [Ids -> TaskRec] /\ waiting_tasks \in Seq(Ids)
      /\ bg \in [Tqs -> Seq(Ids)] /\ disk \in Seq(Ids) /\ NoDup(disk)
  BY DEF CoreInv, TypeOK, PlaceInv, Lists
<1>3. CASE \E x \in Ids : Joined(x)
  <2>1. PICK x \in Ids : Joined(x)
    BY <1>3
  <2>2. PICK q \in Tqs, rec \in TaskRec :
          /\ EnqueueWaiting(q, x, rec) /\ UNCHANGED bg
          /\ \/ rec.kind \in {"FORKED", "SUSPENDED"} /\ UNCHANGED disk
             \/ disk # << >> /\ x = Head(disk) /\ disk' = Tail(disk)
                /\ rec = task[x]
    BY <2>1 DEF Joined
  <2>3. task'[x] = rec /\ \A id \in Ids : id # x => task'[id] = task[id]
    BY <1>2, <2>2 DEF EnqueueWaiting
  <2>4. \A y : On(waiting_tasks', y) <=> On(waiting_tasks, y) \/ y = x
    BY <1>2, <2>2, InsertAtOn DEF EnqueueWaiting, WaitingInsert
  <2>5. \A id \in Ids : InQueue(id)' => InQueue(id) \/ id = x
    BY <2>2, <2>4 DEF InQueue
  <2>6. \/ rec.kind \in {"FORKED", "SUSPENDED"} /\ UNCHANGED disk
        \/ /\ \A id : On(disk, id) <=> On(disk', id) \/ id = x
           /\ rec = task[x]
    BY <1>2, <2>2, TailOn
  <2>7. rec.kind # "NONE"
    BY <2>6 DEF Dumpable
  <2>8. QED  BY <2>3, <2>5, <2>6, <2>7 DEF Dumpable
<1>4. CASE \E x \in external_queue : ResumeExternal(x)
  <2>1. PICK x \in external_queue : ResumeExternal(x)
    BY <1>4
  <2>2. x \in Ids
    BY DEF CoreInv, TypeOK
  <2>3. PICK q \in Tqs : bg' = [bg EXCEPT ![q] = Append(@, x)]
    BY <2>1 DEF ResumeExternal
  <2>4. /\ task'[x].kind = "SUSPENDED"
        /\ \A id \in Ids : id # x => task'[id] = task[id]
        /\ UNCHANGED <<waiting_tasks, disk>>
    BY <1>2, <2>1, <2>2 DEF ResumeExternal
  <2>5. /\ \A y : On(bg'[q], y) <=> On(bg[q], y) \/ y = x
        /\ \A r \in Tqs : r # q => bg'[r] = bg[r]
    BY <1>2, <2>2, <2>3, AppendOn
  <2>6. QED  BY <2>4, <2>5 DEF Dumpable, InQueue
<1>5. QED  BY <1>1, <1>3, <1>4, FewerSteps

\* A task is somewhere when it has a place.
PlacesTold == \A id \in Ids : Places(id) # {} <=> Placed(id)

\* The two ways of telling where a task is agree.
LEMMA PlacesPlaced == PlacesTold
<1> SUFFICES ASSUME NEW id \in Ids PROVE Places(id) # {} <=> Placed(id)
  BY DEF PlacesTold
<1>1. ASSUME NEW p \in Places(id) PROVE Placed(id)
  <2>1. \/ \E i \in 1 .. Len(waiting_tasks) : waiting_tasks[i] = id
        \/ \E q \in Tqs : \E i \in 1 .. Len(bg[q]) : bg[q][i] = id
        \/ \E q \in Tqs : reading[q] = id
        \/ \E i \in 1 .. Len(disk) : disk[i] = id
        \/ id \in external_queue
        \/ id = current_task_id
    BY <1>1 DEF Places
  <2>2. QED  BY <2>1 DEF Placed, On
<1>2. ASSUME Placed(id) PROVE \E p : p \in Places(id)
  <2>1. CASE On(waiting_tasks, id)
    <3>1. PICK i \in 1 .. Len(waiting_tasks) : waiting_tasks[i] = id
      BY <2>1 DEF On
    <3>2. <<"waiting", i>> \in Places(id)
      BY <3>1 DEF Places
    <3>3. QED  BY <3>2
  <2>2. CASE On(disk, id)
    <3>1. PICK i \in 1 .. Len(disk) : disk[i] = id
      BY <2>2 DEF On
    <3>2. <<"disk", i>> \in Places(id)
      BY <3>1 DEF Places
    <3>3. QED  BY <3>2
  <2>3. CASE id \in external_queue
    <3>1. <<"external">> \in Places(id)
      BY <2>3 DEF Places
    <3>2. QED  BY <3>1
  <2>4. CASE id = current_task_id
    <3>1. <<"running">> \in Places(id)
      BY <2>4 DEF Places
    <3>2. QED  BY <3>1
  <2>5. CASE \E q \in Tqs : On(bg[q], id)
    <3>1. PICK q \in Tqs : On(bg[q], id)
      BY <2>5
    <3>2. PICK i \in 1 .. Len(bg[q]) : bg[q][i] = id
      BY <3>1 DEF On
    <3>3. <<"bg", q, i>> \in Places(id)
      BY <3>2 DEF Places
    <3>4. QED  BY <3>3
  <2>6. CASE \E q \in Tqs : reading[q] = id
    <3>1. PICK q \in Tqs : reading[q] = id
      BY <2>6
    <3>2. <<"reading", q>> \in Places(id)
      BY <3>1 DEF Places
    <3>3. QED  BY <3>2
  <2>7. QED  BY <1>2, <2>1, <2>2, <2>3, <2>4, <2>5, <2>6 DEF Placed
<1>3. QED  BY <1>1, <1>2

\* The same of the state a step leads to.
LEMMA PlacesPlacedNext == PlacesTold'
BY PlacesPlaced, PTL

\* id is killed by a task that may.
KilledRightly(id) ==
  Running /\ (Me \in Wizards \/ Me = task[id].progr
              \/ \E q \in Tqs : reading[q] = id /\ player[q] = Me)

\* The tasks that are not run, but for x, stay queued or where they are.
KeptBut(x) ==
  \A id \in Ids : id # x /\ id # current_task_id =>
    /\ On(waiting_tasks, id) => On(waiting_tasks', id)
    /\ On(disk, id) => On(disk', id)
    /\ id \in external_queue => id \in external_queue'
    /\ \A q \in Tqs : On(bg[q], id) => \E r \in Tqs : On(bg'[r], id)
    /\ \A q \in Tqs : reading[q] = id => reading'[q] = id

\* Every task that is not run still has a place.
NoneLost == \A id \in Ids : Placed(id) /\ id # current_task_id => Placed(id)'

\* It is enough to know what became of one task.
LEMMA KeptButOne ==
  ASSUME NEW x, KeptBut(x), x \in Ids => Placed(x)'
  PROVE  NoneLost
BY DEF NoneLost, KeptBut, Placed

\* A step that touches no list.
LEMMA KeptLists ==
  ASSUME UNCHANGED <<waiting_tasks, disk, external_queue, bg, reading>>
  PROVE  NoneLost
BY DEF NoneLost, Placed

\* A task is added to the background tasks of q from another list.
LEMMA KeptMoved ==
  ASSUME CoreInv, NEW x \in Ids, NEW q \in Tqs,
         bg' = [bg EXCEPT ![q] = Append(@, x)],
         UNCHANGED <<disk, reading>>,
         \A id \in Ids : id # x =>
           /\ On(waiting_tasks, id) => On(waiting_tasks', id)
           /\ id \in external_queue => id \in external_queue'
  PROVE  NoneLost
<1>1. bg \in [Tqs -> Seq(Ids)]
  BY DEF CoreInv, TypeOK
<1>2. /\ \A y : On(bg'[q], y) <=> On(bg[q], y) \/ y = x
      /\ \A r \in Tqs : r # q => bg'[r] = bg[r]
  BY <1>1, AppendOn
<1>3. KeptBut(x)
  BY <1>2 DEF KeptBut
<1>4. Placed(x)'
  BY <1>2 DEF Placed
<1>5. QED  BY <1>3, <1>4, KeptButOne

\* A task joins the waiting tasks.
LEMMA KeptWaiting ==
  ASSUME CoreInv, PlaceInv, NEW q, NEW x \in Ids, NEW rec,
         EnqueueWaiting(q, x, rec), UNCHANGED <<bg, reading, external_queue>>,
         UNCHANGED disk \/ (disk # << >> /\ x = Head(disk) /\ disk' = Tail(disk))
  PROVE  NoneLost
<1>1. waiting_tasks \in Seq(Ids) /\ disk \in Seq(Ids) /\ NoDup(disk)
  BY DEF CoreInv, TypeOK, PlaceInv, Lists
<1>2. \A y : On(waiting_tasks', y) <=> On(waiting_tasks, y) \/ y = x
  BY <1>1, InsertAtOn DEF EnqueueWaiting, WaitingInsert
<1>3. \A y : On(disk, y) => On(disk', y) \/ y = x
  BY <1>1, TailOn
<1>4. KeptBut(x) /\ Placed(x)'
  BY <1>2, <1>3 DEF KeptBut, Placed
<1>5. QED  BY <1>4, KeptButOne

\* run_ready_tasks() loses no task: the queues it frees have none.
LEMMA LostScheduler ==
  ASSUME LostInv, SchedulerStep
  PROVE  NoneLost
<1>1. /\ bg \in [Tqs -> Seq(Ids)] /\ reading \in [Tqs -> Ids \cup {NoTask}]
      /\ waiting_tasks \in Seq(Ids) /\ NoDup(waiting_tasks)
      /\ \A q \in Tqs : NoDup(bg[q])
      /\ CoreInv /\ PlaceInv /\ ActiveListExact /\ TypeOK
      /\ \A id \in Ids : id # NoTask
  BY NoTaskFacts DEF LostInv, CountCore, CountInv, CoreInv, TypeOK, PlaceInv,
     Lists
<1>2. CASE MoveDue
  <2>1. PICK x : x = Head(waiting_tasks)
    OBVIOUS
  <2>2. PICK q \in Tqs : bg' = [bg EXCEPT ![q] = Append(@, x)]
    BY <1>2, <2>1 DEF MoveDue
  <2>3. /\ waiting_tasks # << >> /\ waiting_tasks' = Tail(waiting_tasks)
        /\ UNCHANGED <<disk, reading, external_queue>>
    BY <1>2 DEF MoveDue, Due
  <2>4. x \in Ids /\ \A y : On(waiting_tasks, y) => On(waiting_tasks', y) \/ y = x
    BY <1>1, <2>1, <2>3, TailOn
  <2>5. QED  BY <1>1, <2>2, <2>3, <2>4, KeptMoved
<1>3. ASSUME NEW q \in Tqs, reading[q] # NoTask, current_task_id' = reading[q],
             reading' = [reading EXCEPT ![q] = NoTask],
             UNCHANGED <<waiting_tasks, disk, external_queue, bg>>
      PROVE  NoneLost
  <2>1. \A r \in Tqs : r # q => reading'[r] = reading[r]
    BY <1>1, <1>3
  <2>2. PICK x : x = reading[q]
    OBVIOUS
  <2>3. KeptBut(x) /\ Placed(x)'
    BY <1>3, <2>1, <2>2 DEF KeptBut, Placed
  <2>4. QED  BY <2>3, KeptButOne
<1>4. CASE PickOutOfInput
  <2>1. Head(active_tqueues) \in Tqs
    BY <1>1, <1>4, HeadIsQueue DEF PickOutOfInput
  <2>2. QED  BY <1>3, <1>4, <2>1 DEF PickOutOfInput
<1>5. CASE \E q \in Tqs : PickInput(q)
  BY <1>3, <1>5, KeptLists DEF PickInput
<1>6. CASE \E q \in Tqs : PickBg(q)
  <2>1. PICK q \in Tqs : PickBg(q)
    BY <1>6
  <2>2. PICK x : x = Head(bg[q])
    OBVIOUS
  <2>3. /\ bg' = [bg EXCEPT ![q] = Tail(@)] /\ bg[q] # << >>
        /\ current_task_id' = x
        /\ UNCHANGED <<waiting_tasks, disk, external_queue, reading>>
    BY <2>1, <2>2 DEF PickBg
  <2>4. /\ \A y : On(bg[q], y) => On(bg'[q], y) \/ y = x
        /\ \A r \in Tqs : r # q => bg'[r] = bg[r]
    BY <1>1, <2>2, <2>3, TailOn
  <2>5. KeptBut(x) /\ Placed(x)'
    BY <2>3, <2>4 DEF KeptBut, Placed
  <2>6. QED  BY <2>5, KeptButOne
<1>7. CASE \E q \in Tqs : FreeTqueue(q)
  <2>1. PICK q \in Tqs : FreeTqueue(q)
    BY <1>7
  <2>2. ~OnActive(q) /\ OutOfInput(q)
    BY <2>1 DEF FreeTqueue, Unneeded, OutOfInput
  <2>3. bg[q] = << >> /\ reading[q] = NoTask
    BY <2>1, <2>2, FreedEmpty, ReadyImplies
       DEF LostInv, CountCore, ReadyIsActive
  <2>4. /\ bg' = [bg EXCEPT ![q] = << >>]
        /\ reading' = [reading EXCEPT ![q] = NoTask]
        /\ UNCHANGED <<waiting_tasks, disk, external_queue>>
    BY <2>1 DEF FreeTqueue
  <2>5. bg' = bg /\ reading' = reading
    BY <1>1, <2>3, <2>4
  <2>6. QED  BY <2>4, <2>5, KeptLists
<1>8. CASE UNCHANGED <<waiting_tasks, disk, external_queue, bg, reading>>
  BY <1>8, KeptLists
<1>9. QED
  BY <1>2, <1>4, <1>5, <1>6, <1>7, <1>8, SMTT(30) DEF SchedulerStep,
     RunReadyTasks, MoveDone, PickNone, PickNothing, EmptyCommand, Command,
     TaskDone, SweepDone, queues

\* A task that calls a built-in loses no task but those it may kill.
LEMMA LostTask ==
  ASSUME LostInv, TaskStep, NEW id \in Ids, Placed(id), id # current_task_id,
         ~Placed(id)'
  PROVE  KilledRightly(id)
<1>1. /\ bg \in [Tqs -> Seq(Ids)] /\ reading \in [Tqs -> Ids \cup {NoTask}]
      /\ waiting_tasks \in Seq(Ids) /\ NoDup(waiting_tasks)
      /\ \A q \in Tqs : NoDup(bg[q])
      /\ CoreInv /\ PlaceInv /\ TypeOK /\ OneQueuePerPlayer /\ BgOwned
      /\ \A x \in Ids : x # NoTask
  BY NoTaskFacts DEF LostInv, CountCore, CountInv, CoreInv, TypeOK, PlaceInv,
     Lists
<1>2. ~NoneLost
  BY DEF NoneLost
<1>3. ASSUME NEW x, KeptBut(x) PROVE id = x
  BY <1>3 DEF KeptBut, Placed
<1>4. CASE \E d \in 0 .. MaxDelay : Fork(d)
  <2>0. PICK q \in Tqs, x \in Ids : \E rec : EnqueueWaiting(q, x, rec)
    BY <1>4 DEF Fork
  <2>1. PICK rec : EnqueueWaiting(q, x, rec)
    BY <2>0
  <2>2. UNCHANGED <<bg, reading, external_queue, disk>>
    BY <1>4 DEF Fork
  <2>3. QED  BY <1>1, <1>2, <2>1, <2>2, KeptWaiting
<1>5. CASE \E d \in 0 .. MaxDelay : Suspend(d)
  <2>1. PICK x : x = current_task_id
    OBVIOUS
  <2>0. PICK q \in Tqs : \E rec : EnqueueWaiting(q, x, rec)
    BY <1>5, <2>1 DEF Suspend
  <2>2. PICK rec : EnqueueWaiting(q, x, rec)
    BY <2>0
  <2>3. UNCHANGED <<bg, reading, external_queue, disk>> /\ x \in Ids
    BY <1>1, <1>5, <2>1, MeType DEF Suspend
  <2>4. QED  BY <1>1, <1>2, <2>2, <2>3, KeptWaiting
<1>6. CASE \E p \in Users \cup opened : MakeReadingTask(p)
  <2>1. PICK q \in Tqs : /\ reading[q] = NoTask
                         /\ reading' = [reading EXCEPT ![q] = current_task_id]
    BY <1>6 DEF MakeReadingTask
  <2>2. UNCHANGED <<waiting_tasks, disk, external_queue, bg>>
    BY <1>6 DEF MakeReadingTask
  <2>3. KeptBut(NoTask)
    BY <1>1, <2>1, <2>2 DEF KeptBut
  <2>4. QED  BY <1>1, <1>3, <2>3
<1>7. CASE SuspendExternally
  <2>1. KeptBut(NoTask)
    BY <1>7 DEF SuspendExternally, queues, KeptBut
  <2>2. QED  BY <1>1, <1>3, <2>1
<1>8. CASE \E i \in 1 .. Len(waiting_tasks) : KillWaiting(i)
  <2>1. PICK i \in 1 .. Len(waiting_tasks) : KillWaiting(i)
    BY <1>8
  <2>2. PICK x : x = waiting_tasks[i]
    OBVIOUS
  <2>3. /\ waiting_tasks' = RemoveAt(waiting_tasks, i)
        /\ UNCHANGED <<bg, reading, external_queue, disk>>
        /\ Running /\ MayControl(task[x].progr)
    BY <2>1, <2>2 DEF KillWaiting
  <2>4. \A y : On(waiting_tasks', y) <=> On(waiting_tasks, y) /\ y # x
    BY <1>1, <2>2, <2>3, WaitingRemoved
  <2>5. KeptBut(x)
    BY <2>3, <2>4 DEF KeptBut
  <2>6. id = x
    BY <1>3, <2>5
  <2>7. QED  BY <2>3, <2>6 DEF KilledRightly, MayControl
<1>9. CASE \E i \in 1 .. Len(waiting_tasks) : DoResume(i)
  <2>1. PICK i \in 1 .. Len(waiting_tasks) : DoResume(i)
    BY <1>9
  <2>2. PICK x : x = waiting_tasks[i]
    OBVIOUS
  <2>3. PICK q \in Tqs : bg' = [bg EXCEPT ![q] = Append(@, x)]
    BY <2>1, <2>2 DEF DoResume
  <2>4. /\ waiting_tasks' = RemoveAt(waiting_tasks, i)
        /\ UNCHANGED <<reading, external_queue, disk>>
    BY <2>1 DEF DoResume
  <2>5. /\ \A y : On(waiting_tasks', y) <=> On(waiting_tasks, y) /\ y # x
        /\ x \in Ids
    BY <1>1, <2>2, <2>4, WaitingRemoved
  <2>6. QED  BY <1>1, <1>2, <2>3, <2>4, <2>5, KeptMoved
<1>10. CASE \E q \in Tqs : KillReading(q)
  <2>1. PICK q \in Tqs : KillReading(q)
    BY <1>10
  <2>2. PICK x : x = reading[q]
    OBVIOUS
  <2>3. /\ reading' = [reading EXCEPT ![q] = NoTask]
        /\ UNCHANGED <<waiting_tasks, bg, external_queue, disk>>
        /\ Running /\ MayControl(player[q])
    BY <2>1 DEF KillReading
  <2>4. KeptBut(x)
    BY <1>1, <2>2, <2>3 DEF KeptBut
  <2>5. id = x
    BY <1>3, <2>4
  <2>6. QED  BY <2>2, <2>3, <2>5 DEF KilledRightly, MayControl
<1>11. CASE \E q \in Tqs : \E i \in 1 .. Len(bg[q]) : KillBg(q, i)
  <2>1. PICK q \in Tqs : \E i \in 1 .. Len(bg[q]) : KillBg(q, i)
    BY <1>11
  <2>2. PICK i \in 1 .. Len(bg[q]) : KillBg(q, i)
    BY <2>1
  <2>3. PICK x : x = bg[q][i]
    OBVIOUS
  <2>4. /\ bg' = [bg EXCEPT ![q] = RemoveAt(@, i)]
        /\ UNCHANGED <<waiting_tasks, reading, external_queue, disk>>
        /\ Running /\ MayControl(player[q])
    BY <2>2 DEF KillBg
  <2>5. /\ \A y : On(bg'[q], y) <=> On(bg[q], y) /\ y # x
        /\ \A r \in Tqs : r # q => bg'[r] = bg[r]
    BY <1>1, <2>3, <2>4, RemoveAtOn
  <2>6. KeptBut(x)
    BY <2>4, <2>5 DEF KeptBut
  <2>7. id = x
    BY <1>3, <2>6
  <2>8. task[id].progr = player[q]
    BY <1>1, <2>3, <2>7 DEF BgOwned, On
  <2>9. QED  BY <2>4, <2>8 DEF KilledRightly, MayControl
<1>12. CASE \E x \in Ids : KillExternal(x)
  <2>1. PICK x \in Ids : KillExternal(x)
    BY <1>12
  <2>2. KeptBut(x)
    BY <2>1 DEF KillExternal, queues, KeptBut
  <2>3. id = x
    BY <1>3, <2>2
  <2>4. QED  BY <2>1, <2>3 DEF KillExternal, KilledRightly, MayControl
<1>13. CASE \E u \in Users, old \in Tqs : LoginTask(u, old)
  <2>1. PICK u \in Users, old \in Tqs : LoginTask(u, old)
    BY <1>13
  <2>2. UNCHANGED <<waiting_tasks, reading, external_queue, disk>>
    BY <2>1 DEF LoginTask
  <2>3. CoreInv'
    BY CoreNext DEF Next, LostInv, CountCore
  <2>4. \A y \in Ids : InQueue(y) => InQueue(y)'
    BY <2>1, <2>3, CountLogin DEF LostInv, CountCore
  <2>5. NoneLost
    BY <2>2, <2>4 DEF NoneLost, Placed, InQueue
  <2>6. QED  BY <1>2, <2>5
<1>14. CASE UNCHANGED <<waiting_tasks, disk, external_queue, bg, reading>>
  BY <1>2, <1>14, KeptLists
<1>15. QED
  BY <1>4, <1>5, <1>6, <1>7, <1>8, <1>9, <1>10, <1>11, <1>12, <1>13, <1>14
     DEF TaskStep, ReadInputNow, ForceInput, FlushInput, Finish, queues, TaskStep

\* A restart drops no queued task but those of a queue that do_login_task()
\* left idle, and nothing else loses any.
LEMMA LostNext ==
  ASSUME LostInv, [Next]_vars, NEW id \in Ids, Placed(id),
         id # current_task_id, ~Placed(id)'
  PROVE  \/ KilledRightly(id)
         \/ phase' = "load" /\ (id \in Queued => Stranded(id))
<1>1. ~NoneLost
  BY DEF NoneLost
<1>2. CASE NetworkStep
  <2>1. CASE UNCHANGED <<waiting_tasks, disk, external_queue, bg, reading>>
    BY <1>1, <2>1, KeptLists
  <2>2. CASE \E x \in Ids : ResumeExternal(x)
    <3>1. PICK x \in Ids : ResumeExternal(x)
      BY <2>2
    <3>2. PICK q \in Tqs : bg' = [bg EXCEPT ![q] = Append(@, x)]
      BY <3>1 DEF ResumeExternal
    <3>3. /\ external_queue' = external_queue \ {x}
          /\ UNCHANGED <<waiting_tasks, disk, reading>>
      BY <3>1 DEF ResumeExternal
    <3>4. QED  BY <1>1, <3>2, <3>3, KeptMoved DEF LostInv, CountCore
  <2>3. QED
    BY <1>2, <2>1, <2>2 DEF NetworkStep, NewConnection, InputLine,
       FlushCommand, FreeTaskQueue
<1>3. CASE Restart
  <2>1. phase' = "load" /\ phase = "io" /\ ~Running
    BY <1>3 DEF Restart, Io, Running
  <2>2. disk' = WriteTaskQueue
    BY <1>3 DEF Restart
  <2>3. ASSUME InQueue(id), ~Stranded(id) PROVE FALSE
    <3>1. task[id].kind \in {"FORKED", "SUSPENDED"}
      BY <2>3 DEF LostInv, CountCore, Dumpable, CoreInv, TypeOK, TaskRec, Kinds
    <3>2. ASSUME NEW q \in Tqs, On(bg[q], id), ~OnActive(q) PROVE FALSE
      <4>1. bg[q] # << >>
        <5>1. ~On(<< >>, id)
          BY DEF On
        <5>2. QED  BY <3>2, <5>1
      <4>2. Detached(q)
        BY <3>2, <4>1, ReadyImplies DEF LostInv, CountCore, ReadyIsActive
      <4>3. id \in IdsOf(bg[q])
        BY <3>2 DEF IdsOf, On
      <4>4. QED  BY <2>3, <3>2, <4>2, <4>3 DEF Stranded
    <3>3. On(WriteTaskQueue, id)
      BY <2>3, <3>1, <3>2, Written DEF LostInv, CountCore, InQueue
    <3>4. QED  BY <2>2, <3>3 DEF Placed
  <2>4. QED  BY <2>1, <2>3, QueuedOn DEF LostInv, CountCore, CoreInv
<1>4. CASE LoadTask
  <2>0. PICK q \in Tqs, x \in Ids :
          \E rec : EnqueueWaiting(q, x, rec) /\ x = Head(disk)
    BY <1>4 DEF LoadTask
  <2>1. PICK rec : EnqueueWaiting(q, x, rec) /\ x = Head(disk)
    BY <2>0
  <2>2. QED
    BY <1>1, <1>4, <2>1, KeptWaiting DEF LoadTask, LostInv, CountCore
<1>5. CASE SchedulerStep
  BY <1>1, <1>5, LostScheduler
<1>6. CASE TaskStep
  BY <1>6, LostTask
<1>7. CASE UNCHANGED <<waiting_tasks, disk, external_queue, bg, reading>>
  BY <1>1, <1>7, KeptLists
<1>8. QED
  BY <1>2, <1>3, <1>4, <1>5, <1>6, <1>7 DEF Next, StartServerTask, Tick,
     LoadDone, queues, vars

\* A task disappears only by running to its end or by a kill its killer was
\* allowed; a restart drops only readers, parked tasks, and the tasks that
\* do_login_task() left on an idle queue.
THEOREM TasksAreKept == Spec => NoTaskVanishes
<1>1. Init => LostInv
  <2> SUFFICES ASSUME Init PROVE LostInv
    OBVIOUS
  <2>1. \A id : ~InQueue(id) /\ ~On(disk, id)
    <3>1. \A id : ~On(<< >>, id)
      BY DEF On
    <3>2. QED  BY <3>1 DEF Init, InQueue
  <2>2. QED  BY <2>1, CountInit DEF LostInv, Dumpable
<1>2. LostInv /\ [Next]_vars => LostInv'
  BY CountNext, DumpableNext DEF LostInv, CountCore
<1>3. LostInv /\ [Next]_vars =>
        [\A id \in Ids :
           Places(id) # {} /\ Places(id)' = {} =>
             \/ id = current_task_id
             \/ Running /\ (Me \in Wizards \/ Me = task[id].progr
                           \/ \E q \in Tqs : reading[q] = id /\ player[q] = Me)
             \/ phase' = "load" /\ (id \in Queued => Stranded(id))]_vars
  BY LostNext, PlacesPlaced, PlacesPlacedNext DEF PlacesTold, KilledRightly
<1>4. QED
  BY <1>1, <1>2, <1>3, PTL DEF Spec, NoTaskVanishes
=============================================================================
