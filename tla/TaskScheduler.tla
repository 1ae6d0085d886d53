--------------------------- MODULE TaskScheduler ---------------------------
(***************************************************************************)
(* The background half of server/tasks.c: the task queues (struct tqueue), *)
(* the list of active queues ordered by usage, the list of waiting tasks   *)
(* ordered by start time, and run_ready_tasks(), which moves due tasks to  *)
(* their programmer's queue and runs one task per call.                    *)
(*                                                                         *)
(* The server is one thread.  `phase' is the place in main_loop() and in   *)
(* run_ready_tasks() it has reached; current_task_id is the MOO task being *)
(* interpreted, whose calls of built-in functions are the actions of the   *)
(* "builtins" section.  Network events and checkpoints happen only in      *)
(* phase "io".                                                             *)
(*                                                                         *)
(* Input lines are only counted here: how a line is chosen among in-band   *)
(* and out-of-band ones under hold-input and disable-oob is the subject of *)
(* module InputQueue.                                                      *)
(***************************************************************************)
EXTENDS Integers, Sequences, FiniteSets, SequencesExt

CONSTANTS Tqs,         \* addresses a tqueue can be allocated at
          Users,       \* player objects, is_user() (nonnegative Objids)
          Conns,       \* negative Objids of connections not yet logged in
          Wizards,     \* the Users for which is_wizard() holds
          Progrs,      \* the programmers tasks run as
          NOTHING,     \* #-1
          FREE,        \* marks an address where no tqueue is allocated
          MaxLookups,  \* bound: drift external tasks cause in num_bg_tasks;
                       \* 0 means there is no external queue
          Limit,       \* queued_task_limit; -1 means no limit
          MaxTasks,    \* bound: tasks alive at a time
          MaxTime,     \* bound: the clock
          MaxDelay,    \* bound: argument of fork and suspend
          MaxInput,    \* bound: pending lines per queue
          MaxUsage     \* bound: seconds billed to a queue

Ids == 1 .. MaxTasks
NoTask == 0
NO_USAGE == -1
Players == Users \cup Conns

ASSUME SetsAssumption ==
  /\ Users \cap Conns = {} /\ Wizards \subseteq Users
  /\ Progrs \subseteq Players
  /\ NOTHING \notin Players /\ FREE \notin Players /\ NOTHING # FREE

ASSUME BoundsAssumption ==
  /\ MaxTasks \in Nat /\ MaxTime \in Nat \ {0} /\ MaxDelay \in Nat
  /\ MaxInput \in Nat /\ MaxUsage \in Nat
  /\ Limit \in Nat \cup {-1} /\ MaxLookups \in Nat

VARIABLES
  player,           \* tqueue.player, FREE where nothing is allocated
  connected,        \* tqueue.connected
  input,            \* length of the list at tqueue.first_input
  reading,          \* id of the task in tqueue.reading_vm, or NoTask
  bg,               \* tqueue.first_bg: ids, oldest first
  num_bg_tasks,     \* tqueue.num_bg_tasks
  usage,            \* tqueue.usage
  active_tqueues,   \* the active list; allocated queues not on it are idle
  waiting_tasks,    \* ids in the order of the list
  external_queue,   \* ids of tasks parked in an external queue
  task,             \* id -> kind, programmer and start time
  current_task_id,  \* the task being interpreted, or NoTask
  phase,            \* where the server's thread is
  running_tq,       \* the local variable tq of run_ready_tasks()
  disk,             \* task list of the dump being loaded at startup
  opened,           \* connection numbers already given out
  clock

queues == <<player, connected, input, reading, bg, num_bg_tasks, usage,
            active_tqueues>>
sched == <<current_task_id, phase, running_tq>>
vars == <<player, connected, input, reading, bg, num_bg_tasks, usage,
          active_tqueues, waiting_tasks, external_queue, task,
          current_task_id, phase, running_tq, disk, opened, clock>>

Kinds == {"NONE", "FORKED", "SUSPENDED"}
NoTaskRec == [kind |-> "NONE", progr |-> NOTHING, start |-> 0]
TaskRec == [kind : Kinds, progr : Players \cup {NOTHING},
            start : 0 .. MaxTime + MaxDelay]
Phases == {"load", "io", "move", "pick", "again", "prompt", "line", "bg",
           "sweep"}

-----------------------------------------------------------------------------
(* Queues *)

Allocated == {q \in Tqs : player[q] # FREE}
OnActive(q) == \E i \in 1 .. Len(active_tqueues) : active_tqueues[i] = q

\* find_tqueue(p, 0) returns q.
Find(q, p) == q \in Tqs /\ player[q] = p

\* Mutant of FindOrCreate: only the active list is searched.
FindOrCreateActiveOnly(q, p) ==
  \/ Find(q, p) /\ OnActive(q)
  \/ /\ \A r \in Tqs : player[r] = p => ~OnActive(r)
     /\ q = CHOOSE r \in Tqs : player[r] = FREE
     /\ player[q] = FREE

\* find_tqueue(p, 1) returns q: an existing queue, or a new idle one.  The
\* fields of a FREE address already have the values a new tqueue is given.
FindOrCreate(q, p) ==
  \/ Find(q, p)
  \/ /\ \A r \in Tqs : player[r] # p
     /\ q \in Tqs /\ player[q] = FREE
     /\ q = CHOOSE r \in Tqs : player[r] = FREE

\* Mutants of Activated: before the queues of the same usage, or first.
ActivatedBeforeEquals(old, new, q, u, us) ==
  \E i \in 1 .. Len(old) + 1 :
     /\ \A j \in 1 .. i - 1 : us[old[j]] < u
     /\ i <= Len(old) => u <= us[old[i]]
     /\ new = InsertAt(old, i, q)

ActivatedFirst(old, new, q, u, us) == new = <<q>> \o old

\* activate_tqueue(): new is old with q of usage u put before the first
\* queue of a greater usage.
Activated(old, new, q, u, us) ==
  \E i \in 1 .. Len(old) + 1 :
     /\ \A j \in 1 .. i - 1 : us[old[j]] <= u
     /\ i <= Len(old) => u < us[old[i]]
     /\ new = InsertAt(old, i, q)

\* Mutant of EnsureUsage: the queue is not marked as active.
EnsureUsageUnmarked(q) ==
  /\ IF usage[q] = NO_USAGE
     THEN Activated(active_tqueues, active_tqueues', q, 0, usage)
     ELSE UNCHANGED active_tqueues
  /\ UNCHANGED usage

\* ensure_usage(tq)
EnsureUsage(q) ==
  IF usage[q] = NO_USAGE
  THEN LET u == IF active_tqueues = << >> THEN 0
                ELSE usage[Head(active_tqueues)]
       IN /\ usage' = [usage EXCEPT ![q] = u]
          /\ Activated(active_tqueues, active_tqueues', q, u, usage)
  ELSE UNCHANGED <<usage, active_tqueues>>

\* Mutant of EnsureUsageIf: the call is forgotten.
EnsureUsageIfNever(cond, q) == UNCHANGED <<usage, active_tqueues>>

EnsureUsageIf(cond, q) ==
  IF cond THEN EnsureUsage(q) ELSE UNCHANGED <<usage, active_tqueues>>

\* is_out_of_input(tq)
OutOfInput(q) == ~connected[q] /\ input[q] = 0

\* Mutant of WaitingInsert: the list is not kept in order.
WaitingInsertLast(id, start) == waiting_tasks' = Append(waiting_tasks, id)

\* The insertion of enqueue_waiting(): after the tasks that start no later.
WaitingInsert(id, start) ==
  \E i \in 1 .. Len(waiting_tasks) + 1 :
     /\ \A j \in 1 .. i - 1 : task[waiting_tasks[j]].start <= start
     /\ i <= Len(waiting_tasks) => start < task[waiting_tasks[i]].start
     /\ waiting_tasks' = InsertAt(waiting_tasks, i, id)

\* enqueue_waiting(t), for a task with the given attributes: the caller
\* says what becomes of the other variables.
EnqueueWaiting(q, id, rec) ==
  /\ FindOrCreate(q, rec.progr)
  /\ player' = [player EXCEPT ![q] = rec.progr]
  /\ num_bg_tasks' = [num_bg_tasks EXCEPT ![q] = @ + 1]
  /\ WaitingInsert(id, rec.start)
  /\ task' = [task EXCEPT ![id] = rec]

\* Mutant of NewTaskId: any number, as new_task_id() would return it.
NewTaskIdAny(id) == id # current_task_id

\* new_task_id().  An id stands for one task structure: the code draws the
\* number at random and does not look whether a live task has it, which the
\* model takes never to happen.
NewTaskId(id) ==
  /\ task[id] = NoTaskRec
  /\ id = CHOOSE i \in Ids : task[i] = NoTaskRec

\* Mutant of UnderLimit: off by one.
UnderLimitOrAt(p) ==
  \/ Limit < 0
  \/ \E q \in Tqs : Find(q, p) /\ num_bg_tasks[q] <= Limit
  \/ \A q \in Tqs : player[q] # p

\* check_user_task_limit(p)
UnderLimit(p) ==
  \/ Limit < 0
  \/ \E q \in Tqs : Find(q, p) /\ num_bg_tasks[q] < Limit
  \/ (\A q \in Tqs : player[q] # p) /\ 0 < Limit

-----------------------------------------------------------------------------
(* The network side of main_loop() *)

Io == phase = "io" /\ current_task_id = NoTask

\* server_new_connection(): a fresh negative player, a connected queue, and
\* the empty line that makes #0:do_login_command run.
NewConnection(c) ==
  /\ Io
  /\ c \in Conns \ opened
  /\ opened' = opened \cup {c}
  /\ \E q \in Tqs :
       /\ FindOrCreate(q, c)
       /\ player' = [player EXCEPT ![q] = c]
       /\ connected' = [connected EXCEPT ![q] = TRUE]
       /\ input' = [input EXCEPT ![q] = @ + 1]
       /\ EnsureUsage(q)
  /\ UNCHANGED <<reading, bg, num_bg_tasks, waiting_tasks, external_queue,
                 task, sched, disk, clock>>

\* server_receive_line() and enqueue_input_task() at the rear.
InputLine(q) ==
  /\ Io
  /\ connected[q] /\ input[q] < MaxInput
  /\ input' = [input EXCEPT ![q] = @ + 1]
  /\ EnsureUsage(q)
  /\ UNCHANGED <<player, connected, reading, bg, num_bg_tasks,
                 waiting_tasks, external_queue, task, sched, disk,
                 opened, clock>>

\* The line is the flush command: flush_input().
FlushCommand(q) ==
  /\ Io
  /\ connected[q] /\ input[q] > 0
  /\ input' = [input EXCEPT ![q] = 0]
  /\ UNCHANGED <<player, connected, reading, bg, num_bg_tasks, usage,
                 active_tqueues, waiting_tasks, external_queue, task, sched, disk, opened, clock>>

\* free_shandle() and free_task_queue(): the connection of q is closed.
FreeTaskQueue(q) ==
  /\ Io
  /\ connected[q]
  /\ connected' = [connected EXCEPT ![q] = FALSE]
  /\ EnsureUsageIf(reading[q] # NoTask, q)
  /\ UNCHANGED <<player, input, reading, bg, num_bg_tasks, waiting_tasks,
                 external_queue, task, sched, disk, opened, clock>>

\* resume_task(), called when the answer a parked task waits for arrives.
ResumeExternal(id) ==
  /\ Io
  /\ id \in external_queue
  /\ external_queue' = external_queue \ {id}
  /\ task' = [task EXCEPT ![id] = [kind |-> "SUSPENDED",
                                   progr |-> task[id].progr, start |-> 0]]
  /\ \E q \in Tqs :
       /\ FindOrCreate(q, task[id].progr)
       /\ player' = [player EXCEPT ![q] = task[id].progr]
       /\ bg' = [bg EXCEPT ![q] = Append(@, id)]
       /\ EnsureUsage(q)
  /\ UNCHANGED <<connected, input, reading, num_bg_tasks, waiting_tasks, sched, disk, opened, clock>>

\* run_server_task(): the server starts a verb on behalf of the programmer
\* p, from the main loop or while it handles a line typed by a player.
StartServerTask(p) ==
  /\ current_task_id = NoTask
  /\ phase = "io" \/ (phase = "line" /\ player[running_tq] \in Users)
  /\ \E id \in Ids :
       /\ NewTaskId(id)
       /\ current_task_id' = id
       /\ task' = [task EXCEPT ![id].progr = p]
  /\ UNCHANGED <<queues, waiting_tasks, external_queue, phase, running_tq,
                 disk, opened, clock>>

\* The time is read when run_ready_tasks() starts and by fork and suspend;
\* it passes before those steps.
Tick ==
  /\ clock < MaxTime
  /\ phase = "io" \/ current_task_id # NoTask
  /\ clock' = clock + 1
  /\ UNCHANGED <<queues, waiting_tasks, external_queue, task, sched,
                 disk, opened>>

-----------------------------------------------------------------------------
(* run_ready_tasks() *)

RunReadyTasks ==
  /\ Io
  /\ phase' = "move"
  /\ UNCHANGED <<queues, waiting_tasks, external_queue, task,
                 current_task_id, running_tq, disk, opened, clock>>

Due == /\ waiting_tasks # << >>
       /\ task[Head(waiting_tasks)].start < clock

\* One iteration of the first loop.
MoveDue ==
  /\ phase = "move" /\ Due
  /\ LET id == Head(waiting_tasks)
     IN \E q \in Tqs :
          /\ FindOrCreate(q, task[id].progr)
          /\ player' = [player EXCEPT ![q] = task[id].progr]
          /\ EnsureUsage(q)
          /\ bg' = [bg EXCEPT ![q] = Append(@, id)]
  /\ waiting_tasks' = Tail(waiting_tasks)
  /\ UNCHANGED <<connected, input, reading, num_bg_tasks, external_queue,
                 task, sched, disk, opened, clock>>

MoveDone ==
  /\ phase = "move" /\ ~Due
  /\ phase' = "pick"
  /\ UNCHANGED <<queues, waiting_tasks, external_queue, task,
                 current_task_id, running_tq, disk, opened, clock>>

\* The loop over active queues looks at the first one.
AtHead(q) ==
  /\ phase \in {"pick", "again"} /\ active_tqueues # << >>
  /\ q = Head(active_tqueues)
  /\ phase = "pick" => ~(reading[q] # NoTask /\ OutOfInput(q))

\* A task blocked in read() on a connection that is gone gets E_INVARG.
PickOutOfInput ==
  /\ phase = "pick" /\ active_tqueues # << >>
  /\ LET q == Head(active_tqueues)
     IN /\ reading[q] # NoTask /\ OutOfInput(q)
        /\ current_task_id' = reading[q]
        /\ reading' = [reading EXCEPT ![q] = NoTask]
        /\ running_tq' = q
  /\ phase' = "bg"
  /\ UNCHANGED <<player, connected, input, bg, num_bg_tasks, usage,
                 active_tqueues, waiting_tasks, external_queue, task,
                 disk, opened, clock>>

\* An input line is taken first: it goes to the reading task, if there is
\* one, or it is a command, before which #0:do_prompt runs, or a login line,
\* for which #0:do_login_command runs.
PickInput(q) ==
  /\ AtHead(q) /\ input[q] > 0
  /\ input' = [input EXCEPT ![q] = @ - 1]
  /\ running_tq' = q
  /\ \/ /\ reading[q] # NoTask
        /\ current_task_id' = reading[q]
        /\ reading' = [reading EXCEPT ![q] = NoTask]
        /\ phase' = "bg"
        /\ UNCHANGED <<task>>
     \/ /\ reading[q] = NoTask
        /\ phase' = IF player[q] \in Conns THEN "line" ELSE "prompt"
        /\ UNCHANGED reading
        /\ \/ UNCHANGED <<task, current_task_id>>
           \/ \E id \in Ids, p \in Progrs :
                /\ NewTaskId(id)
                /\ current_task_id' = id
                /\ task' = [task EXCEPT ![id].progr = p]
  /\ UNCHANGED <<player, connected, bg, num_bg_tasks, usage, active_tqueues,
                 waiting_tasks, external_queue, disk, opened, clock>>

\* dequeue_bg_task() and do_forked_task() or resume_from_previous_vm().
PickBg(q) ==
  /\ AtHead(q) /\ input[q] = 0 /\ bg[q] # << >>
  /\ bg' = [bg EXCEPT ![q] = Tail(@)]
  /\ num_bg_tasks' = [num_bg_tasks EXCEPT ![q] = @ - 1]
  /\ current_task_id' = Head(bg[q])
  /\ running_tq' = q
  /\ phase' = "bg"
  /\ UNCHANGED <<player, connected, input, reading, usage, active_tqueues,
                 waiting_tasks, external_queue, task, disk, opened,
                 clock>>

\* Nothing to do on this queue: deactivate_tqueue().
PickNothing(q) ==
  /\ AtHead(q) /\ input[q] = 0 /\ bg[q] = << >>
  /\ usage' = [usage EXCEPT ![q] = NO_USAGE]
  /\ active_tqueues' = Tail(active_tqueues)
  /\ phase' = "pick"
  /\ UNCHANGED <<player, connected, input, reading, bg, num_bg_tasks,
                 waiting_tasks, external_queue, task,
                 current_task_id, running_tq, disk, opened, clock>>

\* No active queue is left and no task was run.
PickNone ==
  /\ phase = "pick" /\ active_tqueues = << >>
  /\ phase' = "sweep"
  /\ UNCHANGED <<queues, waiting_tasks, external_queue, task,
                 current_task_id, running_tq, disk, opened, clock>>

\* do_command_task() returns 0 for an empty command: the loop over the
\* tasks of this queue goes on.
EmptyCommand ==
  /\ phase = "prompt" /\ current_task_id = NoTask
  /\ phase' = "again"
  /\ running_tq' = FREE
  /\ UNCHANGED <<queues, waiting_tasks, external_queue, task,
                 current_task_id, disk, opened, clock>>

\* The command is not empty: the verbs it calls for are run.
Command ==
  /\ phase = "prompt" /\ current_task_id = NoTask
  /\ phase' = "line"
  /\ UNCHANGED <<queues, waiting_tasks, external_queue, task,
                 current_task_id, running_tq, disk, opened, clock>>

\* A task was run: `active_tqueues = tq->next', the seconds it took are
\* billed, and the queue is put back.
TaskDone(secs) ==
  /\ phase \in {"line", "bg"} /\ current_task_id = NoTask
  /\ LET q == running_tq
         u == usage[q] + secs
     IN \E i \in 1 .. Len(active_tqueues) :
          /\ active_tqueues[i] = q
          /\ u <= MaxUsage
          /\ usage' = [usage EXCEPT ![q] = u]
          /\ Activated(SubSeq(active_tqueues, i + 1, Len(active_tqueues)),
                       active_tqueues', q, u, usage)
  /\ running_tq' = FREE
  /\ phase' = "sweep"
  /\ UNCHANGED <<player, connected, input, reading, bg, num_bg_tasks,
                 waiting_tasks, external_queue, task,
                 current_task_id, disk, opened, clock>>

\* The connection is not looked at.
UnneededConnected(q) ==
  /\ player[q] # FREE /\ ~OnActive(q) /\ input[q] = 0 /\ num_bg_tasks[q] = 0

\* The last loop frees the idle queues nobody needs.
Unneeded(q) ==
  /\ player[q] # FREE /\ ~OnActive(q)
  /\ ~connected[q] /\ input[q] = 0 /\ num_bg_tasks[q] = 0

\* free_tqueue(): a task still blocked in read() on it is freed with it.
FreeTqueue(q) ==
  /\ phase = "sweep" /\ Unneeded(q)
  /\ player' = [player EXCEPT ![q] = FREE]
  /\ reading' = [reading EXCEPT ![q] = NoTask]
  /\ bg' = [bg EXCEPT ![q] = << >>]
  /\ task' = [id \in Ids |-> IF id = reading[q] THEN NoTaskRec ELSE task[id]]
  /\ UNCHANGED <<connected, input, num_bg_tasks, usage, active_tqueues,
                 waiting_tasks, external_queue, sched, disk, opened, clock>>

SweepDone ==
  /\ phase = "sweep" /\ \A q \in Tqs : ~Unneeded(q)
  /\ phase' = "io"
  /\ UNCHANGED <<queues, waiting_tasks, external_queue, task,
                 current_task_id, running_tq, disk, opened, clock>>

-----------------------------------------------------------------------------
(* Built-in functions called by the task being interpreted *)

Running == current_task_id # NoTask
Me == task[current_task_id].progr
MayControl(owner) == Me \in Wizards \/ Me = owner

\* The fork statement: enqueue_forked_task2().
Fork(delay) ==
  /\ Running
  /\ UnderLimit(Me)
  /\ \E q \in Tqs, id \in Ids :
       /\ NewTaskId(id)
       /\ EnqueueWaiting(q, id, [kind |-> "FORKED", progr |-> Me,
                                 start |-> clock + delay])
  /\ UNCHANGED <<connected, input, reading, bg, usage, active_tqueues,
                 external_queue, sched, disk, opened, clock>>

\* suspend(): enqueue_suspended_task().
Suspend(delay) ==
  /\ Running
  /\ UnderLimit(Me)
  /\ current_task_id' = NoTask
  /\ \E q \in Tqs :
       EnqueueWaiting(q, current_task_id, [kind |-> "SUSPENDED",
                                           progr |-> Me,
                                           start |-> clock + delay])
  /\ UNCHANGED <<connected, input, reading, bg, usage, active_tqueues,
                 external_queue, phase, running_tq, disk, opened,
                 clock>>

\* The permission check of read(p); a player object owns itself here.
MayRead(p) == Me \in Wizards \/ (p \in Users /\ Me = p)

\* read(p): make_reading_task().
MakeReadingTask(p) ==
  /\ Running
  /\ MayRead(p)
  /\ \E q \in Tqs :
       /\ Find(q, p)
       /\ reading[q] = NoTask /\ ~OutOfInput(q)
       /\ reading' = [reading EXCEPT ![q] = current_task_id]
       /\ EnsureUsageIf(input[q] > 0, q)
  /\ current_task_id' = NoTask
  /\ UNCHANGED <<player, connected, input, bg, num_bg_tasks, waiting_tasks,
                 external_queue, task, phase, running_tq, disk,
                 opened, clock>>

\* Mutant of ReadInputNow: a line is taken from an empty queue.
ReadInputNowUnchecked(p) ==
  /\ Running
  /\ MayRead(p)
  /\ \E q \in Tqs :
       Find(q, p) /\ input' = [input EXCEPT ![q] = @ - 1]
  /\ UNCHANGED <<player, connected, reading, bg, num_bg_tasks, usage,
                 active_tqueues, waiting_tasks, external_queue, task,
                 sched, disk, opened, clock>>

\* read(p, 1): read_input_now() takes a pending line without blocking.
ReadInputNow(p) ==
  /\ Running
  /\ MayRead(p)
  /\ \E q \in Tqs :
       /\ Find(q, p)
       /\ input[q] > 0
       /\ input' = [input EXCEPT ![q] = @ - 1]
  /\ UNCHANGED <<player, connected, reading, bg, num_bg_tasks, usage,
                 active_tqueues, waiting_tasks, external_queue, task,
                 sched, disk, opened, clock>>

\* name_lookup() parks the task, which a wizard must run, in the queue of
\* lookups in progress, an external queue.
SuspendExternally ==
  /\ Running /\ Me \in Wizards
  /\ MaxLookups > 0
  /\ \A q \in Tqs : player[q] = Me => num_bg_tasks[q] > -MaxLookups
  /\ external_queue' = external_queue \cup {current_task_id}
  /\ current_task_id' = NoTask
  /\ UNCHANGED <<queues, waiting_tasks, task, phase, running_tq,
                 disk, opened, clock>>

\* force_input(p, line).
ForceInput(p) ==
  /\ Running
  /\ MayControl(p)
  /\ \E q \in Tqs :
       /\ FindOrCreate(q, p)
       /\ input[q] < MaxInput
       /\ player' = [player EXCEPT ![q] = p]
       /\ input' = [input EXCEPT ![q] = @ + 1]
       /\ EnsureUsage(q)
  /\ UNCHANGED <<connected, reading, bg, num_bg_tasks, waiting_tasks,
                 external_queue, task, sched, disk, opened, clock>>

\* flush_input(p).
FlushInput(p) ==
  /\ Running
  /\ MayControl(p)
  /\ \E q \in Tqs :
       /\ FindOrCreate(q, p)
       /\ player' = [player EXCEPT ![q] = p]
       /\ input' = [input EXCEPT ![q] = 0]
  /\ UNCHANGED <<connected, reading, bg, num_bg_tasks, usage, active_tqueues,
                 waiting_tasks, external_queue, task, sched, disk,
                 opened, clock>>

Forget(id) == task' = [task EXCEPT ![id] = NoTaskRec]

\* kill_task(), the loop over waiting_tasks.
KillWaiting(i) ==
  /\ Running
  /\ LET id == waiting_tasks[i]
         owner == task[id].progr
     IN /\ MayControl(owner)
        /\ num_bg_tasks' = [q \in Tqs |-> IF player[q] = owner
                                          THEN num_bg_tasks[q] - 1
                                          ELSE num_bg_tasks[q]]
        /\ waiting_tasks' = RemoveAt(waiting_tasks, i)
        /\ Forget(id)
  /\ UNCHANGED <<player, connected, input, reading, bg, usage,
                 active_tqueues, external_queue, sched, disk,
                 opened, clock>>

\* kill_task(), a task blocked in read() on q.
KillReading(q) ==
  /\ Running
  /\ reading[q] # NoTask
  /\ MayControl(player[q])
  /\ reading' = [reading EXCEPT ![q] = NoTask]
  /\ Forget(reading[q])
  /\ UNCHANGED <<player, connected, input, bg, num_bg_tasks, usage,
                 active_tqueues, waiting_tasks, external_queue,
                 sched, disk, opened, clock>>

\* kill_task(), the loop over the tasks of an active queue.
KillBg(q, i) ==
  /\ Running
  /\ OnActive(q)
  /\ MayControl(player[q])
  /\ bg' = [bg EXCEPT ![q] = RemoveAt(@, i)]
  /\ num_bg_tasks' = [num_bg_tasks EXCEPT ![q] = @ - 1]
  /\ Forget(bg[q][i])
  /\ UNCHANGED <<player, connected, input, reading, usage, active_tqueues,
                 waiting_tasks, external_queue, sched, disk, opened,
                 clock>>

\* kill_task(), the external queues.
KillExternal(id) ==
  /\ Running
  /\ id \in external_queue
  /\ MayControl(task[id].progr)
  /\ external_queue' = external_queue \ {id}
  /\ Forget(id)
  /\ UNCHANGED <<queues, waiting_tasks, sched, disk, opened, clock>>

\* resume(id): do_resume() of a task on waiting_tasks.
DoResume(i) ==
  /\ Running
  /\ LET id == waiting_tasks[i]
         owner == task[id].progr
     IN /\ task[id].kind = "SUSPENDED"
        /\ MayControl(owner)
        /\ task' = [task EXCEPT ![id].start = 0]
        /\ waiting_tasks' = RemoveAt(waiting_tasks, i)
        /\ \E q \in Tqs :
             /\ FindOrCreate(q, owner)
             /\ player' = [player EXCEPT ![q] = owner]
             /\ EnsureUsage(q)
             /\ bg' = [bg EXCEPT ![q] = Append(@, id)]
  /\ UNCHANGED <<connected, input, reading, num_bg_tasks, external_queue, sched, disk, opened, clock>>

\* The task returns, is aborted, or kills itself.
Finish ==
  /\ Running
  /\ Forget(current_task_id)
  /\ current_task_id' = NoTask
  /\ UNCHANGED <<queues, waiting_tasks, external_queue, phase,
                 running_tq, disk, opened, clock>>

\* Mutant of OwnsTasks: the connection's tasks stay where they are.
OwnsTasksNever(q) == FALSE

\* An un-logged-in connection has queued tasks of its own: they go to a
\* queue of their own.
OwnsTasks(q) == num_bg_tasks[q] # 0

KeptBg(q) == IF OwnsTasks(q) THEN << >> ELSE bg[q]

\* #0:do_login_command returns the player u: the rest of do_login_task(),
\* with player_connected() closing the old connection of u, if any.
\* old is the queue find_tqueue(old_player, 1) then makes.
LoginTask(u, old) ==
  LET q == running_tq
      dead == {d \in Tqs : player[d] = u}
      owns == OwnsTasks(q)
  IN /\ Running /\ phase = "line"
     /\ player[q] \in Conns /\ connected[q]
     /\ player[old] = FREE
     /\ old = CHOOSE r \in Tqs : player[r] = FREE
     /\ Forget(current_task_id)
     /\ current_task_id' = NoTask
     /\ player' = [r \in Tqs |-> CASE r = q -> u
                                   [] r \in dead -> NOTHING
                                   [] r = old /\ owns -> player[q]
                                   [] OTHER -> player[r]]
     /\ connected' = [r \in Tqs |-> connected[r] /\ r \notin dead]
     /\ input' = [r \in Tqs |-> IF r \in dead THEN 0 ELSE input[r]]
     /\ \/ /\ dead = {}
           /\ bg' = [bg EXCEPT ![old] = IF owns THEN bg[q] ELSE @,
                              ![q] = KeptBg(q)]
           /\ num_bg_tasks' = [num_bg_tasks EXCEPT
                                 ![old] = num_bg_tasks[q], ![q] = 0]
           /\ UNCHANGED <<usage, active_tqueues>>
        \/ \E d \in dead :
             /\ bg' = [bg EXCEPT ![old] = IF owns THEN bg[q] ELSE @,
                                ![q] = KeptBg(q) \o bg[d], ![d] = << >>]
             /\ num_bg_tasks' = [num_bg_tasks EXCEPT
                                   ![old] = num_bg_tasks[q],
                                   ![q] = num_bg_tasks[d], ![d] = 0]
             /\ EnsureUsageIf(connected[d] /\ reading[d] # NoTask, d)
     /\ UNCHANGED <<reading, waiting_tasks, external_queue, phase,
                    running_tq, disk, opened, clock>>

-----------------------------------------------------------------------------
(* Dump at shutdown, and startup from that dump *)

\* Going down the list s, the tasks of the kind k.
OfKind(s, k) ==
  LET kept[i \in 0 .. Len(s)] ==
        IF i = 0 THEN << >>
        ELSE IF task[s[i]].kind = k THEN Append(kept[i - 1], s[i])
        ELSE kept[i - 1]
  IN kept[Len(s)]

\* write_task_queue(): forked tasks, then suspended ones.
WriteTaskQueue ==
  LET all == waiting_tasks \o
             FlattenSeq([i \in 1 .. Len(active_tqueues) |->
                           bg[active_tqueues[i]]])
  IN OfKind(all, "FORKED") \o OfKind(all, "SUSPENDED")

\* The server shuts down and starts again: only what was written survives,
\* and connection numbers start over.
Restart ==
  /\ Io
  /\ disk' = WriteTaskQueue
  /\ task' = [id \in Ids |-> IF \E i \in 1 .. Len(disk') : disk'[i] = id
                             THEN task[id] ELSE NoTaskRec]
  /\ phase' = "load"
  /\ player' = [q \in Tqs |-> FREE]
  /\ connected' = [q \in Tqs |-> FALSE]
  /\ input' = [q \in Tqs |-> 0]
  /\ reading' = [q \in Tqs |-> NoTask]
  /\ bg' = [q \in Tqs |-> << >>]
  /\ num_bg_tasks' = [q \in Tqs |-> 0]
  /\ usage' = [q \in Tqs |-> NO_USAGE]
  /\ active_tqueues' = << >>
  /\ waiting_tasks' = << >>
  /\ external_queue' = {}
  /\ opened' = {}
  /\ UNCHANGED <<current_task_id, running_tq, clock>>

\* read_task_queue(): one task.
LoadTask ==
  /\ phase = "load" /\ disk # << >>
  /\ \E q \in Tqs, id \in Ids :
       id = Head(disk) /\ EnqueueWaiting(q, id, task[id])
  /\ disk' = Tail(disk)
  /\ UNCHANGED <<connected, input, reading, bg, usage, active_tqueues,
                 external_queue, sched, opened, clock>>

LoadDone ==
  /\ phase = "load" /\ disk = << >>
  /\ phase' = "io"
  /\ UNCHANGED <<queues, waiting_tasks, external_queue, task,
                 current_task_id, running_tq, disk, opened, clock>>

-----------------------------------------------------------------------------
Init ==
  /\ player = [q \in Tqs |-> FREE]
  /\ connected = [q \in Tqs |-> FALSE]
  /\ input = [q \in Tqs |-> 0]
  /\ reading = [q \in Tqs |-> NoTask]
  /\ bg = [q \in Tqs |-> << >>]
  /\ num_bg_tasks = [q \in Tqs |-> 0]
  /\ usage = [q \in Tqs |-> NO_USAGE]
  /\ active_tqueues = << >>
  /\ waiting_tasks = << >>
  /\ external_queue = {}
  /\ task = [id \in Ids |-> NoTaskRec]
  /\ current_task_id = NoTask
  /\ phase = "load"
  /\ running_tq = FREE
  /\ disk = << >>
  /\ opened = {}
  /\ clock = 1

NetworkStep ==
  \/ \E c \in Conns : NewConnection(c)
  \/ \E q \in Tqs : InputLine(q) \/ FlushCommand(q) \/ FreeTaskQueue(q)
  \/ \E id \in Ids : ResumeExternal(id)

\* The steps the server takes by itself once it is in run_ready_tasks().
SchedulerStep ==
  \/ RunReadyTasks \/ MoveDue \/ MoveDone
  \/ PickOutOfInput \/ PickNone
  \/ \E q \in Tqs : PickInput(q) \/ PickBg(q) \/ PickNothing(q)
  \/ EmptyCommand \/ Command
  \/ \E secs \in 0 .. MaxUsage : TaskDone(secs)
  \/ \E q \in Tqs : FreeTqueue(q)
  \/ SweepDone

TaskStep ==
  \/ \E d \in 0 .. MaxDelay : Fork(d) \/ Suspend(d)
  \/ \E p \in Users \cup opened :
       \/ MakeReadingTask(p) \/ ReadInputNow(p)
       \/ ForceInput(p) \/ FlushInput(p)
  \/ SuspendExternally
  \/ \E i \in 1 .. Len(waiting_tasks) : KillWaiting(i) \/ DoResume(i)
  \/ \E q \in Tqs : KillReading(q) \/ \E i \in 1 .. Len(bg[q]) : KillBg(q, i)
  \/ \E id \in Ids : KillExternal(id)
  \/ Finish
  \/ \E u \in Users, old \in Tqs : LoginTask(u, old)

Next ==
  \/ NetworkStep \/ SchedulerStep \/ TaskStep
  \/ \E p \in Progrs : StartServerTask(p)
  \/ Tick
  \/ Restart \/ LoadTask \/ LoadDone

Spec == Init /\ [][Next]_vars

\* The main loop comes round to run_ready_tasks() again and again and gets
\* through it, tasks end (they run out of ticks or seconds), time passes, a
\* queue that keeps running tasks is billed for it now and then, and the
\* server is not restarted for ever.
FairSpec ==
  /\ Spec
  /\ SF_vars(RunReadyTasks) /\ WF_vars(SchedulerStep) /\ WF_vars(Finish)
  /\ SF_vars(Tick) /\ WF_vars(LoadTask \/ LoadDone)
  /\ \A q \in Tqs : SF_vars(running_tq = q /\ TaskDone(1))
  /\ <>[][~Restart]_vars

-----------------------------------------------------------------------------
(* Properties *)

\* Type correctness of every field of every queue and of the lists.
TypeOK ==
  /\ player \in [Tqs -> Players \cup {NOTHING, FREE}]
  /\ connected \in [Tqs -> BOOLEAN]
  /\ input \in [Tqs -> Nat]
  /\ reading \in [Tqs -> Ids \cup {NoTask}]
  /\ bg \in [Tqs -> Seq(Ids)]
  /\ num_bg_tasks \in [Tqs -> Int]
  /\ usage \in [Tqs -> Nat \cup {NO_USAGE}]
  /\ active_tqueues \in Seq(Tqs)
  /\ waiting_tasks \in Seq(Ids)
  /\ external_queue \subseteq Ids
  /\ task \in [Ids -> TaskRec]
  /\ current_task_id \in Ids \cup {NoTask}
  /\ phase \in Phases
  /\ running_tq \in Tqs \cup {FREE}
  /\ opened \subseteq Conns
  /\ clock \in 1 .. MaxTime

\* The queue of a connection number that no connection has: the one
\* do_login_task() makes for the tasks of a connection that logs in, or what
\* a closed connection leaves.
Detached(q) == player[q] \in Conns /\ ~connected[q]

\* Whatever could make a queue run something puts it on the active list: a
\* ready background task, a line of input, or a read() nobody can answer any
\* more.  A queue that is left idle with work is never looked at again, and
\* its tasks are seen neither by queued_tasks() nor by write_task_queue().
\* The tasks of a Detached queue are the exception: do_login_task() leaves
\* them on an idle queue.
ReadyIsActive ==
  \A q \in Tqs :
    \/ bg[q] # << >> /\ ~Detached(q)
    \/ input[q] > 0
    \/ reading[q] # NoTask /\ OutOfInput(q)
    => OnActive(q)

\* The active list holds each queue with a usage once and nothing else: the
\* list and the NO_USAGE mark ensure_usage() tests never disagree.
ActiveListExact ==
  /\ \A i, j \in 1 .. Len(active_tqueues) :
       active_tqueues[i] = active_tqueues[j] => i = j
  /\ \A q \in Tqs : OnActive(q) <=> usage[q] # NO_USAGE
  /\ \A q \in Tqs : OnActive(q) => player[q] # FREE

\* find_tqueue() may stop at the first match: no player has two queues.
OneQueuePerPlayer ==
  \A q, r \in Tqs : player[q] = player[r] /\ player[q] \in Players => q = r

\* While a task of a queue runs, that queue stays first on the active list,
\* whatever the task activates: `active_tqueues = tq->next' after the run
\* then removes it and nothing else.
RunningIsHead ==
  phase \in {"prompt", "line", "bg"} =>
    active_tqueues # << >> /\ Head(active_tqueues) = running_tq

\* Active queues are in the order of the seconds billed to them, waiting
\* tasks in the order of their start times, on which next_task_start() and
\* the first loop of run_ready_tasks() rely.
ListsSorted ==
  /\ \A i, j \in 1 .. Len(active_tqueues) :
       i < j => usage[active_tqueues[i]] <= usage[active_tqueues[j]]
  /\ \A i, j \in 1 .. Len(waiting_tasks) :
       i < j => task[waiting_tasks[i]].start <= task[waiting_tasks[j]].start

IdsOf(s) == {s[i] : i \in 1 .. Len(s)}
Queued == IdsOf(waiting_tasks) \cup UNION {IdsOf(bg[q]) : q \in Tqs}
Owned(p) == {id \in Queued : task[id].progr = p}
Stranded(id) ==
  \E q \in Tqs : Detached(q) /\ ~OnActive(q) /\ id \in IdsOf(bg[q])

Places(id) ==
  {<<"waiting", i>> : i \in {i \in 1 .. Len(waiting_tasks) :
                              waiting_tasks[i] = id}}
  \cup (UNION {{<<"bg", q, i>> : i \in {i \in 1 .. Len(bg[q]) : bg[q][i] = id}} :
               q \in Tqs})
  \cup {<<"reading", q>> : q \in {q \in Tqs : reading[q] = id}}
  \cup {<<"disk", i>> : i \in {i \in 1 .. Len(disk) : disk[i] = id}}
  \cup (IF id \in external_queue THEN {<<"external">>} ELSE {})
  \cup (IF id = current_task_id THEN {<<"running">>} ELSE {})

\* A task is in one place: its vm is never linked into two lists, or run
\* while it is still queued.
OnePlace == \A id \in Ids : Cardinality(Places(id)) <= 1

\* A task disappears only by running to its end or by a kill_task() its
\* killer was allowed; a restart drops only tasks in read() or in an
\* external queue, and those do_login_task() left on an idle queue.
NoTaskVanishes ==
  [][\A id \in Ids :
       Places(id) # {} /\ Places(id)' = {} =>
         \/ id = current_task_id
         \/ Running /\ (Me \in Wizards \/ Me = task[id].progr
                       \/ \E q \in Tqs : reading[q] = id /\ player[q] = Me)
         \/ phase' = "load" /\ (id \in Queued => Stranded(id))]_vars

\* num_bg_tasks counts the tasks of the queue's player "in either here or
\* waiting_tasks", and a player without a queue has no queued task: what
\* queue_info() returns is exact.
CountExact ==
  \A p \in Players :
    \/ \E q \in Tqs : player[q] = p /\ num_bg_tasks[q] = Cardinality(Owned(p))
    \/ (\A q \in Tqs : player[q] # p) /\ Owned(p) = {}

\* No player has more queued tasks than queued_task_limit.
QuotaKept ==
  Limit >= 0 => \A p \in Players : Cardinality(Owned(p)) <= Limit

\* A queued task whose time comes is run, or killed: no queue is passed over
\* for ever while the work that other queues receive is finite.
EventuallyRun ==
  \A id \in Ids :
    (id \in Queued /\ task[id].start < MaxTime)
      ~> (current_task_id = id \/ Places(id) = {})

=============================================================================
