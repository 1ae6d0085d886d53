----------------------------- MODULE InputQueue -----------------------------
(***************************************************************************)
(* The input half of one tqueue of server/tasks.c, with the pointers of its *)
(* two linked lists: all pending lines, and the "itail" list of the lines   *)
(* that end a run of out-of-band or of in-band lines.                       *)
(*                                                                         *)
(* next[TQ] is tq->first_input, next_itail[TQ] is tq->first_itail, and a    *)
(* pointer to a slot is represented by the owner of the slot: last_input =  *)
(* a stands for &(a->next), last_itail = a for &(a->next_itail).            *)
(***************************************************************************)
EXTENDS Naturals, Sequences, FiniteSets, SequencesExt

CONSTANTS Addr,        \* addresses of struct Task
          TQ,          \* the tqueue itself, owner of the list heads
          NULL,
          LineKinds,   \* kinds of lines that arrive
          Lengths,     \* lengths of lines that arrive
          INPUT_HIWAT  \* MAX_QUEUED_INPUT

INPUT_LOWAT_quarter == INPUT_HIWAT \div 4   \* mutant of INPUT_LOWAT
INPUT_LOWAT == INPUT_HIWAT \div 2
Kinds == {"INBAND", "OOB", "QUOTED", "BINARY"}
NoLine == [line |-> "none", as |-> "none", stripped |-> FALSE]

\* With a high-water mark below 2 suspended input would never be resumed.
ASSUME WatermarkAssumption == INPUT_HIWAT \in Nat /\ INPUT_HIWAT >= 2
ASSUME LinesAssumption == LineKinds \subseteq Kinds /\ Lengths \subseteq Nat
ASSUME AddrAssumption ==
  IsFiniteSet(Addr) /\ TQ \notin Addr /\ NULL \notin Addr /\ TQ # NULL

VARIABLES
  kind, length, next, next_itail,    \* the fields of the tasks
  last_input, last_itail,            \* pointers to slots
  total_input_length, input_suspended,
  hold_input, disable_oob,           \* connection options
  reading,                           \* a task is blocked in read()
  connected,
  active,                            \* on active_tqueues (usage # NO_USAGE)
  flushing,                          \* inside the loop of flush_input()
  taken                              \* what dequeue_input_task() returned last

heap == <<kind, length, next, next_itail>>
list == <<heap, last_input, last_itail, total_input_length, input_suspended>>
vars == <<heap, last_input, last_itail, total_input_length, input_suspended,
          hold_input, disable_oob, reading, connected, active, flushing, taken>>

first_input == next[TQ]
first_itail == next_itail[TQ]
IsOob(a) == kind[a] = "OOB"

\* The tasks on the list, and the task at distance n from the head.
At[n \in 0 .. Cardinality(Addr)] ==
  IF n = 0 THEN TQ ELSE IF At[n - 1] = NULL THEN NULL ELSE next[At[n - 1]]
InList == {a \in Addr : \E n \in 1 .. Cardinality(Addr) : At[n] = a}
FreeAddr == {a \in Addr : kind[a] = "NONE"}
OutOfInput == ~connected /\ first_input = NULL

-----------------------------------------------------------------------------
(* enqueue_input_task() *)

\* The itail pointers when t is put at the front of a list that is not empty.
FrontItails(t, k) ==
  IF IsOob(first_input) # (k = "OOB")
  THEN /\ next_itail' = [next_itail EXCEPT ![t] = first_itail, ![TQ] = t]
       /\ last_itail' = IF last_itail = TQ THEN t ELSE last_itail
  ELSE UNCHANGED <<next_itail, last_itail>>

\* Mutant of RearItails: every line ends a run.
RearItailsEvery(t, k) ==
  LET slot == IF first_input # NULL THEN next_itail[last_itail] ELSE last_itail
  IN last_itail' = slot /\ next_itail' = [next_itail EXCEPT ![slot] = t]

\* The itail pointers when t is put at the rear.
RearItails(t, k) ==
  LET tail == next_itail[last_itail]
      slot == IF first_input # NULL /\ IsOob(tail) # (k = "OOB")
              THEN tail ELSE last_itail
  IN /\ last_itail' = slot
     /\ next_itail' = [next_itail EXCEPT ![slot] = t]

EnqueueInputTask(k, len, at_front) ==
  \E t \in FreeAddr :
    /\ kind' = [kind EXCEPT ![t] = k]
    /\ length' = [length EXCEPT ![t] = len]
    /\ total_input_length' = total_input_length + len
    /\ IF at_front /\ first_input # NULL
       THEN /\ FrontItails(t, k)
            /\ next' = [next EXCEPT ![t] = first_input, ![TQ] = t]
            /\ UNCHANGED last_input
       ELSE /\ RearItails(t, k)
            /\ next' = [next EXCEPT ![last_input] = t]
            /\ last_input' = t
    /\ active' = (active \/ ~hold_input \/ reading
                  \/ (~disable_oob /\ k = "OOB"))
    /\ input_suspended' = (input_suspended
                           \/ (connected /\ total_input_length' > INPUT_HIWAT))

-----------------------------------------------------------------------------
(* dequeue_input_task() *)

\* The owner of the slot that points to the task to take, or NULL if
\* disable-oob excludes taking one.  A lane other than that of the first
\* task starts after the first itail.
Slot(how) ==
  IF disable_oob
  THEN IF how = "DQ_OOB" THEN NULL ELSE TQ
  ELSE IF first_input = NULL THEN TQ
  ELSE IF how # "DQ_FIRST" /\ (how = "DQ_OOB") # IsOob(first_input)
       THEN first_itail ELSE TQ

HasTask(how) == first_input # NULL /\ Slot(how) # NULL
                /\ next[Slot(how)] # NULL

\* Mutant of DequeueItails: last_itail is left behind.
DequeueItailsStale(s, t) ==
  /\ next_itail' = IF t # next_itail[s] THEN [next_itail EXCEPT ![t] = NULL]
                   ELSE IF next_itail[t] # NULL
                   THEN [next_itail EXCEPT ![s] = NULL, ![TQ] = next_itail[t],
                                           ![t] = NULL]
                   ELSE [next_itail EXCEPT ![s] = NULL]
  /\ UNCHANGED last_itail

\* The itail list once t, pointed to by slot s, is gone.
DequeueItails(s, t) ==
  IF t # next_itail[s] THEN UNCHANGED last_itail
                            /\ next_itail' = [next_itail EXCEPT ![t] = NULL]
  ELSE LET merged == IF next_itail[t] # NULL
                     THEN [next_itail EXCEPT ![s] = NULL, ![TQ] = next_itail[t],
                                             ![t] = NULL]
                     ELSE [next_itail EXCEPT ![s] = NULL]
       IN /\ next_itail' = merged
          /\ last_itail' = IF merged[last_itail] = NULL THEN TQ
                           ELSE last_itail

\* total_input_length once t is gone.
Remaining(t) == total_input_length - length[t]

DequeueInputTask(how) ==
  LET s == Slot(how)
      t == next[s]
  IN /\ HasTask(how)
     /\ next' = [next EXCEPT ![s] = next[t], ![t] = NULL]
     /\ last_input' = IF next[t] = NULL THEN s ELSE last_input
     /\ DequeueItails(s, t)
     /\ total_input_length' = Remaining(t)
     /\ input_suspended' = (input_suspended
                            /\ ~(connected /\ total_input_length' < INPUT_LOWAT))
     /\ taken' = [line |-> t,
                  as |-> IF kind[t] = "QUOTED" \/ (IsOob(t) /\ disable_oob)
                         THEN "INBAND" ELSE kind[t],
                  stripped |-> kind[t] = "QUOTED" /\ ~disable_oob]
     /\ kind' = [kind EXCEPT ![t] = "NONE"]
     /\ length' = [length EXCEPT ![t] = 0]

-----------------------------------------------------------------------------
(* The callers.  flush_input() is a loop; nothing else runs meanwhile. *)

\* server_receive_line(): the network does not read from a suspended
\* connection, but lines already read are still handed over.
NewInputTask(k, len) ==
  /\ ~flushing /\ connected
  /\ EnqueueInputTask(k, len, FALSE)
  /\ UNCHANGED <<hold_input, disable_oob, reading, connected, flushing, taken>>

\* force_input(); a line of its own is never binary.
ForceInput(k, len, at_front) ==
  /\ ~flushing /\ k # "BINARY"
  /\ EnqueueInputTask(k, len, at_front)
  /\ UNCHANGED <<hold_input, disable_oob, reading, connected, flushing, taken>>

\* The flush command, flush_input(), or the discarding of the input of a
\* queue whose player logs in again.
StartFlush ==
  /\ ~flushing /\ first_input # NULL
  /\ flushing' = TRUE
  /\ UNCHANGED <<list, hold_input, disable_oob, reading, connected, active,
                 taken>>

FlushOne ==
  /\ flushing
  /\ IF first_input = NULL
     THEN flushing' = FALSE /\ UNCHANGED <<list, taken>>
     ELSE DequeueInputTask("DQ_FIRST") /\ UNCHANGED flushing
  /\ UNCHANGED <<hold_input, disable_oob, reading, connected, active>>

\* Mutant of SetHoldInput: no ensure_usage() when input is released.
SetHoldInputIdle(b) ==
  /\ ~flushing /\ connected
  /\ hold_input' = b
  /\ UNCHANGED <<list, active, disable_oob, reading, connected, flushing, taken>>

\* set_connection_option(conn, "hold-input", b)
SetHoldInput(b) ==
  /\ ~flushing /\ connected
  /\ hold_input' = b
  /\ active' = (active \/ (~b /\ first_input # NULL))
  /\ UNCHANGED <<list, disable_oob, reading, connected, flushing, taken>>

\* set_connection_option(conn, "disable-oob", b)
SetDisableOob(b) ==
  /\ ~flushing /\ connected
  /\ disable_oob' = b
  /\ active' = (active \/ (/\ ~b /\ first_input # NULL
                           /\ next[first_itail] # NULL \/ IsOob(first_input)))
  /\ UNCHANGED <<list, hold_input, reading, connected, flushing, taken>>

\* read(): make_reading_task().
MakeReadingTask ==
  /\ ~flushing /\ ~reading /\ ~OutOfInput
  /\ reading' = TRUE
  /\ active' = (active \/ first_input # NULL)
  /\ UNCHANGED <<list, hold_input, disable_oob, connected, flushing, taken>>

\* read(conn, 1): read_input_now() prefers no lane but the in-band one.
ReadInputNow ==
  /\ ~flushing
  /\ DequeueInputTask("DQ_INBAND")
  /\ UNCHANGED <<hold_input, disable_oob, reading, connected, active, flushing>>

\* kill_task() of the task blocked in read().
KillReading ==
  /\ ~flushing /\ reading
  /\ reading' = FALSE
  /\ UNCHANGED <<list, hold_input, disable_oob, connected, active, flushing,
                 taken>>

\* Mutant of Disconnect: no ensure_usage() for the reading task.
DisconnectIdle ==
  /\ ~flushing /\ connected
  /\ connected' = FALSE
  /\ UNCHANGED <<list, active, hold_input, disable_oob, reading, flushing, taken>>

\* free_task_queue(): the connection is gone.
Disconnect ==
  /\ ~flushing /\ connected
  /\ connected' = FALSE
  /\ active' = (active \/ reading)
  /\ UNCHANGED <<list, hold_input, disable_oob, reading, flushing, taken>>

-----------------------------------------------------------------------------
(* The turn of this queue in run_ready_tasks() *)

TurnHow == IF hold_input /\ ~reading THEN "DQ_OOB" ELSE "DQ_FIRST"

\* read() on a queue without input and without connection ends with E_INVARG.
TurnOutOfInput ==
  /\ ~flushing /\ active
  /\ reading /\ OutOfInput
  /\ reading' = FALSE
  /\ UNCHANGED <<list, hold_input, disable_oob, connected, active, flushing,
                 taken>>

\* A line is run as an out-of-band command, given to the reading task, or
\* run as a command.
TurnInput ==
  /\ ~flushing /\ active
  /\ ~(reading /\ OutOfInput)
  /\ DequeueInputTask(TurnHow)
  /\ reading' = (reading /\ taken'.as = "OOB")
  /\ UNCHANGED <<hold_input, disable_oob, connected, active, flushing>>

\* Nothing to do: deactivate_tqueue().
TurnNothing ==
  /\ ~flushing /\ active
  /\ ~(reading /\ OutOfInput) /\ ~HasTask(TurnHow)
  /\ active' = FALSE
  /\ UNCHANGED <<list, hold_input, disable_oob, reading, connected, flushing,
                 taken>>

Turn == TurnOutOfInput \/ TurnInput \/ TurnNothing

\* The state after server_new_connection(): the queue holds the empty line
\* that runs the login command, and input is suspended until it is taken.
Init ==
  \E t \in Addr :
    /\ kind = [a \in Addr |-> IF a = t THEN "INBAND" ELSE "NONE"]
    /\ length = [a \in Addr |-> 0]
    /\ next = [a \in Addr \cup {TQ} |-> IF a = TQ THEN t ELSE NULL]
    /\ next_itail = [a \in Addr \cup {TQ} |-> IF a = TQ THEN t ELSE NULL]
    /\ last_input = t
    /\ last_itail = TQ
    /\ total_input_length = 0
    /\ input_suspended = TRUE
    /\ hold_input = FALSE /\ disable_oob = FALSE
    /\ reading = FALSE /\ connected = TRUE
    /\ active = TRUE /\ flushing = FALSE
    /\ taken = NoLine

Next ==
  \/ \E k \in LineKinds, len \in Lengths :
       \/ NewInputTask(k, len)
       \/ \E f \in BOOLEAN : ForceInput(k, len, f)
  \/ StartFlush \/ FlushOne
  \/ \E b \in BOOLEAN : SetHoldInput(b) \/ SetDisableOob(b)
  \/ MakeReadingTask \/ ReadInputNow \/ KillReading
  \/ Disconnect
  \/ Turn

Spec == Init /\ [][Next]_vars

\* The queue gets its turns again and again (module TaskScheduler),
\* flush_input() its iterations, and no program forces lines on it for ever.
FairSpec ==
  /\ Spec
  /\ SF_vars(Turn) /\ WF_vars(FlushOne)
  /\ <>[][\A k \in LineKinds, len \in Lengths, f \in BOOLEAN :
             ~ForceInput(k, len, f)]_vars

-----------------------------------------------------------------------------
(* Properties *)

\* Types.
TypeOK ==
  /\ kind \in [Addr -> Kinds \cup {"NONE"}]
  /\ length \in [Addr -> Nat]
  /\ next \in [Addr \cup {TQ} -> Addr \cup {NULL}]
  /\ next_itail \in [Addr \cup {TQ} -> Addr \cup {NULL}]
  /\ last_input \in Addr \cup {TQ} /\ last_itail \in Addr \cup {TQ}
  /\ total_input_length \in Nat
  /\ {input_suspended, hold_input, disable_oob, reading, connected, active,
      flushing} \subseteq BOOLEAN

\* The number of pending lines; At[1] to At[Pending] are their addresses.
Pending == Cardinality(InList)

\* The lines that end a run, and which of them comes next after a slot.
RunEnds == {i \in 1 .. Pending : \/ next[At[i]] = NULL
                                 \/ IsOob(next[At[i]]) # IsOob(At[i])}
Follows(i, j) == i < j /\ \A m \in RunEnds : m < j => m <= i

\* The comment on tqueue.first_itail: the itail list threads the ends of the
\* runs, last_input is the slot holding the final null, and last_itail the
\* penultimate slot of the itail list.  Every later insertion and removal
\* depends on all of it.
ItailListCorrect ==
  LET slots == {0} \cup RunEnds
  IN /\ last_input = At[Pending]
     /\ next_itail[At[Pending]] = NULL
     /\ \A i \in slots, j \in RunEnds :
          Follows(i, j) => next_itail[At[i]] = At[j]
     /\ \E i \in slots :
          last_itail = At[i] /\ IF Pending = 0 THEN i = 0 ELSE Follows(i, Pending)

\* The characters of the first n pending lines.
Characters[n \in 0 .. Pending] ==
  IF n = 0 THEN 0 ELSE Characters[n - 1] + length[At[n]]

\* Suspended input is always resumed by a dequeue to come: an open
\* connection with input suspended has a pending line, and the length that
\* decides, total_input_length, is the sum over the pending lines.
SuspendedHasInput ==
  /\ connected /\ input_suspended => first_input # NULL
  /\ total_input_length = Characters[Pending]

\* A queue that is not active has nothing to run: whatever the order in
\* which lines arrive, options change and tasks read, no runnable line and
\* no unanswerable read() is left waiting.
IdleHasNothingToRun ==
  ~active => ~HasTask(TurnHow) /\ ~(reading /\ OutOfInput)

\* A task blocked in read() is resumed with a line, or killed: when the
\* connection goes away it does not wait for ever.
ReaderReleased == (reading /\ ~connected) ~> ~reading

\* The refinement: forgetting the pointers, this is InputLanes.
Lanes == INSTANCE InputLanes WITH
  Lines <- Addr, MaxLines <- Cardinality(Addr),
  lines <- [i \in 1 .. Pending |->
              [id |-> At[i], kind |-> kind[At[i]]]]

LanesSpec == Lanes!Spec
=============================================================================
