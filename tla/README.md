# Waverous (LambdaMOO server): TLA+ specifications

Waverous is a LambdaMOO server: one process that keeps a database of objects in
memory, interprets the MOO programs stored in it on behalf of connected players
and of background tasks, and now and then writes the database to disk from a
forked child. The modules here specify the parts of `src/server` whose
correctness depends on the order of events, and the compiler and virtual machine
that run, stop, save and restore its programs. TLC checks them on small
instances; TLAPS proves, for every instance, every safety property of the task
scheduler, of the input queues and of the checkpoints, every invariant of the object
tree and every property of property values, that an input queue with its
pointers implements the sequence of lines it stands for, and of the connections
that their handles are sound, that notifiers alternate, that answers of name lookups
go to who asked and that no line of output is lost in silence.

## The system

| component | state it keeps | operations | source |
|---|---|---|---|
| task scheduler | `active_tqueues`, `idle_tqueues`, per queue `usage`, `num_bg_tasks`, `first_bg`, `reading_vm`; `waiting_tasks`; external queues | fork, suspend, read, resume, kill, login, `run_ready_tasks()`, saving and loading | `tasks.c` |
| input queues | per queue two threaded lists (`first_input`, `first_itail`), `total_input_length`, `input_suspended`, options | enqueue, dequeue by lane, flush, force, option changes | `tasks.c` |
| checkpoints | `checkpoint_requested`, `checkpoint_finished`, `checkpoint_pid`, `dump_generation`; the dump, input and temporary files | request, fork, write, remove, rename, SIGCHLD, shutdown, panic, restart | `server.c`, `db_file.c`, `mooctl` |
| connections | `all_shandles`, listeners, the next connection number, the step of the main loop | receive, close, login and redirection, boot, time-out, listen, outbound connections, saved connections | `server.c` |
| network | handles with input and output buffers | read, write, flush of output, suspend and resume | `net_multi.c`, `net_*.c` |
| object tree | parent, children, location, contents, owner of every object | create, recycle, renumber, chparent, move | `db_objects.c`, `objects.c`, `quota.c` |
| properties | definitions and inherited value slots | add, delete, rename, clear, chparent | `db_properties.c`, `property.c` |
| database validation | the objects as read from the file | the three phases of `validate_hierarchies()` | `db_file.c` |
| verbs | verb definitions and the lookup cache | add, delete, rename, reprogram; callable, command and defined-verb lookup | `db_verbs.c`, `verbs.c` |
| commands | the parsed command, the verb being programmed | cut into words, find the preposition, match the objects, find the verb, `huh` | `parse_cmd.c`, `match.c`, `tasks.c` |
| database file | lines | write and read objects, verbs, values, programs | `db_file.c`, `db_io.c` |
| compiler | code vectors with fixups, the account of the stack | generate code; decompile, find a line; unparse, parse | `code_gen.c`, `decompile.c`, `unparse.c`, `parser.y` |
| virtual machine | activation stack, handlers, ticks and seconds | one action per opcode; call, raise, unwind, suspend, resume, fork | `execute.c`, `functions.c`, `eval_*.c` |
| values | ints, objects, errors, strings, lists | arithmetic, comparison, indexing, ranges | `numbers.c`, `list.c`, `utils.c` |
| name lookup | the intermediary and the lookup process, their pipes; the lookups in progress, their children and registered descriptors | ask, answer, restart, time-out, kill | `name_lookup.c`, `bg_name_lookup.c`, `net_multi.c` |

Everything runs in one thread. Concurrency comes from four sides: MOO tasks
interleave at `suspend()`, `read()`, `fork` and `name_lookup()`; signals (SIGCHLD,
SIGUSR1/2, SIGTERM) interrupt the main loop between any two statements; and
checkpointers are processes that share the file system with the server, and
lookup processes answer it through pipes.
`main_loop()` ties the parts together: checkpoint, network input, one run of
`run_ready_tasks()`, connections to close.

What makes each part correct:

* scheduler: a queue with work is on the active list, a task is in one place,
  counts and quotas are exact, every due task runs;
* input: a line is delivered once, in order within its lane, and nobody waits
  for a line that is there;
* checkpoints: at any instant some file holds a complete, recent database;
* connections: every open connection has one handle, one queue, one number;
* object tree: both hierarchies are forests whose lists agree with the back
  references;
* properties: every value belongs to the property at its position;
* verbs and commands: a lookup, cached or not, finds what the database means now;
* database file: what is written is what is read;
* network: output is written in order, or whole lines are reported lost;
* compiler: a program survives as its text; the stack it allocates is enough;
* virtual machine: a task does what its program says, on every way in and out of
  every statement, also when it is suspended, saved and restored in between;
* name lookup: an answer goes to the task that asked, or to nobody.

The behaviours that are hard to test, with the lines where they arise, are the
`hazards` of `PROJECT.json`.

## Modules

| module | what it specifies |
|---|---|
| `TaskScheduler` | the queues, the active list, the waiting list, `run_ready_tasks()` in steps, every built-in that moves a task, login, shutdown and restart |
| `MCTaskScheduler` | instances for TLC |
| `TaskSchedulerProofs` | theorems about `TaskScheduler`: types, the active list, one queue per player |
| `TaskQueueProofs` | what is ready is on the active list; every task is in one place; order of the lists, counts, the limit, and that no task is lost |
| `InductionFacts` | induction and definition by recursion on the naturals, stated with sets |
| `InputLanes` | abstract: the pending lines of a connection as one sequence, and what each kind of dequeue delivers |
| `InputQueue` | the same queue with the pointers of `struct tqueue` and `struct Task`; implements `InputLanes` |
| `MCInputQueue` | instances for TLC |
| `InputQueueProofs` | theorems about `InputQueue`: both lists, the suspension of input, activation, and the refinement of `InputLanes` |
| `Checkpoint` | the checkpoint part of `main_loop()`, `dump_database()`, the SIGCHLD handler, dumps at shutdown and panic, crashes, restarts |
| `CheckpointProofs` | theorems about `Checkpoint`: types, crashes, shutdown |
| `ObjectTree` | both hierarchies of the database with their pointers, their validation on loading, and the built-in functions that change them, stopped half-way by the verbs they call |
| `ObjectTreeProofs` | theorems about `ObjectTree` |
| `Properties` | property definitions and the arrays of values that must stay aligned with them |
| `MCProperties` | instance for TLC, with symmetry of the objects that own nothing |
| `PropertiesProofs` | theorems about `Properties` |
| `Values` | MOO values and the operations of the expression opcodes on them |
| `CodeGen` | syntax trees, opcodes, the code generator: fixups, label widths, the account of the stack |
| `Decompile` | code vectors back to trees, and the line of a program counter |
| `Text` | trees to tokens (the unparser) and back (the parser) |
| `Execute` | the virtual machine, one action per opcode, with suspension, restart and forked tasks |
| `Language` | abstract: what a program means, an interpreter of syntax trees |
| `MCMachine` | the programs, and the properties that compare `Execute` with `Language` |
| `Network` | one network handle: its queue of output and its input |
| `NameLookup` | the processes that look up names, their pipes, and the tasks that wait for them |
| `Connections` | the connections of `server.c` and the main loop, over the handles of `Network` and the lookups of `NameLookup` |
| `MCConnections` | what each behaviour of `Connections` may contain |
| `ConnectionsProofs` | theorems about `Connections`: handles and queues, the notifiers, the name lookups, and the queue of output |
| `Words` | lines cut into words; prepositions |
| `Verbs` | verb definitions, the verb cache, and every operation that must flush it |
| `DatabaseFile` | the database as a file: extends `Verbs` with a restart |
| `Commands` | from a typed line to a verb: extends `DatabaseFile` |
| `MCCommands` | a small database and what is typed |

### TaskScheduler

A tqueue is an element of `Tqs`, an address; `player[q] = FREE` when nothing is
allocated there. `active_tqueues` is the list of the code, in its order; a queue
not on it is on `idle_tqueues`, whose order nothing depends on. `bg[q]` and
`waiting_tasks` are the lists of forked and suspended tasks, `reading[q]` the
task blocked in `read()`, `external_queue` the tasks parked by name lookups.
Pending input is only counted here.

The server is in one `phase`: `io` (everything in `main_loop()` outside
`run_ready_tasks()`), then `move` (the loop that moves due tasks), `pick` (the
loop over active queues; `again` after an empty command), `prompt`/`line`/`bg`
(a task of the queue `running_tq` is run), `sweep` (the loop that frees queues);
`load` is `read_task_queue()` at start-up. While `current_task_id` names a task,
that task may call any built-in: these are the actions `Fork` to `LoginTask`.
Interpreting MOO code is atomic with respect to everything but its own
built-in calls, as in the code.

Abstractions: programs, values and verbs are left out; a task is a kind, a
programmer and a start time. Time is a clock that may advance between steps. An
id stands for one task structure: collisions of random ids are left out.

### InputQueue

`next[TQ]` is `tq->first_input` and `next_itail[TQ]` is `tq->first_itail`. A
pointer to a pointer slot is represented by the owner of the slot, so that the
assignments through `pt`, `pitail`, `last_input` and `last_itail` in
`enqueue_input_task()` and `dequeue_input_task()` are kept one by one, including
the garbage that `next_itail` of inner nodes may hold. A line is a kind and a
length. The refinement maps the list from `first_input` to the sequence of
`InputLanes`.

### Checkpoint

The database is a version number; a file is absent, partial or a version.
Process 0 is the server when it dumps, process i the i-th checkpointer. Each
call that touches a file is a step of its own (`DumpOpen`, `DumpWrite`,
`DumpRemove`, `DumpRename`), and the storing of the child's pid and the clearing
of `checkpoint_finished` are separate steps since signals come in between.
`Faults` says which calls may fail, `Mooctl` how the server is restarted. A dump may
begin at any time, also while a checkpointer runs, as in the code.

A full disk shows in two ways. `write_db_file()` may notice (`DumpWriteFails`): then a
checkpoint is abandoned, and a shutdown or panic tries again. Or the last buffers do
not get out, and since the results of `fflush()`, `fsync()` and `fclose()` are not
looked at (`db_file.c:681`), the dump goes on with a file that was cut off
(`DumpFlushFails`).

So there are two ways in which the program loses what it said was written, each with
a run that shows it. What the other properties say of everything else is qualified by
two variables that no action reads: `torn`, the last dump to take the dump file's place
was cut off, and `overlapped`, a dump began while a checkpointer ran. Both end when a
process that is alone puts a whole dump in the dump file that is as new as
everything reported (`MakesGood`), or when a restart finds a complete database.

### ObjectTree

`par` and `loc` are the same structure: `up` is parent or location, `down` the
head of the list (child, contents), `across` the link of the list (sibling,
next). Loads start from every assignment of these fields, also nonsensical ones;
`Load` is `validate_hierarchies()`: dangling references cleared, two-speed search
for cycles, then the lists against the back references. The code runs the phases
on both hierarchies together; nothing in one depends on the other, so the initial
states vary one at a time.

`move()` calls `accept` and `recycle()` calls `recycle` and `exitfunc` and then
go on with the object numbers they had. `call` holds those pending calls; while
one is pending every other operation may happen, which stands for the verb and
for any task that runs while it is suspended. Permission checks are left out: a
wizard passes all of them, so they remove no step. `exitfunc` and `enterfunc` of
`move()` and `initialize` of `create()` are the last thing those functions do and
need no pending call.

`WellFormed`, the reference, follows no pointers: the list of an object is some
ordering of the objects whose `up` it is, and every set of objects has a member
whose `up` is outside it.

### Properties

`propdefs[o]` and `propval[o]` are the arrays of the code. Each definition
carries a mark that its values carry too, which no operation reads: `SlotsMatch`
compares the marks, the code only the positions. Children are the inverse of
`parent` here. The new value of a quota is some value, since its arithmetic does
not matter for the slots. Numbers have no order, so `Renumber` goes to any free
number. The verbs `create()` and `recycle()` call are separate steps of other
actions; `Recycle` is the part of `bf_recycle()` after the last of them.

### Values, CodeGen, Decompile, Text, Execute, Language

A scenario is a table of verbs (syntax trees), the verb a task starts with, and
the task's limits. `Execute!prog` is what `CodeGen!generate_code` makes of the
trees: code vectors of bytes, where a reference to a label, a literal, a variable
or a stack depth takes as many bytes as the size of the program asks for. The
number of values of a byte is a parameter of the scenario (`base`), so that
small programs have references of two bytes as well.

Each action of `Execute` is one opcode of `run()`; its guard is the opcode at the
program counter. `raise_error()` is `RaiseError`, a step that follows the opcode
that failed, with nothing in between. `unwind_stack()` and the built-in functions
that call verbs (`eval`, `call_function`, and one that stands for all with a verb
in the middle, like `move` and `recycle`) are operators from machine to machine,
because one opcode runs them to their end. From outside come the alarm of the task's seconds
at any opcode, the resumption of a suspended task, the start of the tasks it has
forked, and a restart of the server while it is suspended: then the programs are
decompiled, listed, parsed and compiled again, and stacks and program counters
are kept.

`Language` is the reference: an interpreter of the trees with frames and
exceptions and nothing else. It shares with `Execute` only `Values` and the
tables of properties and verbs. What a program means is worked out once, in the
initial state, and kept in the variable `meaning`, since a scenario does not
change.

`Text` works on tokens; a space is a token only where its absence would join two
others. The parser is the grammar of `parser.y` by recursive descent with its
precedences.

### Network, NameLookup and Connections

Connection i is the i-th since the start, with player number -1 - i until a
user logs in. `sh`, `nh` and `tq` are the handles of the server, of the network
and the task queues; both lists of handles run from the newest to the oldest, as
in the code. `pc` is the place in the main loop, with the current handle and the
next one, which the code has taken before it does anything. MOO code runs while
`verb` is not `NoVerb`: `verb.then` says where the C code goes on, and in between
the verb may call the built-in functions of the behaviour's `focus`. That is
where `boot_player()`, `recycle()`, `open_network_connection()`, `notify()`,
`force_input()`, `listen()` and the options of a connection interfere with the
loops that called it.

`select()` and `poll()` give some set of ready handles, `write()` takes any part
of what is queued, or fails. A listing of what each client has seen (`seen`), of
what has been read (`heard`) and of what the notifier verbs make of each user
(`told`) is kept for the properties.

Of the task queues there is only what a login and the flow control of input use:
a queue is its player, whether it is connected and suspended, and a number of
lines. An unconnected empty queue is freed at the next `free_tqueues`. Input is
forced on connected queues only. Messages to a connection that is closed in the
same step reach no queue. A refused connection (all handles in use) has no state.

`NameLookup` has the two ways to look a name up. In the first the server waits
(`asked`) for the intermediary (`middle`), which waits for the lookup process
(`looker`); what is in the four pipes is `pipes`, one element per `write()`, and a
read of an empty pipe ends when nobody can write to it any more: the lookup process
has inherited the intermediary's ends, so that the server learns of a death only
when both are dead. `open_network_connection()` asks for an address; the name of a
client is asked for by the System V network only (`net_sysv_tcp.c:223`, in the focus
with `sysv`), since `net_bsd_tcp.c` has given that up. In the second way
`name_lookup()` starts a child of its own (`children`, by descriptor), and
`check_registered_fds()`, at the end of `network_process_io()`, reads the answers of
the descriptors that were readable at `mplex_wait()`. Question q has the answer q, so
that `AnswersAreAsked` can tell whose answer it is. A behaviour that asks nothing
starts with the intermediary found dead, when only numeric addresses are known. The
run also checks that it has no deadlock: the server waiting for a process
that waits for another, or for nobody, would be one.

### Words, Verbs, DatabaseFile, Commands

A text is a sequence of letters; a word with a meaning of its own (`in`, `me`,
`.program`) is one letter. A verb definition has an `id`, which stands for its
address: a cache entry holds the object and the id it found, so that a stale one
points to another definition or to none.

`Verbs` has every operation that adds, deletes or changes a definition, and the
operations on objects that decide by themselves whether to flush the cache.
`DatabaseFile` writes the objects, verbs, values and programs as lines and reads
them back, in a `restart` at any moment between commands; a string is read
through a buffer of a few characters. A file that `read_db_file()` does not accept ends
the server, as in the code (`refused`); `RestartKeeps` says that none is written. `Commands` takes a line from its letters to
the verb that runs, with the calls of `do_prompt` and `do_command` in between,
during which everything else may happen; and `.program`, from its first line to
its last.

## Runs

| run | result | shows |
|---|---|---|
| `TaskScheduler_login` | pass | two connections, one of which may own tasks, log in as one player, with a task limit of 1 and restarts: counts exact, quota kept, queues with work active, one queue a player, no task lost or in two places, but for what is left on a connection's queue |
| `TaskScheduler_live` | pass | two programmers' tasks fork, suspend, read, leave for external queues and return: lists sorted and exact, the running queue at the head; a due task is eventually run |
| `InputQueue` | pass | both lists, the total, suspension and activation stay consistent; `InputQueue` implements `InputLanes`; a reader whose connection is gone is resumed |
| `Checkpoint` | pass | a crash at any instant is safe and a shutdown leaves the final database, but for what the next two violations show; a shutdown completes, whatever still runs |
| `Checkpoint_overlap` | violation | overlapping checkpoints lose the dump file |
| `Checkpoint_flush` | violation | a dump that was cut off by its last flush replaces the one before and is reported as written |
| `ObjectTree` | pass | validation refuses exactly the broken files; both hierarchies and the list of players stay intact |
| `Properties` | pass | values stay aligned with definitions, names unique; a change of parent keeps and adds the right values |
| `Machine` | pass | compiled programs do what their trees mean, through suspension, restart, limits and forks; stacks stay within their bounds; programs survive as text; powers, quotients and remainders are right at the edges of an int |
| `Machine_endless` | violation | a loop of extended opcodes only is never stopped |
| `Connections` | pass | handles and queues fit each other whatever verbs do in the middle of the loops; notifiers alternate; output is accounted for; lines do not depend on reads; answers of lookup processes go to who asked, and nobody waits for ever |
| `Commands` | pass | each lookup of a verb finds what the database means at that moment; every database file that is written can be read, and gives back what was written |

The violations state what the manual or a comment says and are quoted under
`findings` in `PROJECT.json`. `CHECK_DEADLOCK FALSE` stands where a behaviour
ends at its bounds (`Commands`, `ObjectTree` and the other runs that say so); the
programs of `Machine` stutter at their end.

### Known limits

Shown by runs: the unchecked flush (`Checkpoint_flush`, `db_file.c:681`), checkpoints
that overlap (`Checkpoint_overlap`, `db_file.c:629`) and loops without counted opcodes
(`Machine_endless`, `execute.c:1694`).

Met while modelling and not kept as runs:

* A checkpointer that exits before `fork_server()` has stored its pid
  (`server.c:254`), or while the previous one is being reported (`server.c:503`),
  is never reported to `$checkpoint_finished`.
* A dump file that cannot be opened at shutdown is not retried (`db_file.c:693`),
  while a failing write is: the server exits without a dump. `ShutdownDumps` is checked
  and proved without failing opens.
* `do_login_task()` moves the tasks of a connection that logs in to a queue of their
  own and does not activate it (`tasks.c:881`): they are not run, `queued_tasks()` and
  `kill_task()` do not find them (`tasks.c:2116`, `tasks.c:2156`) and a dump does not
  write them. `ReadyIsActive` and `NoTaskVanishes` name them as their exception.
* `resume_task()` puts a task that comes back from an external queue on its queue
  without counting it (`tasks.c:1375`), so that `num_bg_tasks` is one too low from
  then on. `CountExact` and `QuotaKept` are checked without external queues.
* The listing of `(-4)[1]` is `-4[1]`, which the parser reads as `-(4[1])`:
  `bracket_lt()` goes by the kind of the expression, and a negative number is an
  `EXPR_VAR` (`unparse.c:232`). `RoundTrip` leaves out negative numbers before a
  dot, a colon or a bracket.
* `read()` does not look at the queued-task limit (`tasks.c:1407`).
* `recycle()` calls the object's `recycle` verb before it empties the object
  (`objects.c:453`); the manual (`ProgrammersManual.texinfo:3842`) tells it the
  other way round.
* After the verbs `recycle()` calls, the number it goes on with may belong to
  another object (`objects.c:464`).
* `new_task_id()` does not look whether a live task has the number it draws
  (`tasks.c:628`).
* `dump_generation` starts again at 0 after a restart (`db_file.c:628`), so that a
  checkpointer that outlives its server writes a file of the same name as one of
  the new server's. `mooctl` takes the empty dump file that start-up leaves
  behind for a database.

Virtual machine and compiler:

* A negative literal before a dot, a colon or a bracket is parsed otherwise than it
  was written; the programs of `Machine` have none.
* The end of an indexed assignment is found by a scan for the byte
  `OP_PUSH_TEMP` (`decompile.c:482`), which the number of a variable may also be. A hot
  byte in that part marks a node that was popped before, and the line reported is
  the one after the last (`Decompile` does as the code does).
* The compiler never counts its references to stack depths (`num_stacks`,
  `code_gen.c:71`, stays 0), so that the labels after one of two bytes are wrong: a
  `break` or `continue` more than 255 values deep. The programs of `Machine` keep
  below that, for their size of a byte.
* `EOP_CONTINUE` after a finally clause that was reached by a `return` does not set
  the result of the interpreter, which is whatever it was; `EndIsMeant` asks for
  the value of other returns only.
* The traceback of an uncaught error is saved when the error is raised, and
  reported whenever the task aborts: also if a finally clause on the way
  out kills the task (`execute.c:2169`). The reference knows no such thing, and
  these programs are left out (`Inside` in `MCMachine`).
* The quotient of the least integer and -1 traps on some machines; the model
  wraps it round.

Connections:

* `boot_player()` of a user in the verb `user_client_disconnected` of a redirection,
  or in `do_login_command` before the login, is forgotten by the login
  (`server.c:1176`).
* A `listen()` that fails leaves the listener in the list, not listening.
* After `recycle()` and `create()` of an object with the same number a connection
  of the old user is one of the new object.
* A report of lost lines that is written in part is written again from its
  beginning, and a line of which a part was sent is counted as lost
  (`net_multi.c:467`).
* Lines of one chunk that was read before a change of the binary option are made
  by the option as it was; a check per line and a check per chunk differ.
* A panic in the middle of a redirection writes the old listener's connection
  to the dump.

Name lookups:

* `name_lookups()` takes the question of every lookup for a name, also when it is an
  address (`bg_name_lookup.c:513`; the kind is never stored).
* A time-out of 0 sets no alarm (`bg_name_lookup.c:810`), and such a lookup ends when
  the resolver does.
* A child that is killed in the middle of its answer takes the server with it
  (`bg_name_lookup.c:343`); the children of the model end only by their alarm or
  their answer. A request that cannot be written leaves its descriptors open
  (`bg_name_lookup.c:622`).
* If a verb run by `network_process_io()` kills a lookup whose answer is there and
  starts another, the new one has the old descriptor, which counts as readable:
  the server waits for that child (`net_multi.c:186`). The model has these steps;
  an answer is still the child's own.
* An intermediary that was found dead is never started again.

Commands and the database file:

* `verbcasecmp()` answers at once when the verb's names and the word are one
  pointer, so that for a word with a star or a space in it the answer depends
  on string sharing and on what has been cached. No word of the model has one.
* `chr()` truncates its argument to a `char`, and a string with a newline in it,
  which it can make, takes two lines of the dump file. No string of the model has
  one, as `db_io.h` asks.

### Bounds

Two programmers and two tasks are enough for every pair of lists a task
can move between and for both sides of every permission check; five addresses
for queues are one more than can be allocated at once. `MaxTime` 2 and
`MaxDelay` 1 give tasks due now, later and never; `MaxUsage` 1 gives equal and
different usages; `MaxInput` 1 gives empty and non-empty input.

`TaskScheduler_login` has one user and two connections, `c2` of which may own tasks as
the user may, and a limit of 1. Its constraint `TwoLogins` keeps it finite within
reason: `c2` alone has all of its input and the clock; where `c1` is opened too it comes
first, the clock stands, and the lines are those of the connection opened last, up to
its login. Logins in the other order, longer input and larger limits are in the proofs
of the same properties only. `TaskScheduler_live` has no connections and no lines, so
that the work other queues receive is finite, which `EventuallyRun` needs. `MaxLookups`
bounds how far external tasks push the count below zero.

The input lists themselves have three addresses in `InputQueue`, that is up to three
pending lines of three kinds: enough for a run with a neighbour on each side, which is
what a removal from the middle has to join, and for two lines of one lane around one of
the other. No symmetry is used there, because the run checks liveness.

`MaxGen` bounds the dumps of one server life; the last generation is kept
for the dump at shutdown so that the bound never blocks it. With two generations one
checkpointer and the server's own dump may be at work on the files, a failed dump at
shutdown is retried once, and a checkpoint that was cut off is followed by a dump that
is whole. More checkpointers at a time are in `Checkpoint_overlap` and in the proofs.

Three objects give chains of three, two siblings below one object, lists with a
first, a middle and a last member after a removal, and a cycle the two-speed
search meets before and after its first lap. One player at a time is enough
for its number to go stale in the list. One pending call is enough: what a
second one has done so far at any moment is what the atomic operations can do.
`Properties` has three objects, two definitions and one change of owner or
permission per behaviour, so that a value can differ in owner and `c` bit from
the definer's while parents change freely.

`Machine` runs every nesting of two of 17 contexts (loops, conditionals,
handlers, finally clauses entered in four ways, forks, calls of verbs, of `eval`
and of built-in functions that call verbs) around each of eleven ways to leave
them: two levels are what a jump, a marker on the stack and a saved position can
get wrong with respect to each other. A byte has eight values in those programs,
so that references of one, two and more bytes occur. Every operator stands under
every other, each opcode runs with operands it takes and with operands it
refuses, with the debug bit on and off, for a programmer and a wizard. Ints have
12 bits, which has its edges where the values of the programs can reach them.
Limits of 3 to 50 ticks stop four programs at each of their parts, and the alarm
comes at any opcode. Powers, quotients and remainders are of eleven numbers by eleven,
among them the least and the greatest int, zero and the units.

`Connections` chooses a focus per behaviour, so that each question has room of its
own: three connections and one meddling call, or two and two; two listeners with
a crash; five messages of none, two or four bytes with a limit of three; four characters
in chunks of one or two. One user and two listeners are enough for a login over
an existing connection at the same and at another place; with three connections
one can come, go or change between a handle and its successor. Three questions, of
either kind, and one process killed at any moment let an answer, a failure and
another answer follow each other; time-outs and failures to start a process are not
bounded. Three tasks in `name_lookup()` with one call to spare, for a kill, give a
queue with a middle and a slot that is used again.

`Commands` has three objects in two arrangements, with verbs whose names have
stars, aliases and specifications with prepositions of one and three words, two
edits and two lookups per behaviour: one lookup fills the cache, an edit (or two,
as when an object gets verbs and a parent) makes it stale, the other uses it.

### Fairness

`TaskScheduler!FairSpec`: the main loop comes round to `run_ready_tasks()` and
gets through it (weak fairness; it is a loop without blocking calls), every task
ends because it runs out of ticks or seconds, time passes, and a queue that
keeps running tasks is billed a second now and then, without which the usage
order gives no guarantee. `InputQueue!FairSpec`: the queue gets its turn while it
is active, which is what `EventuallyRun` says, and
lines are not put in front by `force_input()` for ever. `Checkpoint!FairSpec`: the loop
and the dumps make progress and the disk does not fill up again on every retry (strong
fairness of the server's `DumpWrite`; `ShutdownCompletes` says that the server stops, and
`ShutdownDumps` what it leaves).
`MCMachine!MCSpec`: the interpreter does not stop between opcodes; it is used by
the run that shows a task without end. `Connections` and `Commands` promise safety
only: a client may be silent for ever, and a verb may take its time.

## Proofs

All theorems hold for every value of the constants that satisfies the modules'
assumptions, and for the further hypotheses named here.

### Task scheduler

| theorem | module | statement | hypothesis |
|---|---|---|---|
| `TypeCorrect` | `TaskSchedulerProofs` | `Spec => []TypeOK` | |
| `ActiveList` | `TaskSchedulerProofs` | `Spec => []ActiveListExact` | |
| `RunningQueue` | `TaskSchedulerProofs` | `Spec => []RunningIsHead` | |
| `OneQueue` | `TaskSchedulerProofs` | `Spec => []OneQueuePerPlayer` | |
| `TaskInOnePlace` | `TaskQueueProofs` | `Spec => []OnePlace` | |
| `ListsInOrder` | `TaskQueueProofs` | `Spec => []ListsSorted` | |
| `ReadyQueues` | `TaskQueueProofs` | `Spec => []ReadyIsActive` | |
| `TasksAreKept` | `TaskQueueProofs` | `Spec => NoTaskVanishes` | |
| `CountsExact` | `TaskQueueProofs` | `Spec => []CountExact` | `MaxLookups = 0` |
| `QuotaIsKept` | `TaskQueueProofs` | `Spec => []QuotaKept` | `MaxLookups = 0` |

These are all the safety and action properties of the module that hold.

`MaxLookups = 0` says that no task is parked in an external queue. It is not a fact of
the code but a limit of what is true: `resume_task()` does not count a task that
comes back (`tasks.c:1375`), after which `num_bg_tasks` is below the truth.

Verbs may be owned by anybody, also by a connection that is not logged in, which is
the case `do_login_task()` provides for (`tasks.c:877`). It puts the tasks of such a
connection on a queue of their own and leaves that queue idle. `ReadyIsActive` and
`NoTaskVanishes` name exactly these tasks as their exception (`Detached`, `Stranded`): a
queue with the number of a connection that no connection has. What becomes of them is
under Known limits.

The invariants are built in layers, each inductive relative to those before it.

* `CoreInv`: types, the active list without duplicates and equal to the set of
  queues with a usage, the running queue at its head, and `FreeBlank`, that an
  address where no queue is allocated has the fields of a new queue. The last is
  what makes the others inductive: `find_tqueue()` and the login code allocate,
  and an allocated queue must start off the list. The heart of the argument is
  the lemma about `ensure_usage()`: a queue is put behind the queues whose usage
  is not greater, and its usage is that of the head, so it never displaces the
  head. There is one lemma per action.
* `OneQueuePerPlayer`: every step but a login gives at most one queue a player no
  other queue has; a login renames the queue of the old player to `NOTHING` in the
  same step.
* `ReadyInv`: besides `ReadyIsActive` itself (`Awake`) that the first queue, while it
  is looked at, has no `read()` that nobody can answer.
* `PlaceInv`: each task is in one place (`Unique`), no list holds it twice (`Lists`),
  and a placed task has a player for a programmer (`Real`), which is why a number
  `new_task_id()` may draw is in no place. `PlaceMoved` says that a step
  which moves one task needs looking at for that task only.
* `ActiveSorted` and `WaitingSorted`: insertion keeps a sorted list sorted, removal of
  any element too.
* `PhaseInv`, `CountInv`: the dump is read in one phase, and tasks are interpreted in
  four; the tasks on a queue's list are those of its player, and each player
  without a queue has none. Every step is classified once (`QueueStep`): it
  leaves the queued tasks as they are, adds one, takes one away, kills one, frees
  a queue, logs somebody in or restarts; the counts are then proved per class, by
  the cardinality of `Owned` before and after. The counts are exact for the players
  of `Counted`: all of them without name lookups, and the connections in any case, since
  a task in an external queue is a wizard's (`ParkedInv`). The latter is what the other
  theorems need: `run_ready_tasks()` frees an idle queue by its count, and the queue of a
  connection may be idle with tasks on it, which a wrong count would free with it.
* `HeldInv`: the quota counts the tasks still in the dump as well. Without them
  it is not inductive: a load could exceed it.
* `LostInv`: for `NoTaskVanishes`, the above and that whatever is queued has a kind
  that `write_task_queue()` writes.

Only model-checked: `EventuallyRun` (liveness under fairness is out of the
prover's reach).

### Input queues

| theorem | statement |
|---|---|
| `QueueIsTyped` | `Spec => []TypeOK` |
| `ItailsInOrder` | `Spec => []ItailListCorrect` |
| `SuspensionEnds` | `Spec => []SuspendedHasInput` |
| `NothingLeftWaiting` | `Spec => []IdleHasNothingToRun` |
| `QueueIsLanes` | `Spec => LanesSpec` |

They hold for any finite set of addresses, any kinds and lengths of lines, and any
high-water mark of at least 2 (`AddrAssumption`, `LinesAssumption`,
`WatermarkAssumption`).

The pointers say where the next line is but not which line is third, so the
invariant names what they stand for: `IInv` says that there is a sequence `s` of the
slots' owners, with `s[0]` the queue itself, such that

* `Chain`, `Linked`: `s` has no duplicates, `next` leads from each element to the one
  behind it and from the last to null, and `last_input` is the last;
* `Blank`: an address is free, with null in its pointers, unless it is in `s`;
* `Threaded`: `next_itail` leads from the head and from every end of a run
  (`Ends`) to the next end (`Succ`), is null at the last line, and `last_itail` is the
  end, or the head, before the last line;
* `Lengthed`: the running sums `f` of the lengths end in `total_input_length`;
* `Resumable` and `IdleHasNothingToRun`.

The work is in what one line more or less does to the ends of the runs. The
`Thread...` and `Ends...` lemmas have one case for each branch of the C code: at the
rear and in front, whether or not the line continues the run it meets; and for a
line taken, whether it is inside its run, the end of it, or the end of the whole
list, including the case that the two runs on its sides become one (`EndsCutRun`).
`ShapeBack`, `ShapeFront` and `ShapeCut` put them together. That a queue which is off
the active list has nothing to run is not inductive without `Threaded`:
`SetDisableOob` looks at `next[first_itail]` for an out-of-band line, and only there.

The properties themselves walk the list from its head (`At`, `Pending`, `Characters`).
`WalkIs`, `CharactersAre` and `RunEndsAre` say that this walk is `s` and `f`; by
`NoMoreLines` it is long enough, because distinct lines have distinct addresses.

For `QueueIsLanes`, `Pend(n, s, kind)` is the sequence of `InputLanes`. `PendBack`,
`PendFront` and `PendCut` say that the three changes of the lists are `Append`, a line in
front, and `RemoveAt`; `LaneChange` that behind the first itail the other lane
begins, so that `Slot(how)` is the first line of the lane asked for (`SlotAsked`).
`LanesStep` has one case per action: arrivals map to `Arrive`, dequeues of
`flush_input()`, `read_input_now()` and `run_ready_tasks()` to `Take`, the option to
`SetDisableOob`, and everything else to a stuttering step.

### Checkpoints

| theorem | statement | hypothesis |
|---|---|---|
| `TypeCorrect` | `Spec => []TypeOK` | |
| `CrashSafe` | `Spec => []SafeToCrash` | `~Mooctl` |
| `ShutdownIsDumped` | `Spec => ShutdownDumps` | `~Mooctl`, `"open" \notin Faults` |

The code keeps neither checkpoints from overlapping nor an unnoticed failure of the last
flush from replacing the dump file, and the theorems assume neither: every dump may begin
at any time, and any call may fail. Excused is what was lost in these two ways
(`Doubtful`), until a whole dump makes up for it; the runs `Checkpoint_overlap` and
`Checkpoint_flush` show that both excuses are needed. The hypotheses are about two
further limits: the restart script may take an empty dump file for a database, and a dump
file that cannot be opened at shutdown is given up (`db_file.c:693`).

For any set of failing calls, any number of changes and any number of dumps, the
invariant `IInv` says:

* whatever overlaps, a process in `dump_database()` dumps a world that existed, the
  server's own process the present one, and the world in memory is as new as anything
  reported (`Kept`);
* if no dump has begun beside a checkpointer (or it was made good since), one process at
  a time is in `dump_database()` (`Solo`);
* then, how far that process has come says what is on disk (`ProcOK`): its snapshot is in
  the temporary file before it removes the old dump file, and in the dump file
  when it exits well, or the file is cut off, and `torn` says so as soon as the old one is removed;
* then, unless `torn`, the last complete dump is in the input file or the dump file,
  except while a process is between `remove()` and `rename()`, or after a crash there
  (`Anchor`).

That `overlapped` may become false again is the delicate step: `MakesGood` asks that the
other processes be gone when the rename is done, and that the dump be as new as everything
reported, which together give back `Solo`, `ProcOK` and `Anchor`.

`SafeToCrash` follows since `Candidates` has all of these files. `Best` is a maximum of
a set of integers; that it exists is `Greatest` in `InductionFacts`.

### Connections

| theorem | statement |
|---|---|
| `HandlesAreSound` | `Spec => []HandlesSound` |
| `NotifiersDoAlternate` | `Spec => []NotifiersAlternate` |
| `AnswersAreTheAsked` | `Spec => []AnswersAreAsked` |
| `LookupsAreSound` | `Spec => []LookupsSound` |
| `OutputIsAccounted` | `Spec => []OutputAccounted` |

They hold for any set of users, any two listening points, any watermarks and any
`Focuses`, that is for any bounds of connections, calls, restarts, questions and for any
chunks of input (`UsersAssumption`, `ListenersAssumption`, `WatermarksAssumption`), any limit
of queued output and any lines of output (`OutputAssumption`, `OutputsAssumption`: a line has a
natural number of bytes).

The invariant `IInv` says what a step may rely on:

* `Sound(sh, nh, tq, conns)`: connections have numbers up to `conns` (`Fields`), nobody has
  two handles, and who is not logged in has the number of the connection (`Numbered`);
  shandles, network handles and connected queues are the same (`Paired`);
* `Looking`: in a loop over the handles, the current one and the next are there and are
  not the same; elsewhere there are none. Without the inequality the invariant is not
  inductive: closing the current handle would take the next one away;
* `Doing`: a verb after which a handle is closed was called for the current handle; what is
  done after another verb concerns a handle that is there; and a login is that of a
  queue whose player is still a connection, between two loops.

`NewKeeps`, `CloseKeeps`, `InputKeeps`, `HandleKeeps`, `ShandleKeeps` and `LoginKeeps` are
about the parts of handlers, without the loop; `PushSame`, `EnqueueSame` and `PullSame` say
that reading and writing leave a handle's suspension alone. `CallKeeps` covers the calls from
verbs: they may add connections and change others, and never take one away. That is
why `server.c` may keep a pointer to the next handle while a verb runs.

`NInv` says what the database has been told, in every state and not only at rest: of
each user the listener where the user is connected (`Hears`), except that the period of
one user is over already while the verb runs after which the handle is closed or
redirected (`Ended`); and while the saved connections are gone through, what
the rest of the list says (`Starting`). A dump agrees with itself (`Saved`), since it is
written at rest. `EndKeeps` and `BeginKeeps` are the two ways a notifier is called;
`QuietKeeps` is for the steps that call none. `WrittenIs` says by induction that the list
that `write_active_connections()` makes has each connection once.

`Sync` says where the question is that the server waits with. `Open` goes by the state of
the intermediary: before it reads, nothing of the question is anywhere else; while it waits,
it holds this question and no other, and what the lookup process has or has written is
about it (`Looked`, and `Named` between the length and the name); while it sends, the lookup
process has nothing to say (`Unasked`), though it may have exited or been replaced. When the
intermediary is dead only what it has sent matters: the whole answer, the length without the
name, or nothing (`Whole`, `Half`, `Nothing`). Between two questions `Quiet` leaves nothing
that could be taken for an answer to the next one. The invariant is needed because one late
word in a pipe would answer the wrong question: it shows that `restart_lookup()`, which makes
new pipes, and the order in which each process reads all of an answer rule it out.
There is one lemma for each step of each process.

`AInv` is about `name_lookup()`: the suspended tasks are in the order they were numbered, each
with a descriptor of its own (`Queued`); the slots that are not free are theirs, one each
(`Registered`); the children are theirs, and a child that has exited has written all or
nothing (`Parented`, `Child`), which is why the server does not panic; and the round over the
descriptors keeps to slots that there are, since slots are never taken away. That a new
descriptor is free (`FreshIs`) is the pigeonhole principle: as many tasks as there are cannot
have all the numbers up to one more.

`Outputs` is about what is queued for each client. `Balanced` relates five pieces of a handle: the
blocks, their count of bytes, the lines flushed and not yet reported, the lines taken, and what
the client has made of what it got. The blocks have consecutive numbers that begin where the
client and the flushed lines end. `Bytes` is a recursion over the blocks: `BytesAre` is its
definition, and `BytesShift` says that a run of blocks is as many bytes in any queue, from which
follows what writing (`SeenKeeps`, `PartKeeps`), flushing (`FlushKeeps`) and queueing
(`QueueKeeps`) make of the count. `FlushFits` is why `enqueue_output()` may queue its line after
the loop: as much is gone as it needs, or all. The limit is the delicate part. A queue beyond it
is one line that came when `output_length` was 0, and then `output_head` need not be null: on a
binary connection `notify()` may queue lines of no bytes, any number of them. So `Within` says that
one block has all of the bytes, and not that there is one block. The rest of the handlers
leaves the five pieces alone (`QuietFits`).

### Object tree

| theorem | statement |
|---|---|
| `TypeCorrect` | `Spec => []TypeOK` |
| `HierarchiesStayWellFormed` | `Spec => []HierarchiesWellFormed` |
| `RefusedAreBroken` | `Spec => []RefusedIsBroken` |
| `PlayersAreExact` | `Spec => []UsersExact` |

They hold for any number of objects, players and waiting calls (`MaxObjsAssumption`).

The invariant `IInv` says: in a database as read, numbers without an object have no links
(`Fresh`); a database in use has two hierarchies that are `Good` for the valid objects; and no
call waits for a verb before. `Good(S, h)` says that `up` stays in `S`, that every set of
objects of `S` has one whose `up` is outside (`NoLoop`), that the list of each object is a
listing of the objects below it, without repetition (`Listed`), and that the numbers outside
`S` have no links. The last is what makes it inductive: `create()` takes a number over as it
is, and `recycle()` must leave one that can be taken. `S` is a parameter because these
functions and `renumber()` change the set of objects.

* Lists: `Nth` is a function defined by recursion; `NthDef` is its definition (by `Recursion`
  of `InductionFacts`). `ListPassed` says that a loop over a listing passes exactly what is
  listed, and `RemoveList` and `AppendList` what the two macros make of it.
* `RelinkGood` puts them together for `db_change_parent()` and `db_change_location()`: the
  hierarchy stays good if it stays without loops. It does when an object becomes a root
  (`RelinkOut`), goes where a set closed upwards leads that it is not in (`RelinkAway`, the test
  of `chparent()` and of the second part of `move()`), or goes to the place of its parent
  (`RelinkUp`, the children in `recycle()`).
* `RelinkAllGood`: the loop of `recycle()` ends without children, because each round leaves one
  less and there are no more than numbers.
* `RenamedGood`: `renumber()` maps the listing of each object to one with the new number.
* Validation, one way (`PassedIsGood`): if the two-speed loop finds no cycle the walk ends,
  because a walk that does not end repeats itself, by the pigeonhole principle, and the slower
  index meets the faster at a multiple of the period (`CycleIsFound`, `Multiple`); a walk upwards
  that ends leaves no loop (`NoCycleNoLoop`), and a walk of a list that ends repeats nothing.
  With the marks of phase 3 each list is then a listing of what is below. The other way
  (`GoodPasses`): a good hierarchy has no walk that does not end, and its lists hold all that is
  below.
* `WellFormed` speaks of sequences and `Listed` of functions on intervals; `WellFormedIsGood` and
  `GoodIsWellFormed` translate.

`MoveAccepted` and `RecycleGoesOn` need nothing about what the verb did: each tests again
what it relies on, and the invariant holds whatever is true of the numbers kept meanwhile.

### Properties

| theorem | property | statement |
|---|---|---|
| `TypeCorrect` | `TypeOK` | `Spec => []TypeOK` |
| `ValuesInStep` | `SlotsMatch` | `Spec => []SlotsMatch`: as many values as definitions on the way up |
| `NamesStayUnique` | `NamesUnique` | `Spec => []NamesUnique`: no name twice on the way from an object up |
| `SearchesEnd` | `ClearEnds` | `Spec => []ClearEnds`: a search for the value of a clear property meets one |
| `GrandparentsAccept` | `GrandparentAccepts` | `Spec => []GrandparentAccepts`: no grandparent refuses a child, so that the loop of `bf_recycle()` ends |
| `MovesKeepValues` | `Reparenting` | `Spec => Reparenting`: a change of parent keeps every value that stays, and what it adds is clear |

They hold for any set of objects, players, names and definitions, under the assumptions of
`Properties` (`ObjsAssumption`, `BoundsAssumption` and the others stated beside the constants).

What is hard about `db_properties.c` is that values are found by position alone. The
definitions of an object are, in order, those it introduces and then those of its parent, and
slot `i` of `propval` belongs to the `i`-th of them; every operation that changes a
definition or a parent must shift the slots of every object below. The invariant `IInv` says so:
there is a function `D` from objects to sequences of definitions such that `D[x]` is what `x`
introduces followed by `D` of its parent (`Aligned`), no two of `D[x]` have one name (`Unique`),
the values of `x` are those of `D[x]`, one each and in order (`Matches`), and those of what `x`
introduces are not clear (`Valued`). `Sane` is that as an operator of definitions, parents, owners and
values, and not of the variables, because the code changes them in several steps and the middle
states must be spoken of.

* The recursions over the tree: `Downwards` and `TreeRecursion` (a property that goes from parent
  to child holds of every object; a function can be defined that way), from them `DefsExist`,
  and what the recursive functions of the model are in terms of `D` (`DefsOfIs`, `PathIs`,
  `PositionsIs`, `FixPropsIs`).
* Change of a parent: where two paths part (`Common`, `Locals`), what `dbpriv_fix_properties_after_chparent()`
  makes of the slots (`ChangeParentIs`, `MoveIs`), that they match again (`MovedMatches`), and that
  the test before it, which looks for a name both on the new way up and below, is enough
  for `Unique` (`ChparentNames`).
* `recycle()`: the children go up one by one (`ChildrenAscend`), and what is left of the object
  has no definition that anyone meets (`Erased`); `renumber()` carries `D` over (`Renumbered`).
* A definition more or less: all slots below it shift by one (`Around`, `IsInsert`, `InsertInside`),
  which keeps the invariant (`GrownSane`, `ShrunkSane`); a new name does (`RenamedSane`).
* An edit of one slot reaches the slot of the definition that was found (`SlotFound`), and one can
  be made clear only below its definition (`ClearPropIInv`).
* `GrandparentAccepts` follows from `IInv` as it is: if the parent of the recycled
  object had a name that one of its children introduces, that child would have the name twice.
* `MovesKeepValues` needs one thing more, that no two definitions of the database have one mark
  (`MarksApart`, invariant with `IInv` as `Marked`): the property finds a value by the mark of
  its definition and the code by its place. That the marks on the way up differ
  (`MarksOfPath`) makes both the same slot, and what only the new parent has and what only the
  old one had are defined on different objects (`FromDiffer`), so nothing that
  stays is taken for new (`RefitKeeps`).

### Induction

The library's induction theorems take a predicate as parameter, which no
installed prover can instantiate. `InductionFacts` states what the proofs
need with sets: every inhabited set of naturals has a least element, a set with 0
that is closed under successor holds every natural (`NatClosed`), and a function on
`0 .. n` can be defined by recursion (`Recursion`). The facts of
`TaskQueueProofs` about lists built by recursion (what `write_task_queue()` and a
restart make of the queues), those of `ConnectionsProofs` about queued blocks, the walks along the
lists of `ObjectTreeProofs` and the maximum of `CheckpointProofs` rest on them.

### Only model-checked

* Liveness: `EventuallyRun`, `ReaderReleased`, `ShutdownCompletes` and the other
  properties under fairness.
* `Connections`: `InputSplit`, where a fold over a text agrees with a definition by the number of
  characters in its parts, and that nobody waits for ever (deadlock).
* `Commands`: `FoundIsMeant`. The module extends `DatabaseFile`, for the server reads and
  writes the database it runs, and values there are `RECURSIVE` operators; the walk through verbs
  and the cache in `Verbs` are not.
* The compiler, its inverse and the reference interpreter are `RECURSIVE` operators over
  trees, for TLC alone, and so are values in `DatabaseFile`.

## Not modelled

* Virtual machine: floating-point numbers; the bytecode that gives up references
  early (`BYTECODE_REDUCE_REF`) and reference counts at all; variables of programs
  that older versions saved (`reorder_rt_env()`); a resumed built-in function that
  suspends again from `unwind_stack()`; most built-in functions.
* Compiler: error messages, comments, the layout of a listing, names of older
  versions of the language, the disassembler.
* Connections: emergency mode, the command line, keep-alive and intrinsic
  options, registered file descriptors other than those of lookups, other networks.
* Commands: output delimiters (`PREFIX`, `SUFFIX`), `$name` in `.program`,
  prepositions and verbs given by number, upper case, aliases that change with a
  parent otherwise than at `create()`.
* Database: digits of numbers and other formatting, `dbio_scanf()`, files of older
  versions, `UNFORKED_CHECKPOINTS`.
* Permission checks, except those of tasks and of properties in the virtual
  machine: the caller is one who passes them.
* The list of timers; file handles and FUP; regular expressions, MD5, XML; logging.

## Plan

What is left to be proved:

1. `Verbs`: that every cached entry is what an uncached lookup finds. The values in `DatabaseFile`
   have to be written without `RECURSIVE` first, or the cache stated apart from it;
2. `RestartKeeps`, which needs the same of values.

To be modelled after that: the list of timers, file handles, and several tasks of
`Execute` under `TaskScheduler`.
