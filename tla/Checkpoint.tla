----------------------------- MODULE Checkpoint -----------------------------
(***************************************************************************)
(* How the in-memory database gets to disk: the checkpoint part of          *)
(* main_loop() (server.c), dump_database() (db_file.c) with its forked       *)
(* checkpointer processes, the SIGCHLD handler, shutdown and panic dumps,   *)
(* crashes at any point, and the restart.                                   *)
(*                                                                         *)
(* The database is a version number.  Process 0 is the server itself, when  *)
(* it dumps; process i > 0 is the i-th checkpointer it forked.              *)
(***************************************************************************)
EXTENDS Integers, FiniteSets, FiniteSetsExt

CONSTANTS MaxVersion,   \* bound: changes to the database
          MaxGen,       \* bound: dump_generation
          Faults,       \* which calls may fail: "fork", "open", "write" (the
                        \* error is noticed), "flush" (it is not)
          Mooctl        \* TRUE: restarts use the mooctl script

Gens == 0 .. MaxGen
Procs == 0 .. MaxGen
ABSENT == -1
PARTIAL == -2           \* an empty or incomplete file
Contents == {ABSENT, PARTIAL} \cup 0 .. MaxVersion

ASSUME BoundsAssumption == MaxVersion \in Nat /\ MaxGen \in Nat \ {0}
ASSUME FaultsAssumption ==
  /\ Faults \subseteq {"fork", "open", "write", "flush"}
  /\ Mooctl \in BOOLEAN

VARIABLES
  phase,                 \* where the server is in main_loop()
  shutdown_message,      \* TRUE: it is set
  mem,                   \* the database in memory
  dump_generation,
  checkpoint_requested,
  checkpoint_finished,   \* 0, or 1 + success
  checkpoint_pid,
  forks,                 \* checkpointers forked so far
  proc,                  \* what each process does in dump_database()
  input_db, dump_db, old_db, panic_db,   \* files
  temp,                  \* the files dump_db_name.#g#
  \* What happened, for the properties only:
  saved,                 \* newest version whose dump was reported complete
  torn,                  \* the last dump to take the dump file's place was cut
                         \* off by a flush that failed
  overlapped             \* a dump began while a checkpointer ran

files == <<input_db, dump_db, old_db, panic_db, temp>>
loop == <<shutdown_message, checkpoint_requested, checkpoint_finished,
          checkpoint_pid, forks>>
history == <<saved, torn, overlapped>>
vars == <<phase, mem, dump_generation, loop, proc, files, history>>

Reasons == {"SHUTDOWN", "CHECKPOINT", "PANIC"}
Idle == [pc |-> "none", reason |-> "CHECKPOINT", gen |-> 0, snap |-> 0]
ProcStates == [pc : {"none", "open", "write", "remove", "rename", "exit0",
                     "exit1", "retry"},
               reason : Reasons, gen : Gens, snap : 0 .. MaxVersion]

Up == phase \in {"top", "started", "forked", "check", "notifying", "rest"}
Alive(i) == proc[i].pc # "none"
Quiet == \A i \in Procs : ~Alive(i)
Exists(f) == f # ABSENT
Complete(f) == f >= 0

-----------------------------------------------------------------------------
(* main_loop() *)

\* Tasks and verbs change the database whenever MOO code may run.
Modify ==
  /\ phase \in {"rest", "started", "notifying"}
  /\ mem < MaxVersion
  /\ mem' = mem + 1
  /\ UNCHANGED <<phase, dump_generation, loop, proc, files, history>>

\* The timer, SIGUSR2, or dump_database().
RequestCheckpoint ==
  /\ Up /\ ~checkpoint_requested
  /\ checkpoint_requested' = TRUE
  /\ UNCHANGED <<phase, mem, dump_generation, shutdown_message,
                 checkpoint_finished, checkpoint_pid, forks, proc, files,
                 history>>

\* SIGINT, SIGTERM or SIGUSR1, or shutdown(): the loop will end.
RequestShutdown ==
  /\ Up /\ ~shutdown_message
  /\ shutdown_message' = TRUE
  /\ UNCHANGED <<phase, mem, dump_generation, checkpoint_requested,
                 checkpoint_finished, checkpoint_pid, forks, proc, files,
                 history>>

\* A request: #0:checkpoint_started() runs.  (The bound leaves a generation
\* for the dump at shutdown.)
StartCheckpoint ==
  /\ phase = "top" /\ ~shutdown_message /\ checkpoint_requested
  /\ dump_generation < MaxGen - 1
  /\ checkpoint_requested' = FALSE
  /\ phase' = "started"
  /\ UNCHANGED <<mem, dump_generation, shutdown_message, checkpoint_finished,
                 checkpoint_pid, forks, proc, files, history>>

NoCheckpoint ==
  /\ phase = "top" /\ ~shutdown_message
  /\ ~checkpoint_requested \/ dump_generation >= MaxGen - 1
  /\ phase' = "check"
  /\ UNCHANGED <<mem, dump_generation, loop, proc, files, history>>

\* History: dump_database() begins.  Nothing in the code keeps it from doing so
\* while a checkpointer runs.
NoteOverlap ==
  overlapped' = (overlapped \/ \E i \in Procs \ {0} : Alive(i))

\* dump_database(DUMP_CHECKPOINT) up to the fork.
ForkCheckpointer ==
  /\ phase = "started"
  /\ temp' = [temp EXCEPT ![dump_generation] = ABSENT]
  /\ dump_generation' = dump_generation + 1
  /\ NoteOverlap
  /\ \/ /\ forks' = forks + 1
        /\ proc' = [proc EXCEPT ![forks + 1] =
                      [pc |-> "open", reason |-> "CHECKPOINT",
                       gen |-> dump_generation + 1, snap |-> mem]]
        /\ phase' = "forked"
     \/ /\ "fork" \in Faults             \* checkpoint_finished(0)
        /\ phase' = "check"
        /\ UNCHANGED <<forks, proc>>
  /\ UNCHANGED <<mem, shutdown_message, checkpoint_requested,
                 checkpoint_finished, checkpoint_pid, input_db, dump_db,
                 old_db, panic_db, saved, torn>>

\* fork_server() stores the child's pid after fork() has returned.
AssignPid ==
  /\ phase = "forked"
  /\ checkpoint_pid' = forks
  /\ phase' = "check"
  /\ UNCHANGED <<mem, dump_generation, shutdown_message, checkpoint_requested,
                 checkpoint_finished, forks, proc, files, history>>

\* The flag set by the SIGCHLD handler: #0:checkpoint_finished() runs.
CheckFinished ==
  /\ phase = "check"
  /\ phase' = IF checkpoint_finished # 0 THEN "notifying" ELSE "rest"
  /\ UNCHANGED <<mem, dump_generation, loop, proc, files, history>>

ClearFinished ==
  /\ phase = "notifying"
  /\ checkpoint_finished' = 0
  /\ phase' = "rest"
  /\ UNCHANGED <<mem, dump_generation, shutdown_message, checkpoint_requested,
                 checkpoint_pid, forks, proc, files, history>>

\* Network input and one run of run_ready_tasks().
LoopAgain ==
  /\ phase = "rest"
  /\ phase' = "top"
  /\ UNCHANGED <<mem, dump_generation, loop, proc, files, history>>

\* The head of dump_database(): remove the previous temporary file, and take
\* the next name unless this is a panic dump.
DumpHead(reason) ==
  LET g == IF reason = "PANIC" THEN dump_generation ELSE dump_generation + 1
  IN /\ g <= MaxGen
     /\ temp' = [temp EXCEPT ![dump_generation] = ABSENT]
     /\ dump_generation' = g
     /\ NoteOverlap
     /\ proc' = [proc EXCEPT ![0] = [pc |-> "open", reason |-> reason,
                                     gen |-> g, snap |-> mem]]

\* A shutdown message ends the loop; panic() interrupts it anywhere.
StopServer(reason) ==
  /\ \/ reason = "SHUTDOWN" /\ phase = "top" /\ shutdown_message
     \/ reason = "PANIC" /\ Up
  /\ DumpHead(reason)
  /\ phase' = "dumping"
  /\ UNCHANGED <<mem, loop, input_db, dump_db, old_db, panic_db, saved, torn>>

-----------------------------------------------------------------------------
(* dump_database() after the fork, in process i *)

At(i, pc) == proc[i].pc = pc
Goto(i, pc) == proc' = [proc EXCEPT ![i].pc = pc]
IsPanic(i) == proc[i].reason = "PANIC"
FileOf(i) == IF IsPanic(i) THEN panic_db ELSE temp[proc[i].gen]
SetFile(i, c) ==
  IF IsPanic(i) THEN panic_db' = c /\ UNCHANGED temp
  ELSE temp' = [temp EXCEPT ![proc[i].gen] = c] /\ UNCHANGED panic_db

\* Mutant of DumpOpen: the old dump is removed before the new one is written.
DumpOpenRemoves(i) ==
  /\ At(i, "open")
  /\ Goto(i, "write") /\ SetFile(i, PARTIAL)
  /\ dump_db' = IF IsPanic(i) THEN dump_db ELSE ABSENT
  /\ UNCHANGED <<phase, mem, dump_generation, loop, input_db, old_db, history>>

DumpOpen(i) ==
  /\ At(i, "open")
  /\ \/ Goto(i, "write") /\ SetFile(i, PARTIAL)
     \/ /\ "open" \in Faults
        /\ Goto(i, "exit1")
        /\ UNCHANGED <<temp, panic_db>>
  /\ UNCHANGED <<phase, mem, dump_generation, loop, input_db, dump_db, old_db,
                 history>>

\* write_db_file() succeeds, and so do fflush(), fsync() and fclose().  If the
\* file was unlinked meanwhile, what is written goes nowhere.
DumpWrite(i) ==
  /\ At(i, "write")
  /\ Goto(i, IF IsPanic(i) THEN "exit0" ELSE "remove")
  /\ SetFile(i, IF Exists(FileOf(i)) THEN proc[i].snap ELSE ABSENT)
  /\ UNCHANGED <<phase, mem, dump_generation, loop, input_db, dump_db, old_db,
                 history>>

\* write_db_file() succeeds, but the disk is full, or fails, when the last
\* buffers are flushed: the file is cut off, no result is looked at, and the
\* dump goes on as if it were whole.
DumpFlushFails(i) ==
  /\ At(i, "write") /\ "flush" \in Faults
  /\ Goto(i, IF IsPanic(i) THEN "exit0" ELSE "remove")
  /\ UNCHANGED <<phase, mem, dump_generation, loop, files, history>>

\* Mutant of DumpWriteFails: nothing is retried.
DumpWriteFailsAbandoned(i) ==
  /\ At(i, "write") /\ "write" \in Faults
  /\ Goto(i, "exit1")
  /\ SetFile(i, ABSENT)
  /\ UNCHANGED <<phase, mem, dump_generation, loop, input_db, dump_db, old_db,
                 history>>

\* A write fails inside write_db_file(), which notices: a checkpoint is
\* abandoned, the other dumps are retried.
DumpWriteFails(i) ==
  /\ At(i, "write") /\ "write" \in Faults
  /\ i = 0 => dump_generation < MaxGen
  /\ Goto(i, IF i = 0 THEN "retry" ELSE "exit1")
  /\ SetFile(i, ABSENT)
  /\ UNCHANGED <<phase, mem, dump_generation, loop, input_db, dump_db, old_db,
                 history>>

\* Mutant of DumpRetry: only a panic dump is retried.
DumpRetryPanic ==
  /\ At(0, "retry") /\ IsPanic(0)
  /\ DumpHead(proc[0].reason)
  /\ UNCHANGED <<phase, mem, loop, input_db, dump_db, old_db, panic_db, saved,
                 torn>>

DumpRetry ==
  /\ At(0, "retry")
  /\ DumpHead(proc[0].reason)
  /\ UNCHANGED <<phase, mem, loop, input_db, dump_db, old_db, panic_db, saved,
                 torn>>

DumpRemove(i) ==
  /\ At(i, "remove")
  /\ dump_db' = ABSENT
  /\ Goto(i, "rename")
  /\ torn' = (torn \/ FileOf(i) = PARTIAL)
  /\ UNCHANGED <<phase, mem, dump_generation, loop, input_db, old_db, panic_db,
                 temp, saved, overlapped>>

\* History: a whole dump, by a process that is alone, that is as new as all
\* those reported makes up for what earlier dumps lost.
MakesGood(i) ==
  /\ FileOf(i) = proc[i].snap /\ proc[i].snap >= saved
  /\ \A j \in Procs \ {i} : ~Alive(j)

\* rename() fails when the temporary file is gone.
DumpRename(i) ==
  /\ At(i, "rename")
  /\ IF Exists(FileOf(i))
     THEN dump_db' = FileOf(i) /\ SetFile(i, ABSENT) /\ Goto(i, "exit0")
     ELSE UNCHANGED <<dump_db, temp, panic_db>> /\ Goto(i, "exit1")
  /\ torn' = (torn /\ ~MakesGood(i))
  /\ overlapped' = (overlapped /\ ~MakesGood(i))
  /\ UNCHANGED <<phase, mem, dump_generation, loop, input_db, old_db, saved>>

Newest(i) == IF proc[i].snap > saved THEN proc[i].snap ELSE saved

\* (status == 0) + 1
FinishedCode(i) == IF At(i, "exit0") THEN 2 ELSE 1

\* The checkpointer exits; child_completed_signal() runs in the server.
ChildExit(i) ==
  /\ i # 0 /\ (At(i, "exit0") \/ At(i, "exit1"))
  /\ proc' = [proc EXCEPT ![i] = Idle]
  /\ saved' = IF At(i, "exit0") THEN Newest(i) ELSE saved
  /\ checkpoint_finished' = IF i = checkpoint_pid /\ phase # "down"
                            THEN FinishedCode(i)
                            ELSE checkpoint_finished
  /\ UNCHANGED <<phase, mem, dump_generation, shutdown_message,
                 checkpoint_requested, checkpoint_pid, forks, files, torn,
                 overlapped>>

\* panic() in a checkpointer: it tells the server to shut down, with SIGUSR1,
\* and exits with status 1 where it stands.
ChildPanic(i) ==
  /\ i # 0 /\ (At(i, "open") \/ At(i, "write"))
  /\ Goto(i, "exit1")
  /\ shutdown_message' = (shutdown_message \/ Up)
  /\ UNCHANGED <<phase, mem, dump_generation, checkpoint_requested,
                 checkpoint_finished, checkpoint_pid, forks, files, history>>

\* The server's own dump is done and it exits, or aborts after a panic.
ServerExit ==
  /\ At(0, "exit0") \/ At(0, "exit1")
  /\ proc' = [proc EXCEPT ![0] = Idle]
  /\ saved' = IF At(0, "exit0") /\ ~IsPanic(0) THEN Newest(0) ELSE saved
  /\ phase' = "down"
  /\ UNCHANGED <<mem, dump_generation, loop, files, torn, overlapped>>

-----------------------------------------------------------------------------
(* Crashes and restarts *)

\* The machine goes down, or only the server process is killed.
Crash(all) ==
  /\ phase # "down"
  /\ phase' = "down"
  /\ proc' = [i \in Procs |-> IF all \/ i = 0 THEN Idle ELSE proc[i]]
  /\ UNCHANGED <<mem, dump_generation, loop, files, history>>

Candidates == {input_db, dump_db} \cup {temp[g] : g \in Gens}
Best(S) == Max({c \in S : Complete(c)} \cup {PARTIAL})

\* The files the server finds: mooctl moves the dump file, if it exists,
\* over the input file; otherwise the operator starts from the newest
\* complete file.
Install ==
  IF Mooctl
  THEN IF Exists(dump_db)
       THEN input_db' = dump_db /\ old_db' = input_db /\ dump_db' = PARTIAL
       ELSE UNCHANGED <<input_db, old_db>> /\ dump_db' = PARTIAL
  ELSE /\ input_db' = Best(Candidates)
       /\ old_db' = input_db
       /\ dump_db' = PARTIAL

\* The server starts.  db_initialize() opens the dump file for appending,
\* which leaves an empty file there; db_load() exits unless the input file is
\* a complete database.  (History: what an earlier life lost stays lost, and
\* the new one is held to what it was started from.)
Doubtful == torn \/ overlapped

Restart ==
  /\ phase = "down" /\ Quiet
  /\ Install
  /\ phase' = IF Complete(input_db') THEN "top" ELSE "down"
  /\ mem' = IF Complete(input_db') THEN input_db' ELSE mem
  /\ dump_generation' = 0
  /\ shutdown_message' = FALSE
  /\ checkpoint_requested' = FALSE
  /\ checkpoint_finished' = 0
  /\ checkpoint_pid' = 0
  /\ forks' = 0
  /\ saved' = IF Doubtful /\ Complete(input_db') THEN input_db' ELSE saved
  /\ torn' = (torn /\ ~Complete(input_db'))
  /\ overlapped' = (overlapped /\ ~Complete(input_db'))
  /\ UNCHANGED <<proc, panic_db, temp>>

Init ==
  /\ phase = "top" /\ mem = 0
  /\ dump_generation = 0
  /\ shutdown_message = FALSE
  /\ checkpoint_requested = FALSE
  /\ checkpoint_finished = 0
  /\ checkpoint_pid = 0
  /\ forks = 0
  /\ proc = [i \in Procs |-> Idle]
  /\ input_db = 0 /\ dump_db = PARTIAL
  /\ old_db = ABSENT /\ panic_db = ABSENT
  /\ temp = [g \in Gens |-> ABSENT]
  /\ saved = 0 /\ torn = FALSE /\ overlapped = FALSE

LoopStep ==
  \/ StartCheckpoint \/ NoCheckpoint \/ ForkCheckpointer \/ AssignPid
  \/ CheckFinished \/ ClearFinished \/ LoopAgain

DumpStep(i) ==
  \/ DumpOpen(i) \/ DumpWrite(i) \/ DumpRemove(i) \/ DumpRename(i)
  \/ ChildExit(i)

Next ==
  \/ Modify \/ RequestCheckpoint \/ RequestShutdown \/ LoopStep
  \/ \E r \in {"SHUTDOWN", "PANIC"} : StopServer(r)
  \/ \E i \in Procs : DumpStep(i) \/ DumpWriteFails(i) \/ DumpFlushFails(i)
                       \/ ChildPanic(i)
  \/ DumpRetry \/ ServerExit
  \/ \E all \in BOOLEAN : Crash(all)
  \/ Restart

Spec == Init /\ [][Next]_vars

\* The loop and the dumps make progress, and the disk does not fill up again
\* on every retry.
FairSpec ==
  /\ Spec
  /\ WF_vars(LoopStep) /\ WF_vars(StopServer("SHUTDOWN"))
  /\ WF_vars(DumpRetry) /\ WF_vars(ServerExit)
  /\ WF_vars(\E i \in Procs : DumpStep(i)) /\ SF_vars(DumpWrite(0))

-----------------------------------------------------------------------------
(* Properties *)

\* Types.
TypeOK ==
  /\ phase \in {"top", "started", "forked", "check", "notifying", "rest",
                "dumping", "down"}
  /\ mem \in 0 .. MaxVersion /\ saved \in 0 .. MaxVersion
  /\ dump_generation \in Gens /\ forks \in Procs
  /\ shutdown_message \in BOOLEAN /\ torn \in BOOLEAN
  /\ overlapped \in BOOLEAN
  /\ checkpoint_requested \in BOOLEAN /\ checkpoint_finished \in 0 .. 2
  /\ checkpoint_pid \in Procs
  /\ proc \in [Procs -> ProcStates]
  /\ {input_db, dump_db, old_db, panic_db} \subseteq Contents
  /\ temp \in [Gens -> Contents]

\* Whenever the machine stops, a complete database at least as new as the
\* last dump that was reported complete is in the input file, the dump file
\* or a temporary dump file: also between remove() and rename(), whatever
\* opens, forks and writes fail.  It takes that no dump began while a
\* checkpointer ran, and that no unchecked flush has cut off the last dump.
SafeToCrash == ~Doubtful => Best(Candidates) >= saved

\* "The server is careful to dump the database just before shutting down":
\* a server that exits by itself leaves the database it had in the dump file,
\* unless its last flush failed or a checkpointer was at work on the files.
ShutdownDumps ==
  [][phase = "dumping" /\ phase' = "down" /\ proc[0].reason = "SHUTDOWN"
       /\ proc[0].pc \in {"exit0", "exit1"}
       => Doubtful \/ dump_db' = mem]_vars

\* What the server says with no such condition.  A database that was reported
\* dumped stays on disk, although checkpoints are asked for at any time.
ReportedIsKept == Best(Candidates) >= saved

\* "success is true if and only if the checkpoint was successfully written on
\* the disk": a checkpointer that exits with status 0, with no other at work
\* on the files, has left its snapshot in the dump file.
SuccessIsWritten ==
  \A i \in Procs \ {0} :
    At(i, "exit0") /\ ~overlapped => dump_db = proc[i].snap

\* A server told to shut down, by a signal or by a checkpointer that panics,
\* gets through its loop, its dump and the retries of a dump that meets a
\* full disk, and stops; and so does one that panics.
ShutdownCompletes ==
  (phase = "dumping" \/ (Up /\ shutdown_message)) ~> (phase = "down")
=============================================================================
