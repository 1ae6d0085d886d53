-------------------------- MODULE CheckpointProofs --------------------------
(***************************************************************************)
(* Proofs about module Checkpoint, for every number of versions and dumps. *)
(***************************************************************************)
EXTENDS Checkpoint, InductionFacts

-----------------------------------------------------------------------------
(* Types *)

Flags ==
  /\ shutdown_message \in BOOLEAN /\ checkpoint_requested \in BOOLEAN
  /\ torn \in BOOLEAN /\ overlapped \in BOOLEAN

\* TypeOK without the flags, and what keeps the counters in their bounds.
Typed ==
  /\ phase \in {"top", "started", "forked", "check", "notifying", "rest",
                "dumping", "down"}
  /\ mem \in 0 .. MaxVersion /\ saved \in 0 .. MaxVersion
  /\ dump_generation \in Gens /\ forks \in Procs
  /\ checkpoint_finished \in 0 .. 2 /\ checkpoint_pid \in Procs
  /\ proc \in [Procs -> ProcStates]
  /\ input_db \in Contents /\ dump_db \in Contents
  /\ old_db \in Contents /\ panic_db \in Contents
  /\ temp \in [Gens -> Contents]
  /\ forks <= dump_generation
  /\ phase = "started" => dump_generation < MaxGen

\* The server is in dump_database() exactly when it has left its loop to dump.
Busy == phase = "dumping" <=> Alive(0)

Pcs == {"none", "open", "write", "remove", "rename", "exit0", "exit1", "retry"}

USE BoundsAssumption

\* The kinds of a file's contents, and what an idle process is.
LEMMA Sorts ==
  /\ ABSENT \in Contents /\ PARTIAL \in Contents
  /\ 0 .. MaxVersion \subseteq Contents /\ Contents \subseteq Int
  /\ Idle \in ProcStates
  BY DEF ABSENT, PARTIAL, Contents, Idle, ProcStates, Gens, Reasons

\* The newest complete file of S, or PARTIAL if there is none.
LEMMA BestIsNewest ==
  ASSUME NEW S \in SUBSET Contents
  PROVE  /\ Best(S) \in S \cup {PARTIAL}
         /\ Best(S) \in Contents
         /\ \A c \in S : Complete(c) => Best(S) >= c
<1> DEFINE T == {c \in S : Complete(c)} \cup {PARTIAL}
<1>1. T \in SUBSET Int /\ T # {} /\ T \subseteq S \cup {PARTIAL}
  <2>1. S \cup {PARTIAL} \subseteq Int
    BY Sorts
  <2> QED  BY <2>1
<1>2. MaxVersion \in Int /\ \A x \in T : x <= MaxVersion
  BY DEF Complete, Contents, ABSENT, PARTIAL
<1>3. \E x \in T : \A y \in T : x >= y
  <2> HIDE DEF T
  <2> QED  BY <1>1, <1>2, Greatest
<1>4. Max(T) \in T /\ \A y \in T : Max(T) >= y
  <2> HIDE DEF T
  <2> QED  BY <1>3 DEF Max
<1>5. Best(S) = Max(T)
  BY DEF Best
<1>6. Best(S) \in S \cup {PARTIAL}
  BY <1>1, <1>4, <1>5
<1> QED  BY <1>4, <1>5, <1>6, Sorts

\* The fields of a process.
LEMMA ProcFields ==
  ASSUME NEW p \in ProcStates
  PROVE  p.gen \in Gens /\ p.snap \in 0 .. MaxVersion
  BY DEF ProcStates

\* What Goto changes.
LEMMA GotoIs ==
  ASSUME proc \in [Procs -> ProcStates], NEW i \in Procs, NEW v \in Pcs,
         Goto(i, v)
  PROVE  /\ proc' \in [Procs -> ProcStates]
         /\ proc'[i] = [pc |-> v, reason |-> proc[i].reason,
                        gen |-> proc[i].gen, snap |-> proc[i].snap]
         /\ \A j \in Procs : j # i => proc'[j] = proc[j]
<1> DEFINE q == [proc[i] EXCEPT !.pc = v]
<1>1. proc[i] \in ProcStates
  OBVIOUS
<1>2. q = [pc |-> v, reason |-> proc[i].reason, gen |-> proc[i].gen,
           snap |-> proc[i].snap]
  BY <1>1 DEF ProcStates
<1>3. q \in ProcStates
  BY <1>1 DEF ProcStates, Pcs
<1>4. proc' = [proc EXCEPT ![i] = q]
  BY DEF Goto
<1> HIDE DEF q
<1> QED  BY <1>2, <1>3, <1>4

\* A process that goes on stays alive, and wakes no other.
LEMMA GotoAlive ==
  ASSUME proc \in [Procs -> ProcStates], NEW i \in Procs,
         NEW v \in Pcs, v # "none", Goto(i, v), Alive(i)
  PROVE  \A j \in Procs : Alive(j)' <=> Alive(j)
<1>1. /\ proc'[i].pc = v
      /\ \A j \in Procs : j # i => proc'[j] = proc[j]
  <2>1. /\ proc'[i] = [pc |-> v, reason |-> proc[i].reason,
                       gen |-> proc[i].gen, snap |-> proc[i].snap]
        /\ \A j \in Procs : j # i => proc'[j] = proc[j]
    BY GotoIs
  <2> QED  BY <2>1
<1>2. ASSUME NEW j \in Procs PROVE Alive(j)' <=> Alive(j)
  <2>1. CASE j = i
    <3>1. Alive(j)' /\ Alive(j)
      BY <1>1, <2>1 DEF Alive
    <3> QED  BY <3>1
  <2>2. CASE j # i
    <3>1. proc'[j] = proc[j]
      BY <1>1, <2>2
    <3> QED  BY <3>1 DEF Alive
  <2> QED  BY <2>1, <2>2
<1> QED  BY <1>2

\* What SetFile leaves.
LEMMA SetFileTyped ==
  ASSUME Typed, NEW i \in Procs, NEW c \in Contents, SetFile(i, c)
  PROVE  temp' \in [Gens -> Contents] /\ panic_db' \in Contents
  BY DEF SetFile, Typed

\* What the head of dump_database() leaves.
LEMMA DumpHeadTyped ==
  ASSUME Typed, NEW r \in Reasons, DumpHead(r)
  PROVE  /\ dump_generation' \in Gens /\ dump_generation' >= dump_generation
         /\ temp' \in [Gens -> Contents]
         /\ proc' \in [Procs -> ProcStates]
<1> DEFINE g == IF r = "PANIC" THEN dump_generation ELSE dump_generation + 1
           p == [pc |-> "open", reason |-> r, gen |-> g, snap |-> mem]
<1>1. g \in Gens /\ g >= dump_generation
  BY DEF DumpHead, Typed, Gens
<1>2. p \in ProcStates
  BY <1>1 DEF Typed, ProcStates
<1>3. /\ dump_generation' = g
      /\ temp' = [temp EXCEPT ![dump_generation] = ABSENT]
      /\ proc' = [proc EXCEPT ![0] = p]
  BY DEF DumpHead
<1> HIDE DEF g, p
<1> QED  BY <1>1, <1>2, <1>3, Sorts DEF Typed

\* The invariants of the flags hold at the start.
LEMMA TypeInit == Init => Typed /\ Busy /\ Flags
<1>1. Init => Typed
  BY Sorts DEF Init, Typed, Procs, Gens
<1>2. Init => Flags
  BY DEF Init, Flags
<1>3. Init => Busy
  BY DEF Init, Busy, Alive, Procs, Idle
<1> QED  BY <1>1, <1>2, <1>3

\* The flags stay Booleans.
LEMMA FlagsStep == Flags /\ [Next]_vars => Flags'
  BY DEF Flags, Next, vars, loop, history, LoopStep, DumpStep, Modify,
     RequestCheckpoint, RequestShutdown, StartCheckpoint, NoCheckpoint,
     ForkCheckpointer, NoteOverlap, AssignPid, CheckFinished, ClearFinished,
     LoopAgain, DumpHead, StopServer, DumpOpen, DumpWrite, DumpWriteFails,
     DumpFlushFails, DumpRemove, DumpRename, ChildExit, ChildPanic, DumpRetry,
     ServerExit, Crash, Restart

\* The server process dumps exactly while its loop is in phase "dumping".
LEMMA BusyStep == Typed /\ Busy /\ [Next]_vars => Busy'
<1> SUFFICES ASSUME Typed, Busy, [Next]_vars PROVE Busy'
  OBVIOUS
<1> USE DEF Busy, loop
<1>0. proc \in [Procs -> ProcStates] /\ 0 \in Procs
  BY DEF Typed, Procs
<1>1. CASE \/ Modify \/ RequestCheckpoint \/ RequestShutdown \/ StartCheckpoint
           \/ NoCheckpoint \/ AssignPid \/ ClearFinished \/ LoopAgain
           \/ CheckFinished
  BY <1>1 DEF Modify, RequestCheckpoint, RequestShutdown, StartCheckpoint,
     NoCheckpoint, AssignPid, CheckFinished, ClearFinished, LoopAgain, Alive
<1>2. CASE ForkCheckpointer
  <2>1. forks \in Nat /\ forks + 1 # 0
    BY DEF Typed, Procs
  <2>2. proc'[0] = proc[0]
    BY <1>0, <1>2, <2>1 DEF ForkCheckpointer
  <2> QED  BY <1>2, <2>2 DEF ForkCheckpointer, Alive
<1>3. CASE DumpRetry \/ \E r \in {"SHUTDOWN", "PANIC"} : StopServer(r)
  <2>1. phase' = "dumping"
    BY <1>0, <1>3 DEF DumpRetry, StopServer, At, Alive
  <2>2. PICK r \in Reasons : DumpHead(r)
    <3>1. proc[0].reason \in Reasons
      BY <1>0 DEF ProcStates
    <3> QED  BY <1>3, <3>1 DEF DumpRetry, StopServer, Reasons
  <2>3. proc'[0].pc = "open"
    BY <1>0, <2>2 DEF DumpHead
  <2> QED  BY <2>1, <2>3 DEF Alive
<1>4. ASSUME NEW i \in Procs, DumpStep(i) \/ DumpWriteFails(i)
                              \/ DumpFlushFails(i) \/ ChildPanic(i)
      PROVE  Busy'
  <2>1. CASE ChildExit(i)
    BY <1>0, <2>1 DEF ChildExit, Alive
  <2>2. CASE ~ChildExit(i)
    <3>1. \E v \in Pcs : v # "none" /\ Goto(i, v)
      BY <1>4, <2>2 DEF DumpStep, DumpOpen, DumpWrite, DumpWriteFails,
         DumpFlushFails, DumpRemove, DumpRename, ChildPanic, Pcs
    <3>2. Alive(i) /\ phase' = phase
      BY <1>4, <2>2 DEF DumpStep, DumpOpen, DumpWrite, DumpWriteFails,
         DumpFlushFails, DumpRemove, DumpRename, ChildPanic, At, Alive
    <3> QED  BY <1>0, <3>1, <3>2, GotoAlive
  <2> QED  BY <2>1, <2>2
<1>5. CASE ServerExit \/ \E all \in BOOLEAN : Crash(all)
  BY <1>0, <1>5 DEF ServerExit, Crash, Alive, Idle
<1>6. CASE Restart
  BY <1>6 DEF Restart, Quiet, Alive, Procs
<1>7. CASE UNCHANGED vars
  BY <1>7 DEF vars, Alive
<1> QED  BY <1>1, <1>2, <1>3, <1>4, <1>5, <1>6, <1>7 DEF Next, LoopStep

\* Every step keeps the types.
LEMMA TypedStep == Typed /\ Busy /\ [Next]_vars => Typed'
<1> SUFFICES ASSUME Typed, Busy, [Next]_vars PROVE Typed'
  OBVIOUS
<1> USE DEF Typed, files, loop, history
<1>1. CASE Modify  BY <1>1 DEF Modify
<1>2. CASE RequestCheckpoint  BY <1>2 DEF RequestCheckpoint
<1>3. CASE RequestShutdown  BY <1>3 DEF RequestShutdown
<1>4. CASE StartCheckpoint
  <2>1. phase' = "started" /\ dump_generation < MaxGen
    BY <1>4 DEF StartCheckpoint, Gens
  <2> QED  BY <1>4, <2>1 DEF StartCheckpoint
<1>5. CASE NoCheckpoint  BY <1>5 DEF NoCheckpoint
<1>6. CASE ForkCheckpointer
  <2> DEFINE p == [pc |-> "open", reason |-> "CHECKPOINT",
                   gen |-> dump_generation + 1, snap |-> mem]
  <2>1. dump_generation + 1 \in Gens
    BY <1>6 DEF ForkCheckpointer, Gens
  <2>2. p \in ProcStates
    BY <2>1 DEF ProcStates, Reasons
  <2>3. forks' \in Procs /\ forks' <= dump_generation'
    BY <1>6, <2>1 DEF ForkCheckpointer, Procs, Gens
  <2>4. proc' = [proc EXCEPT ![forks + 1] = p] \/ proc' = proc
    BY <1>6 DEF ForkCheckpointer
  <2> HIDE DEF p
  <2>5. proc' \in [Procs -> ProcStates]
    BY <2>2, <2>4
  <2>6. temp' \in [Gens -> Contents]
    BY <1>6, Sorts DEF ForkCheckpointer
  <2> QED  BY <1>6, <2>1, <2>3, <2>5, <2>6 DEF ForkCheckpointer
<1>7. CASE AssignPid  BY <1>7 DEF AssignPid
<1>8. CASE CheckFinished
  <2>1. phase' = "notifying" \/ phase' = "rest"
    BY <1>8 DEF CheckFinished
  <2> QED  BY <1>8, <2>1 DEF CheckFinished
<1>9. CASE ClearFinished  BY <1>9 DEF ClearFinished
<1>10. CASE LoopAgain  BY <1>10 DEF LoopAgain
<1>11. ASSUME NEW r \in {"SHUTDOWN", "PANIC"}, StopServer(r) PROVE Typed'
  <2>1. r \in Reasons /\ DumpHead(r)
    BY <1>11 DEF StopServer, Reasons
  <2> QED  BY <1>11, <2>1, DumpHeadTyped DEF StopServer, Gens, Procs
<1>12. ASSUME NEW i \in Procs, DumpOpen(i) PROVE Typed'
  <2>1. proc' \in [Procs -> ProcStates]
    BY <1>12, GotoIs DEF DumpOpen, Pcs
  <2>2. temp' \in [Gens -> Contents] /\ panic_db' \in Contents
    BY <1>12, SetFileTyped, Sorts DEF DumpOpen
  <2> QED  BY <1>12, <2>1, <2>2 DEF DumpOpen
<1>13. ASSUME NEW i \in Procs, DumpWrite(i) PROVE Typed'
  <2>1. proc' \in [Procs -> ProcStates]
    BY <1>13, GotoIs DEF DumpWrite, Pcs
  <2>2. temp' \in [Gens -> Contents] /\ panic_db' \in Contents
    <3>1. (IF Exists(FileOf(i)) THEN proc[i].snap ELSE ABSENT) \in Contents
      BY Sorts, ProcFields
    <3> QED  BY <1>13, <3>1, SetFileTyped DEF DumpWrite
  <2> QED  BY <1>13, <2>1, <2>2 DEF DumpWrite
<1>14. ASSUME NEW i \in Procs, DumpWriteFails(i) PROVE Typed'
  <2>1. proc' \in [Procs -> ProcStates]
    BY <1>14, GotoIs DEF DumpWriteFails, Pcs
  <2>2. temp' \in [Gens -> Contents] /\ panic_db' \in Contents
    BY <1>14, SetFileTyped, Sorts DEF DumpWriteFails
  <2> QED  BY <1>14, <2>1, <2>2 DEF DumpWriteFails
<1>14a. ASSUME NEW i \in Procs, DumpFlushFails(i) PROVE Typed'
  <2>1. proc' \in [Procs -> ProcStates]
    BY <1>14a, GotoIs DEF DumpFlushFails, Pcs
  <2> QED  BY <1>14a, <2>1 DEF DumpFlushFails
<1>15. ASSUME NEW i \in Procs, DumpRemove(i) PROVE Typed'
  <2>1. proc' \in [Procs -> ProcStates]
    BY <1>15, GotoIs DEF DumpRemove, Pcs
  <2> QED  BY <1>15, <2>1, Sorts DEF DumpRemove
<1>16. ASSUME NEW i \in Procs, DumpRename(i) PROVE Typed'
  <2>1. proc' \in [Procs -> ProcStates]
    BY <1>16, GotoIs DEF DumpRename, Pcs
  <2>2. temp' \in [Gens -> Contents] /\ panic_db' \in Contents
    BY <1>16, SetFileTyped, Sorts DEF DumpRename
  <2>3. FileOf(i) \in Contents
    BY ProcFields DEF FileOf
  <2> QED  BY <1>16, <2>1, <2>2, <2>3 DEF DumpRename
<1>17. ASSUME NEW i \in Procs, ChildExit(i) PROVE Typed'
  <2>1. Newest(i) \in 0 .. MaxVersion
    BY ProcFields DEF Newest
  <2>2. FinishedCode(i) \in 0 .. 2
    BY DEF FinishedCode
  <2> QED  BY <1>17, <2>1, <2>2, Sorts DEF ChildExit
<1>18. ASSUME NEW i \in Procs, ChildPanic(i) PROVE Typed'
  <2>1. proc' \in [Procs -> ProcStates]
    BY <1>18, GotoIs DEF ChildPanic, Pcs
  <2> QED  BY <1>18, <2>1 DEF ChildPanic
<1>19. CASE DumpRetry
  <2>1. proc[0].reason \in Reasons
    BY DEF Procs, ProcStates
  <2>2. DumpHead(proc[0].reason)
    BY <1>19 DEF DumpRetry
  <2> QED  BY <1>19, <2>1, <2>2, DumpHeadTyped DEF DumpRetry, Gens, Procs, At, Busy, Alive
<1>20. CASE ServerExit
  <2>1. Newest(0) \in 0 .. MaxVersion
    BY ProcFields DEF Newest, Procs
  <2>2. proc' \in [Procs -> ProcStates]
    BY <1>20, Sorts DEF ServerExit
  <2>3. saved' \in 0 .. MaxVersion
    BY <1>20, <2>1 DEF ServerExit
  <2>4. /\ phase' = "down"
        /\ UNCHANGED <<mem, dump_generation, forks, checkpoint_finished,
                       checkpoint_pid, files>>
    BY <1>20 DEF ServerExit
  <2> QED  BY <2>2, <2>3, <2>4
<1>21. ASSUME NEW all \in BOOLEAN, Crash(all) PROVE Typed'
  <2>1. proc' \in [Procs -> ProcStates]
    BY <1>21, Sorts DEF Crash
  <2> QED  BY <1>21, <2>1 DEF Crash
<1>22. CASE Restart
  <2>1. Candidates \in SUBSET Contents
    BY DEF Candidates
  <2>2. /\ input_db' \in Contents /\ dump_db' \in Contents
        /\ old_db' \in Contents
    BY <1>22, <2>1, BestIsNewest, Sorts DEF Restart, Install
  <2>3. mem' \in 0 .. MaxVersion /\ saved' \in 0 .. MaxVersion
    BY <1>22, <2>2 DEF Restart, Complete, Contents, ABSENT, PARTIAL
  <2> QED  BY <1>22, <2>2, <2>3 DEF Restart, Gens, Procs
<1>23. CASE UNCHANGED vars  BY <1>23 DEF vars
<1> QED  BY <1>1, <1>2, <1>3, <1>4, <1>5, <1>6, <1>7, <1>8, <1>9, <1>10,
            <1>11, <1>12, <1>13, <1>14, <1>15, <1>16, <1>17, <1>18, <1>19,
            <1>20, <1>21, <1>22, <1>23, <1>14a DEF Next, LoopStep, DumpStep

-----------------------------------------------------------------------------
(* What holds whichever dumps overlap *)

\* A process in dump_database(): it dumps a world that existed, and only the
\* server's own process retries.
Known(i) ==
  /\ proc[i].snap <= mem
  /\ i = 0 => proc[i].reason \in {"SHUTDOWN", "PANIC"} /\ proc[i].snap = mem
  /\ i # 0 => proc[i].reason = "CHECKPOINT" /\ ~At(i, "retry")

\* The world in memory is at least as new as what was reported dumped.
Kept == mem >= saved /\ \A i \in Procs : Alive(i) => Known(i)

-----------------------------------------------------------------------------
(* What holds when no dump has begun while a checkpointer ran *)

\* One process at a time is in dump_database().
Solo == \A i, j \in Procs : Alive(i) /\ Alive(j) => i = j

\* What a process in dump_database() has done: its snapshot is in the
\* temporary file when it removes the old dump file, and in the dump file
\* when it exits well, or else a flush has failed and the file is cut off.
ProcOK(i) ==
  /\ saved <= proc[i].snap
  /\ At(i, "write") => FileOf(i) = PARTIAL
  /\ At(i, "remove") \/ At(i, "rename") =>
       /\ ~IsPanic(i)
       /\ \/ FileOf(i) = proc[i].snap
          \/ FileOf(i) = PARTIAL /\ (At(i, "rename") => torn)
  /\ At(i, "exit0") /\ ~IsPanic(i) => torn \/ dump_db = proc[i].snap
  /\ i = 0 /\ At(i, "exit1") => "open" \in Faults

ProcsOK == \A i \in Procs : Alive(i) => ProcOK(i)

\* Where the last complete dump is: in the input or the dump file, except
\* between remove() and rename(), and after a crash there.
Held == torn \/ input_db >= saved \/ dump_db >= saved

Anchor ==
  \/ Held
  \/ \E i \in Procs : At(i, "rename")
  \/ phase = "down" /\ Quiet /\ \E g \in Gens : temp[g] >= saved

Safe == Solo /\ ProcsOK /\ Anchor

\* A database is on disk at the start.
LEMMA SafeInit == Init => Kept /\ Safe
<1> SUFFICES ASSUME Init PROVE Kept /\ Safe
  OBVIOUS
<1>1. \A i \in Procs : ~Alive(i)
  BY DEF Init, Alive, Idle
<1>2. Solo /\ ProcsOK
  BY <1>1 DEF Solo, ProcsOK
<1>3. Anchor /\ mem >= saved
  BY DEF Init, Anchor, Held
<1> QED  BY <1>1, <1>2, <1>3 DEF Safe, Kept

\* Only the process that writes holds the last complete dump alone, and only
\* between remove() and rename().
LEMMA AnchorOutside ==
  ASSUME Typed, Safe, NEW i \in Procs, Alive(i), ~At(i, "rename")
  PROVE  Held
<1>1. \A j \in Procs : ~At(j, "rename")
  BY DEF Safe, Solo, Alive, At
<1>2. ~Quiet
  BY DEF Quiet
<1> QED  BY <1>1, <1>2 DEF Safe, Anchor

\* The steps of main_loop() outside dump_database().
LoopOnly ==
  \/ Modify \/ RequestCheckpoint \/ RequestShutdown \/ StartCheckpoint
  \/ NoCheckpoint \/ AssignPid \/ CheckFinished \/ ClearFinished \/ LoopAgain

\* What they do: they touch no dump, and the world only grows.
LEMMA LoopIs ==
  ASSUME Typed, LoopOnly
  PROVE  /\ UNCHANGED <<proc, files, history, dump_generation>>
         /\ mem' \in Int /\ mem' >= mem /\ (phase = "dumping" => mem' = mem)
         /\ phase # "down"
  BY DEF LoopOnly, Modify, RequestCheckpoint, RequestShutdown,
     StartCheckpoint, NoCheckpoint, AssignPid, CheckFinished, ClearFinished,
     LoopAgain, Typed, Up, loop

\* The steps of main_loop() keep both parts.
LEMMA KeptLoop ==
  ASSUME Typed, Busy, Kept, LoopOnly
  PROVE  Kept'
<1>1. /\ proc' = proc /\ saved' = saved /\ mem' \in Int /\ mem' >= mem
      /\ phase = "dumping" => mem' = mem
  BY LoopIs DEF history
<1>2. ASSUME NEW i \in Procs, Alive(i)' PROVE Known(i)'
  <2>1. Alive(i) /\ Known(i)
    BY <1>1, <1>2 DEF Alive, Kept
  <2>2. i = 0 => mem' = mem
    BY <1>1, <2>1 DEF Busy
  <2>3. proc[i].snap \in Int /\ mem \in Int
    BY ProcFields DEF Typed
  <2> QED  BY <1>1, <2>1, <2>2, <2>3 DEF Known, At
<1> QED  BY <1>1, <1>2 DEF Kept, Typed

LEMMA SafeLoop ==
  ASSUME Typed, Safe, LoopOnly
  PROVE  Safe'
<1>1. UNCHANGED <<proc, files, history, dump_generation>> /\ phase # "down"
  BY LoopIs
<1>2. Solo'
  BY <1>1 DEF Safe, Solo, Alive
<1>3. ASSUME NEW i \in Procs, Alive(i)' PROVE ProcOK(i)'
  <2>1. Alive(i) /\ ProcOK(i)
    BY <1>1, <1>3 DEF Alive, Safe, ProcsOK
  <2> QED  BY <1>1, <2>1 DEF ProcOK, At, IsPanic, FileOf, files, history
<1>4. Anchor'
  BY <1>1 DEF Safe, Anchor, Held, At, files, history
<1> QED  BY <1>2, <1>3, <1>4 DEF Safe, ProcsOK

\* The head of dump_database() in the server's own process, when the loop has
\* ended or in a retry.
LEMMA KeptHead ==
  ASSUME Typed, Kept, NEW r \in {"SHUTDOWN", "PANIC"}, DumpHead(r),
         UNCHANGED <<mem, saved>>
  PROVE  Kept'
<1> DEFINE g == IF r = "PANIC" THEN dump_generation ELSE dump_generation + 1
           p == [pc |-> "open", reason |-> r, gen |-> g, snap |-> mem]
<1>1. proc' = [proc EXCEPT ![0] = p]
  BY DEF DumpHead
<1>2. p.pc = "open" /\ p.reason = r /\ p.snap = mem
  OBVIOUS
<1> HIDE DEF p, g
<1>3. 0 \in Procs /\ proc \in [Procs -> ProcStates] /\ mem \in Int
  BY DEF Procs, Typed
<1>4. proc'[0] = p /\ \A j \in Procs : j # 0 => proc'[j] = proc[j]
  BY <1>1, <1>3
<1>5. ASSUME NEW i \in Procs, Alive(i)' PROVE Known(i)'
  <2>1. CASE i = 0
    BY <1>2, <1>3, <1>4, <2>1 DEF Known
  <2>2. CASE i # 0
    <3>1. Alive(i) /\ Known(i) /\ proc'[i] = proc[i]
      BY <1>4, <1>5, <2>2 DEF Alive, Kept
    <3> QED  BY <2>2, <3>1 DEF Known, At
  <2> QED  BY <2>1, <2>2
<1> QED  BY <1>5 DEF Kept

LEMMA SafeHead ==
  ASSUME Typed, Kept, Safe, NEW r \in {"SHUTDOWN", "PANIC"}, DumpHead(r),
         ~overlapped', ~Alive(0) \/ At(0, "retry"), phase # "down",
         UNCHANGED <<mem, input_db, dump_db, saved, torn>>
  PROVE  Safe'
<1> DEFINE g == IF r = "PANIC" THEN dump_generation ELSE dump_generation + 1
           p == [pc |-> "open", reason |-> r, gen |-> g, snap |-> mem]
<1>1. proc' = [proc EXCEPT ![0] = p]
  BY DEF DumpHead
<1>2. p.pc = "open" /\ p.reason = r /\ p.snap = mem
  OBVIOUS
<1> HIDE DEF p, g
<1>3. 0 \in Procs /\ proc \in [Procs -> ProcStates]
  BY DEF Procs, Typed
<1>4. \A j \in Procs : j # 0 => ~Alive(j) /\ proc'[j] = proc[j]
  BY <1>1, <1>3 DEF DumpHead, NoteOverlap
<1>5. proc'[0] = p
  BY <1>1, <1>3
<1>6. Solo'
  BY <1>4 DEF Solo, Alive
<1>7. ASSUME NEW i \in Procs, Alive(i)' PROVE ProcOK(i)'
  <2>1. i = 0
    BY <1>4, <1>7 DEF Alive
  <2>2. At(0, "open")'
    BY <1>2, <1>5 DEF At
  <2>3. saved <= mem /\ saved \in Int /\ mem \in Int
    BY DEF Kept, Typed
  <2> QED  BY <1>2, <1>5, <2>1, <2>2, <2>3 DEF ProcOK, At
<1>8. Held
  <2>1. CASE ~Alive(0)
    <3>1. \A i \in Procs : ~At(i, "rename")
      BY <1>4, <2>1 DEF Alive, At
    <3> QED  BY <3>1 DEF Safe, Anchor
  <2>2. CASE At(0, "retry")
    <3>1. Alive(0) /\ ~At(0, "rename")
      BY <2>2 DEF Alive, At
    <3> QED  BY <1>3, <3>1, AnchorOutside
  <2> QED  BY <2>1, <2>2
<1>9. Anchor'
  BY <1>8 DEF Anchor, Held
<1> QED  BY <1>6, <1>7, <1>9 DEF Safe, ProcsOK

\* A fork starts a dump of the present world, or does nothing.
LEMMA ForkIs ==
  ASSUME Typed, ForkCheckpointer
  PROVE  /\ forks + 1 # 0
         /\ \/ proc' = proc
            \/ \E i \in Procs :
                 /\ i # 0 /\ proc'[i].pc = "open" /\ proc'[i].snap = mem
                 /\ proc'[i].reason = "CHECKPOINT"
                 /\ \A j \in Procs : j # i => proc'[j] = proc[j]
         /\ UNCHANGED <<mem, saved, torn, input_db, dump_db>>
         /\ phase = "started"
<1> DEFINE p == [pc |-> "open", reason |-> "CHECKPOINT",
                 gen |-> dump_generation + 1, snap |-> mem]
<1>1. forks + 1 # 0
  BY DEF Typed, Procs
<1>2. CASE proc' = proc
  BY <1>1, <1>2 DEF ForkCheckpointer
<1>3. CASE proc' = [proc EXCEPT ![forks + 1] = p]
  <2>1. forks + 1 \in Procs
    BY DEF Typed, Procs, ForkCheckpointer, Gens
  <2>2. p.pc = "open" /\ p.reason = "CHECKPOINT" /\ p.snap = mem
    OBVIOUS
  <2> HIDE DEF p
  <2>3. /\ proc'[forks + 1] = p
        /\ \A j \in Procs : j # forks + 1 => proc'[j] = proc[j]
    BY <1>3, <2>1 DEF Typed
  <2> QED  BY <1>1, <2>1, <2>2, <2>3 DEF ForkCheckpointer
<1> QED  BY <1>2, <1>3 DEF ForkCheckpointer

LEMMA KeptFork ==
  ASSUME Typed, Kept, ForkCheckpointer
  PROVE  Kept'
<1>1. UNCHANGED <<mem, saved>> /\ mem \in Int
  BY ForkIs DEF Typed
<1>2. ASSUME NEW j \in Procs, Alive(j)' PROVE Known(j)'
  <2>1. CASE proc'[j] = proc[j]
    <3>1. Known(j)
      BY <1>2, <2>1 DEF Alive, Kept
    <3> QED  BY <1>1, <2>1, <3>1 DEF Known, At
  <2>2. CASE proc'[j] # proc[j]
    <3>1. /\ j # 0 /\ proc'[j].pc = "open" /\ proc'[j].snap = mem
          /\ proc'[j].reason = "CHECKPOINT"
      BY <2>2, ForkIs
    <3> QED  BY <1>1, <3>1 DEF Known, At
  <2> QED  BY <2>1, <2>2
<1> QED  BY <1>1, <1>2 DEF Kept

LEMMA SafeFork ==
  ASSUME Typed, Busy, Kept, Safe, ForkCheckpointer, ~overlapped'
  PROVE  Safe'
<1>1. /\ UNCHANGED <<mem, saved, torn, input_db, dump_db>>
      /\ phase = "started" /\ saved <= mem
  BY ForkIs DEF Kept, Typed
<1>2. \A j \in Procs : ~Alive(j)
  BY <1>1 DEF ForkCheckpointer, NoteOverlap, Busy
<1>3. ASSUME NEW j \in Procs, Alive(j)'
      PROVE  j # 0 /\ proc'[j].pc = "open" /\ proc'[j].snap = mem
             /\ \A i \in Procs : i # j => ~Alive(i)'
  BY <1>2, <1>3, ForkIs DEF Alive
<1>4. Solo'
  BY <1>3 DEF Solo
<1>5. ASSUME NEW i \in Procs, Alive(i)' PROVE ProcOK(i)'
  <2>1. i # 0 /\ proc'[i].pc = "open" /\ proc'[i].snap = mem
    BY <1>3, <1>5
  <2> QED  BY <1>1, <2>1 DEF ProcOK, At
<1>6. Held
  <2>1. \A i \in Procs : ~At(i, "rename")
    BY <1>2 DEF Alive, At
  <2> QED  BY <1>1, <2>1 DEF Safe, Anchor
<1>7. Anchor'
  BY <1>1, <1>6 DEF Anchor, Held
<1> QED  BY <1>4, <1>5, <1>7 DEF Safe, ProcsOK

\* A step of process i in dump_database() changes its place only.
LEMMA KeptGoto ==
  ASSUME Typed, Kept, NEW i \in Procs, Alive(i), NEW v \in Pcs, v # "none",
         v = "retry" => i = 0, Goto(i, v), UNCHANGED <<mem, saved>>
  PROVE  Kept'
<1>1. /\ proc'[i] = [pc |-> v, reason |-> proc[i].reason,
                     gen |-> proc[i].gen, snap |-> proc[i].snap]
      /\ \A j \in Procs : j # i => proc'[j] = proc[j]
  BY GotoIs DEF Typed
<1>2. ASSUME NEW j \in Procs, Alive(j)' PROVE Known(j)'
  <2>1. CASE j = i
    <3>1. /\ proc'[i].pc = v /\ proc'[i].reason = proc[i].reason
          /\ proc'[i].snap = proc[i].snap
      BY <1>1
    <3>2. Known(i)
      BY DEF Kept
    <3> QED  BY <2>1, <3>1, <3>2 DEF Known, At
  <2>2. CASE j # i
    <3>1. Alive(j) /\ Known(j) /\ proc'[j] = proc[j]
      BY <1>1, <1>2, <2>2 DEF Alive, Kept
    <3> QED  BY <3>1 DEF Known, At
  <2> QED  BY <2>1, <2>2
<1> QED  BY <1>2 DEF Kept

\* Nobody else is there, so what the process leaves of itself and of the
\* anchor is all there is to show.
LEMMA SafeGoto ==
  ASSUME Typed, Safe, NEW i \in Procs, Alive(i), NEW v \in Pcs, v # "none",
         Goto(i, v), ProcOK(i)', Anchor'
  PROVE  Safe'
<1>1. \A j \in Procs : Alive(j)' <=> Alive(j)
  BY GotoAlive DEF Typed
<1>2. Solo'
  BY <1>1 DEF Safe, Solo
<1>3. ProcsOK'
  BY <1>1 DEF Safe, Solo, ProcsOK
<1> QED  BY <1>2, <1>3 DEF Safe

\* What a process finds that is at one of the places in dump_database().
LEMMA ProcAt ==
  ASSUME Typed, Kept, Safe, NEW i \in Procs, NEW v \in Pcs, v # "none",
         At(i, v)
  PROVE  /\ Alive(i) /\ ProcOK(i) /\ Known(i)
         /\ proc[i].gen \in Gens /\ proc[i].snap \in 0 .. MaxVersion
         /\ saved \in Int /\ mem \in Int
         /\ v # "rename" => Held
<1>1. Alive(i)
  BY DEF Alive, At
<1>2. ProcOK(i) /\ Known(i)
  BY <1>1 DEF Safe, ProcsOK, Kept
<1>3. v # "rename" => ~At(i, "rename")
  BY DEF At
<1>4. /\ proc[i].gen \in Gens /\ proc[i].snap \in 0 .. MaxVersion
      /\ saved \in Int /\ mem \in Int
  BY ProcFields DEF Typed
<1> QED  BY <1>1, <1>2, <1>3, <1>4, AnchorOutside

\* Opening the temporary file loses no complete dump.
LEMMA SafeOpen ==
  ASSUME Typed, Kept, Safe, NEW i \in Procs, DumpOpen(i)
  PROVE  Safe'
<1>1. At(i, "open") /\ "open" \in Pcs /\ "open" # "none"
  BY DEF DumpOpen, Pcs
<1>2. /\ Alive(i) /\ ProcOK(i) /\ Held
      /\ proc[i].gen \in Gens /\ proc[i].snap \in 0 .. MaxVersion
  BY <1>1, ProcAt
<1>3. PICK v \in {"write", "exit1"} :
        /\ Goto(i, v) /\ (v = "write" => SetFile(i, PARTIAL))
        /\ v = "exit1" => "open" \in Faults
  BY DEF DumpOpen
<1>4. v \in Pcs /\ v # "none"
  BY DEF Pcs
<1>5. proc'[i] = [pc |-> v, reason |-> proc[i].reason, gen |-> proc[i].gen,
                  snap |-> proc[i].snap]
  BY <1>3, <1>4, GotoIs DEF Typed
<1>6. UNCHANGED <<saved, torn, input_db, dump_db>>
  BY DEF DumpOpen, history
<1>7. ProcOK(i)'
  <2>1. v = "write" => FileOf(i)' = PARTIAL
    BY <1>2, <1>3, <1>5 DEF FileOf, SetFile, IsPanic, Typed
  <2>2. proc'[i].snap = proc[i].snap /\ proc'[i].pc = v
    BY <1>5
  <2> QED  BY <1>2, <1>3, <1>6, <2>1, <2>2 DEF ProcOK, At
<1>8. Anchor'
  BY <1>2, <1>6 DEF Anchor, Held
<1> QED  BY <1>2, <1>3, <1>4, <1>7, <1>8, SafeGoto

\* Writing replaces the temporary file, or the panic dump, only; so it is when
\* the last flush fails unnoticed.
LEMMA SafeWrite ==
  ASSUME Typed, Kept, Safe, NEW i \in Procs, DumpWrite(i) \/ DumpFlushFails(i)
  PROVE  Safe'
<1> DEFINE v == IF IsPanic(i) THEN "exit0" ELSE "remove"
<1>1. At(i, "write") /\ "write" \in Pcs /\ "write" # "none"
  BY DEF DumpWrite, DumpFlushFails, Pcs
<1>2. /\ Alive(i) /\ ProcOK(i) /\ Held
      /\ proc[i].gen \in Gens /\ proc[i].snap \in 0 .. MaxVersion
  BY <1>1, ProcAt
<1>3. v \in Pcs /\ v # "none" /\ Goto(i, v)
  BY DEF DumpWrite, DumpFlushFails, Pcs
<1>4. (IsPanic(i) => v = "exit0") /\ (~IsPanic(i) => v = "remove")
  OBVIOUS
<1>5. UNCHANGED <<saved, torn, input_db, dump_db>>
  BY DEF DumpWrite, DumpFlushFails, history, files
<1>6. ~IsPanic(i) => \/ temp'[proc[i].gen] = proc[i].snap
                     \/ temp'[proc[i].gen] = PARTIAL
  <2>1. Exists(FileOf(i)) /\ FileOf(i) = PARTIAL
    BY <1>1, <1>2 DEF ProcOK, Exists, ABSENT, PARTIAL
  <2>2. CASE DumpWrite(i)
    BY <1>2, <2>1, <2>2 DEF DumpWrite, SetFile, Typed
  <2>3. CASE DumpFlushFails(i)
    BY <2>1, <2>3 DEF DumpFlushFails, files, FileOf
  <2> QED  BY <2>2, <2>3
<1> HIDE DEF v
<1>7. /\ proc'[i].gen = proc[i].gen /\ proc'[i].snap = proc[i].snap
      /\ proc'[i].reason = proc[i].reason /\ proc'[i].pc = v
  <2>1. proc'[i] = [pc |-> v, reason |-> proc[i].reason,
                    gen |-> proc[i].gen, snap |-> proc[i].snap]
    BY <1>3, GotoIs DEF Typed
  <2> QED  BY <2>1
<1>8. ProcOK(i)'
  BY <1>2, <1>4, <1>5, <1>6, <1>7 DEF ProcOK, At, IsPanic, FileOf
<1>9. Anchor'
  BY <1>2, <1>5 DEF Anchor, Held
<1> QED  BY <1>2, <1>3, <1>8, <1>9, SafeGoto

\* A write that fails leaves the last complete dump in place.
LEMMA SafeWriteFails ==
  ASSUME Typed, Kept, Safe, NEW i \in Procs, DumpWriteFails(i)
  PROVE  Safe'
<1> DEFINE v == IF i = 0 THEN "retry" ELSE "exit1"
<1>1. At(i, "write") /\ "write" \in Pcs /\ "write" # "none"
  BY DEF DumpWriteFails, Pcs
<1>2. Alive(i) /\ ProcOK(i) /\ Held
  BY <1>1, ProcAt
<1>3. v \in Pcs /\ v # "none" /\ Goto(i, v)
  BY DEF DumpWriteFails, Pcs
<1>4. IF i = 0 THEN v = "retry" ELSE v = "exit1"
  OBVIOUS
<1>5. UNCHANGED <<saved, torn, input_db, dump_db>>
  BY DEF DumpWriteFails, history
<1> HIDE DEF v
<1>6. proc'[i] = [pc |-> v, reason |-> proc[i].reason, gen |-> proc[i].gen,
                  snap |-> proc[i].snap]
  BY <1>3, GotoIs DEF Typed
<1>7. ProcOK(i)'
  <2>1. proc'[i].snap = proc[i].snap /\ proc'[i].pc = v
    BY <1>6
  <2> QED  BY <1>2, <1>4, <1>5, <2>1 DEF ProcOK, At
<1>8. Anchor'
  BY <1>2, <1>5 DEF Anchor, Held
<1> QED  BY <1>2, <1>3, <1>7, <1>8, SafeGoto

\* The old dump file goes; the new one is complete in the temporary file, or
\* has been cut off, which is noted.
LEMMA SafeRemove ==
  ASSUME Typed, Kept, Safe, NEW i \in Procs, DumpRemove(i)
  PROVE  Safe'
<1>1. At(i, "remove") /\ "remove" \in Pcs /\ "remove" # "none"
  BY DEF DumpRemove, Pcs
<1>2. Alive(i) /\ ProcOK(i)
  BY <1>1, ProcAt
<1>3. Goto(i, "rename") /\ "rename" \in Pcs /\ "rename" # "none"
  BY DEF DumpRemove, Pcs
<1>4. /\ UNCHANGED <<saved, temp, panic_db>>
      /\ torn' = (torn \/ FileOf(i) = PARTIAL)
  BY DEF DumpRemove
<1>5. proc'[i] = [pc |-> "rename", reason |-> proc[i].reason,
                  gen |-> proc[i].gen, snap |-> proc[i].snap]
  BY <1>3, GotoIs DEF Typed
<1>6. ProcOK(i)'
  <2>1. /\ proc'[i].gen = proc[i].gen /\ proc'[i].snap = proc[i].snap
        /\ proc'[i].reason = proc[i].reason /\ proc'[i].pc = "rename"
    BY <1>5
  <2>2. FileOf(i)' = FileOf(i)
    BY <1>4, <2>1 DEF FileOf, IsPanic
  <2> QED  BY <1>1, <1>2, <1>4, <2>1, <2>2 DEF ProcOK, At, IsPanic
<1>7. Anchor'
  BY <1>5 DEF Anchor, At
<1> QED  BY <1>2, <1>3, <1>6, <1>7, SafeGoto

\* A dump that makes good starts the account anew, whatever went before.
LEMMA SafeHeal ==
  ASSUME Typed, NEW i \in Procs, DumpRename(i), MakesGood(i)
  PROVE  Safe'
<1>1. /\ FileOf(i) = proc[i].snap /\ proc[i].snap >= saved
      /\ \A j \in Procs : j # i => ~Alive(j)
      /\ proc[i].snap \in 0 .. MaxVersion
  BY ProcFields DEF MakesGood, Typed
<1>2. dump_db' = proc[i].snap /\ Goto(i, "exit0") /\ saved' = saved
  BY <1>1 DEF DumpRename, Exists, ABSENT
<1>3. /\ proc'[i].snap = proc[i].snap /\ proc'[i].pc = "exit0"
      /\ \A j \in Procs : j # i => proc'[j] = proc[j]
  <2>1. /\ proc'[i] = [pc |-> "exit0", reason |-> proc[i].reason,
                       gen |-> proc[i].gen, snap |-> proc[i].snap]
        /\ \A j \in Procs : j # i => proc'[j] = proc[j]
    BY <1>2, GotoIs DEF Typed, Pcs
  <2> QED  BY <2>1
<1>4. Solo'
  BY <1>1, <1>3 DEF Solo, Alive
<1>5. saved \in Int
  BY DEF Typed
<1>6. ProcOK(i)'
  BY <1>1, <1>2, <1>3, <1>5 DEF ProcOK, At
<1>7. ProcsOK'
  BY <1>1, <1>3, <1>6 DEF ProcsOK, Alive
<1>8. Anchor'
  BY <1>1, <1>2 DEF Anchor, Held
<1> QED  BY <1>4, <1>7, <1>8 DEF Safe

\* rename() finds the temporary file, since nobody else runs; if it was cut
\* off the dump file is so now.
LEMMA SafeRename ==
  ASSUME Typed, Kept, Safe, NEW i \in Procs, DumpRename(i)
  PROVE  Safe'
<1>1. At(i, "rename") /\ "rename" \in Pcs /\ "rename" # "none"
  BY DEF DumpRename, Pcs
<1>2. /\ Alive(i) /\ ProcOK(i)
      /\ proc[i].gen \in Gens /\ proc[i].snap \in 0 .. MaxVersion
      /\ saved \in Int /\ mem \in Int
  BY <1>1, ProcAt
<1>3. CASE MakesGood(i)
  BY <1>3, SafeHeal
<1>4. CASE ~MakesGood(i)
  <2>1. \A j \in Procs : j # i => ~Alive(j)
    BY <1>2 DEF Safe, Solo
  <2>2. FileOf(i) = PARTIAL /\ torn
    BY <1>1, <1>2, <1>4, <2>1 DEF ProcOK, MakesGood
  <2>3. /\ Goto(i, "exit0") /\ "exit0" \in Pcs /\ "exit0" # "none"
        /\ torn' /\ saved' = saved
    <3>1. Exists(FileOf(i))
      BY <2>2 DEF Exists, ABSENT, PARTIAL
    <3>2. torn'
      BY <1>4, <2>2 DEF DumpRename
    <3> QED  BY <3>1, <3>2 DEF DumpRename, Pcs
  <2>4. proc'[i] = [pc |-> "exit0", reason |-> proc[i].reason,
                    gen |-> proc[i].gen, snap |-> proc[i].snap]
    BY <2>3, GotoIs DEF Typed
  <2>5. proc'[i].pc = "exit0" /\ proc'[i].snap = proc[i].snap
    BY <2>4
  <2>6. ProcOK(i)'
    BY <1>2, <2>3, <2>5 DEF ProcOK, At
  <2>7. Anchor'
    BY <2>3 DEF Anchor, Held
  <2> QED  BY <1>2, <2>3, <2>6, <2>7, SafeGoto
<1> QED  BY <1>3, <1>4

\* A child that panics leaves the files as they are.
LEMMA SafeChildPanic ==
  ASSUME Typed, Kept, Safe, NEW i \in Procs, ChildPanic(i)
  PROVE  Safe'
<1>1. PICK u \in {"open", "write"} : At(i, u)
  BY DEF ChildPanic
<1>2. u \in Pcs /\ u # "none" /\ u # "rename"
  BY DEF Pcs
<1>3. Alive(i) /\ ProcOK(i) /\ Held
  BY <1>1, <1>2, ProcAt
<1>4. i # 0 /\ Goto(i, "exit1") /\ "exit1" \in Pcs /\ "exit1" # "none"
  BY DEF ChildPanic, Pcs
<1>5. UNCHANGED <<saved, torn, input_db, dump_db>>
  BY DEF ChildPanic, files, history
<1>6. proc'[i] = [pc |-> "exit1", reason |-> proc[i].reason,
                  gen |-> proc[i].gen, snap |-> proc[i].snap]
  BY <1>4, GotoIs DEF Typed
<1>7. ProcOK(i)'
  <2>1. proc'[i].snap = proc[i].snap /\ proc'[i].pc = "exit1"
    BY <1>6
  <2> QED  BY <1>3, <1>4, <1>5, <2>1 DEF ProcOK, At
<1>8. Anchor'
  BY <1>3, <1>5 DEF Anchor, Held
<1> QED  BY <1>3, <1>4, <1>7, <1>8, SafeGoto

\* A process that ends: what it reports is no newer than the world.
LEMMA KeptExit ==
  ASSUME Typed, Kept, NEW i \in Procs, Alive(i),
         proc' = [proc EXCEPT ![i] = Idle], mem' = mem,
         saved' = saved \/ saved' = Newest(i)
  PROVE  Kept'
<1>1. /\ proc'[i] = Idle
      /\ \A j \in Procs : j # i => proc'[j] = proc[j]
  BY DEF Typed
<1>2. Known(i) /\ proc[i].snap \in Int /\ saved \in Int /\ mem \in Int
  BY ProcFields DEF Typed, Kept
<1>3. mem' >= saved'
  BY <1>2 DEF Newest, Known, Kept
<1>4. ASSUME NEW j \in Procs, Alive(j)' PROVE Known(j)'
  <2>1. j # i
    BY <1>1, <1>4 DEF Alive, Idle
  <2>2. Alive(j) /\ Known(j) /\ proc'[j] = proc[j]
    BY <1>1, <1>4, <2>1 DEF Alive, Kept
  <2> QED  BY <2>2 DEF Known, At
<1> QED  BY <1>3, <1>4 DEF Kept

\* It leaves its dump in the dump file, and nobody behind.
LEMMA SafeExit ==
  ASSUME Typed, Kept, Safe, NEW i \in Procs, At(i, "exit0") \/ At(i, "exit1"),
         proc' = [proc EXCEPT ![i] = Idle],
         saved' = saved \/ (/\ At(i, "exit0") /\ ~IsPanic(i)
                            /\ saved' = Newest(i)),
         UNCHANGED <<torn, input_db, dump_db>>
  PROVE  Safe'
<1>1. PICK u \in {"exit0", "exit1"} : At(i, u)
  OBVIOUS
<1>2. u \in Pcs /\ u # "none" /\ u # "rename"
  BY DEF Pcs
<1>3. /\ Alive(i) /\ ProcOK(i) /\ proc[i].snap \in 0 .. MaxVersion
      /\ saved \in Int /\ Held
  BY <1>1, <1>2, ProcAt
<1>4. \A j \in Procs : ~Alive(j)'
  <2>1. \A j \in Procs : j # i => ~Alive(j) /\ proc'[j] = proc[j]
    BY <1>3 DEF Safe, Solo, Typed
  <2>2. proc'[i] = Idle
    BY DEF Typed
  <2> QED  BY <2>1, <2>2 DEF Alive, Idle
<1>5. Solo' /\ ProcsOK'
  BY <1>4 DEF Solo, ProcsOK
<1>6. Held'
  <2>1. CASE saved' = saved
    BY <1>3, <2>1 DEF Held
  <2>2. CASE At(i, "exit0") /\ ~IsPanic(i) /\ saved' = Newest(i)
    <3>1. saved' = proc[i].snap
      BY <1>3, <2>2 DEF Newest, ProcOK
    <3>2. torn \/ dump_db' = proc[i].snap
      BY <1>3, <2>2 DEF ProcOK
    <3> QED  BY <1>3, <3>1, <3>2 DEF Held
  <2> QED  BY <2>1, <2>2
<1> QED  BY <1>5, <1>6 DEF Safe, Anchor

\* What a crash leaves: files, history and the checkpointers that survive.
LEMMA CrashIs ==
  ASSUME Typed, NEW all \in BOOLEAN, Crash(all)
  PROVE  /\ phase' = "down" /\ phase # "down"
         /\ UNCHANGED <<mem, input_db, dump_db, panic_db, temp, saved, torn>>
         /\ \A j \in Procs : proc'[j] = Idle \/ proc'[j] = proc[j]
         /\ \A j \in Procs : Alive(j)' => Alive(j) /\ proc'[j] = proc[j]
<1>1. /\ phase' = "down" /\ phase # "down"
      /\ UNCHANGED <<mem, input_db, dump_db, panic_db, temp, saved, torn>>
  BY DEF Crash, files, history
<1>2. \A j \in Procs : proc'[j] = Idle \/ proc'[j] = proc[j]
  BY DEF Crash
<1>3. \A j \in Procs : Alive(j)' => Alive(j) /\ proc'[j] = proc[j]
  BY <1>2 DEF Alive, Idle
<1> QED  BY <1>1, <1>2, <1>3

LEMMA KeptCrash ==
  ASSUME Typed, Kept, NEW all \in BOOLEAN, Crash(all)
  PROVE  Kept'
<1>1. ASSUME NEW i \in Procs, Alive(i)' PROVE Known(i)'
  <2>1. Alive(i) /\ Known(i) /\ proc'[i] = proc[i] /\ mem' = mem
    BY <1>1, CrashIs DEF Kept
  <2> QED  BY <2>1 DEF Known, At
<1> QED  BY <1>1, CrashIs DEF Kept

\* A crash between remove() and rename() leaves the temporary file.
LEMMA SafeCrash ==
  ASSUME Typed, Kept, Safe, NEW all \in BOOLEAN, Crash(all)
  PROVE  Safe'
<1>1. /\ phase' = "down" /\ phase # "down"
      /\ UNCHANGED <<mem, input_db, dump_db, panic_db, temp, saved, torn>>
  BY CrashIs
<1>2. \A j \in Procs : Alive(j)' => Alive(j) /\ proc'[j] = proc[j]
  BY CrashIs
<1>3. Solo'
  BY <1>2 DEF Safe, Solo
<1>4. ASSUME NEW i \in Procs, Alive(i)' PROVE ProcOK(i)'
  <2>1. ProcOK(i) /\ proc'[i] = proc[i]
    BY <1>2, <1>4 DEF Safe, ProcsOK
  <2> QED  BY <1>1, <2>1 DEF ProcOK, At, IsPanic, FileOf
<1>5. Anchor'
  <2>1. CASE Held
    BY <1>1, <2>1 DEF Anchor, Held
  <2>2. CASE ~Held /\ \E i \in Procs : At(i, "rename")
    <3>1. PICK i \in Procs : At(i, "rename")
      BY <2>2
    <3>2. /\ Alive(i) /\ ProcOK(i) /\ proc[i].gen \in Gens
          /\ proc[i].snap \in 0 .. MaxVersion /\ saved \in Int
      BY <3>1, ProcAt DEF Pcs
    <3>3. CASE proc'[i] = proc[i]
      BY <3>1, <3>3 DEF Anchor, At
    <3>4. CASE proc'[i] = Idle
      <4>1. temp[proc[i].gen] >= saved
        BY <2>2, <3>1, <3>2 DEF ProcOK, Held, FileOf
      <4>2. Quiet'
        <5>1. \A j \in Procs : j # i => ~Alive(j)
          BY <3>2 DEF Safe, Solo
        <5> QED  BY <1>2, <3>4, <5>1 DEF Quiet, Alive, Idle
      <4> QED  BY <1>1, <3>2, <4>1, <4>2 DEF Anchor
    <3> QED  BY <3>3, <3>4, CrashIs
  <2> QED  BY <1>1, <2>1, <2>2 DEF Safe, Anchor
<1> QED  BY <1>3, <1>4, <1>5 DEF Safe, ProcsOK

\* The invariant is what crash safety asks for.
LEMMA SafeIsSafe ==
  ASSUME Typed, Kept, Safe, ~torn
  PROVE  Best(Candidates) >= saved
<1>1. Candidates \in SUBSET Contents /\ saved \in Int /\ saved >= 0
  BY DEF Candidates, Typed
<1>2. \E c \in Candidates : c >= saved
  <2>1. CASE Held
    BY <2>1 DEF Candidates, Held
  <2>2. CASE \E g \in Gens : temp[g] >= saved
    BY <2>2 DEF Candidates
  <2>3. CASE \E i \in Procs : At(i, "rename")
    <3>1. PICK i \in Procs : At(i, "rename")
      BY <2>3
    <3>2. /\ ProcOK(i) /\ proc[i].gen \in Gens
          /\ proc[i].snap \in 0 .. MaxVersion
      BY <3>1, ProcAt DEF Pcs
    <3>3. temp[proc[i].gen] >= saved
      BY <1>1, <3>1, <3>2 DEF ProcOK, FileOf
    <3> QED  BY <3>2, <3>3 DEF Candidates
  <2> QED  BY <2>1, <2>2, <2>3 DEF Safe, Anchor
<1>3. PICK c \in Candidates : c >= saved
  BY <1>2
<1>4. c \in Int /\ Complete(c)
  BY <1>1, <1>3, Sorts DEF Complete
<1>5. Best(Candidates) >= c /\ Best(Candidates) \in Int
  BY <1>1, <1>4, BestIsNewest, Sorts
<1> QED  BY <1>1, <1>3, <1>4, <1>5

\* The server starts from the newest complete file.
LEMMA RestartIs ==
  ASSUME Typed, Kept, ~overlapped => Safe, ~Mooctl, Restart
  PROVE  /\ \A j \in Procs : ~Alive(j)'
         /\ input_db' = Best(Candidates) /\ input_db' \in Int
         /\ saved \in Int /\ saved >= 0
         /\ ~Doubtful => input_db' >= saved /\ saved' = saved
<1>1. /\ Quiet /\ proc' = proc /\ input_db' = Best(Candidates)
      /\ ~Doubtful => saved' = saved
  BY DEF Restart, Install
<1>2. \A j \in Procs : ~Alive(j)'
  BY <1>1 DEF Quiet, Alive
<1>3. input_db' \in Int
  <2>1. Candidates \in SUBSET Contents
    BY DEF Candidates, Typed
  <2>2. Best(Candidates) \in Contents
    BY <2>1, BestIsNewest
  <2> QED  BY <1>1, <2>2, Sorts
<1>4. saved \in Int /\ saved >= 0
  BY DEF Typed
<1>5. ~Doubtful => input_db' >= saved
  BY <1>1, SafeIsSafe DEF Doubtful
<1> QED  BY <1>1, <1>2, <1>3, <1>4, <1>5

LEMMA KeptRestart ==
  ASSUME Typed, Kept, ~overlapped => Safe, ~Mooctl, Restart
  PROVE  Kept'
<1>1. /\ \A j \in Procs : ~Alive(j)'
      /\ input_db' \in Int /\ saved \in Int /\ saved >= 0
      /\ ~Doubtful => input_db' >= saved /\ saved' = saved
  BY RestartIs
<1>2. mem' >= saved'
  <2>1. CASE Complete(input_db')
    BY <1>1, <2>1 DEF Restart
  <2>2. CASE ~Complete(input_db')
    BY <1>1, <2>2 DEF Restart, Kept
  <2> QED  BY <2>1, <2>2
<1> QED  BY <1>1, <1>2 DEF Kept

\* What an earlier life lost is forgotten; otherwise nothing is.
LEMMA SafeRestart ==
  ASSUME Typed, Kept, ~overlapped => Safe, ~Mooctl, Restart, ~overlapped'
  PROVE  Safe'
<1>1. /\ \A j \in Procs : ~Alive(j)'
      /\ input_db' \in Int /\ saved \in Int /\ saved >= 0
      /\ ~Doubtful => input_db' >= saved /\ saved' = saved
  BY RestartIs
<1>2. Solo' /\ ProcsOK'
  BY <1>1 DEF Solo, ProcsOK
<1>3. Held'
  <2>1. CASE ~Doubtful
    BY <1>1, <2>1 DEF Held
  <2>2. CASE Doubtful /\ Complete(input_db')
    <3>1. saved' = input_db'
      BY <2>2 DEF Restart
    <3> QED  BY <1>1, <3>1 DEF Held
  <2>3. CASE Doubtful /\ ~Complete(input_db')
    <3>1. torn'
      BY <2>3 DEF Restart, Doubtful
    <3> QED  BY <3>1 DEF Held
  <2> QED  BY <2>1, <2>2, <2>3
<1> QED  BY <1>2, <1>3 DEF Safe, Anchor

\* What the steps of dump_database() have in common, but for the exit.
LEMMA DumpGoes ==
  ASSUME Typed, NEW i \in Procs,
         DumpStep(i) \/ DumpWriteFails(i) \/ DumpFlushFails(i) \/ ChildPanic(i),
         ~ChildExit(i)
  PROVE  /\ Alive(i) /\ UNCHANGED <<mem, saved>>
         /\ \E v \in Pcs : v # "none" /\ (v = "retry" => i = 0) /\ Goto(i, v)
<1>1. Alive(i) /\ UNCHANGED <<mem, saved>>
  BY DEF DumpStep, DumpOpen, DumpWrite, DumpWriteFails, DumpFlushFails,
     DumpRemove, DumpRename, ChildPanic, At, Alive, history
<1>2. \E v \in Pcs : v # "none" /\ (v = "retry" => i = 0) /\ Goto(i, v)
  BY DEF DumpStep, DumpOpen, DumpWrite, DumpWriteFails, DumpFlushFails,
     DumpRemove, DumpRename, ChildPanic, Pcs
<1> QED  BY <1>1, <1>2

\* Every step keeps the world as new as what was reported.
LEMMA KeptStep ==
  ASSUME ~Mooctl, Typed, Busy, Kept, ~overlapped => Safe, [Next]_vars
  PROVE  Kept'
<1>1. CASE LoopOnly
  BY <1>1, KeptLoop
<1>2. CASE ForkCheckpointer
  BY <1>2, KeptFork
<1>3. ASSUME NEW r \in {"SHUTDOWN", "PANIC"}, StopServer(r) PROVE Kept'
  BY <1>3, KeptHead DEF StopServer
<1>4. CASE DumpRetry
  <2>1. 0 \in Procs /\ Alive(0) /\ DumpHead(proc[0].reason)
    BY <1>4 DEF DumpRetry, Procs, At, Alive
  <2>2. proc[0].reason \in {"SHUTDOWN", "PANIC"}
    BY <2>1 DEF Kept, Known
  <2> QED  BY <1>4, <2>1, <2>2, KeptHead DEF DumpRetry
<1>5. ASSUME NEW i \in Procs,
             DumpStep(i) \/ DumpWriteFails(i) \/ DumpFlushFails(i)
               \/ ChildPanic(i)
      PROVE  Kept'
  <2>1. CASE ChildExit(i)
    <3>1. /\ Alive(i) /\ proc' = [proc EXCEPT ![i] = Idle] /\ mem' = mem
          /\ saved' = saved \/ saved' = Newest(i)
      BY <2>1 DEF ChildExit, At, Alive
    <3> QED  BY <3>1, KeptExit
  <2>2. CASE ~ChildExit(i)
    BY <1>5, <2>2, DumpGoes, KeptGoto
  <2> QED  BY <2>1, <2>2
<1>6. CASE ServerExit
  <2>1. /\ Alive(0) /\ proc' = [proc EXCEPT ![0] = Idle] /\ mem' = mem
        /\ saved' = saved \/ saved' = Newest(0)
        /\ 0 \in Procs
    BY <1>6 DEF ServerExit, At, Alive, Procs
  <2> QED  BY <2>1, KeptExit
<1>7. ASSUME NEW all \in BOOLEAN, Crash(all) PROVE Kept'
  BY <1>7, KeptCrash
<1>8. CASE Restart
  BY <1>8, KeptRestart
<1>9. CASE UNCHANGED vars
  BY <1>9 DEF vars, history, Kept, Known, Alive, At
<1> QED  BY <1>1, <1>2, <1>3, <1>4, <1>5, <1>6, <1>7, <1>8, <1>9
            DEF Next, LoopStep, LoopOnly

\* Only a rename that makes good and a restart end the doubt that a dump
\* begun beside another leaves.
LEMMA DoubtEnds ==
  ASSUME Flags, [Next]_vars, overlapped, ~overlapped'
  PROVE  Restart \/ \E i \in Procs : DumpRename(i) /\ MakesGood(i)
<1>1. CASE UNCHANGED vars
  BY <1>1 DEF vars, history
<1>2. CASE Next
  BY <1>2 DEF Next, history, LoopStep, DumpStep, Modify,
     RequestCheckpoint, RequestShutdown, StartCheckpoint, NoCheckpoint,
     ForkCheckpointer, NoteOverlap, AssignPid, CheckFinished, ClearFinished,
     LoopAgain, DumpHead, StopServer, DumpOpen, DumpWrite, DumpWriteFails,
     DumpFlushFails, DumpRemove, DumpRename, ChildExit, ChildPanic, DumpRetry,
     ServerExit, Crash
<1> QED  BY <1>1, <1>2

\* Every step leaves a dump the server can restart from, or is noted.
LEMMA SafeStep ==
  ASSUME ~Mooctl, Typed, Busy, Flags, Kept, ~overlapped => Safe, [Next]_vars,
         ~overlapped'
  PROVE  Safe'
<1>1. CASE Restart
  BY <1>1, SafeRestart
<1>2. ASSUME NEW i \in Procs, DumpRename(i), MakesGood(i) PROVE Safe'
  BY <1>2, SafeHeal
<1>3. CASE overlapped
  BY <1>1, <1>2, <1>3, DoubtEnds
<1>4. CASE ~overlapped
  <2>0. Safe
    BY <1>4
  <2>1. CASE LoopOnly
    BY <2>0, <2>1, SafeLoop
  <2>2. CASE ForkCheckpointer
    BY <2>0, <2>2, SafeFork
  <2>3. ASSUME NEW r \in {"SHUTDOWN", "PANIC"}, StopServer(r) PROVE Safe'
    <3>1. /\ DumpHead(r) /\ phase # "down" /\ phase # "dumping"
          /\ UNCHANGED <<mem, input_db, dump_db, saved, torn>>
      BY <2>3 DEF StopServer, Up
    <3> QED  BY <2>0, <3>1, SafeHead DEF Busy
  <2>4. CASE DumpRetry
    <3>1. /\ DumpHead(proc[0].reason) /\ At(0, "retry") /\ 0 \in Procs
          /\ Alive(0)
          /\ UNCHANGED <<mem, input_db, dump_db, saved, torn>>
      BY <2>4 DEF DumpRetry, Procs, At, Alive
    <3>2. proc[0].reason \in {"SHUTDOWN", "PANIC"} /\ phase # "down"
      BY <3>1 DEF Kept, Known, Busy
    <3> QED  BY <2>0, <3>1, <3>2, SafeHead
  <2>5. ASSUME NEW i \in Procs,
               DumpStep(i) \/ DumpWriteFails(i) \/ DumpFlushFails(i)
                 \/ ChildPanic(i)
        PROVE  Safe'
    <3>1. CASE ChildExit(i)
      <4>1. At(i, "exit0") => ~IsPanic(i)
        BY <3>1 DEF ChildExit, Kept, Known, IsPanic, At, Alive
      <4>2. /\ At(i, "exit0") \/ At(i, "exit1")
            /\ proc' = [proc EXCEPT ![i] = Idle]
            /\ saved' = saved \/ (At(i, "exit0") /\ saved' = Newest(i))
            /\ UNCHANGED <<torn, input_db, dump_db>>
        BY <3>1 DEF ChildExit, files
      <4> QED  BY <2>0, <4>1, <4>2, SafeExit
    <3> QED  BY <2>0, <2>5, <3>1, SafeOpen, SafeWrite, SafeWriteFails,
                SafeRemove, SafeRename, SafeChildPanic DEF DumpStep
  <2>6. CASE ServerExit
    <3>1. /\ At(0, "exit0") \/ At(0, "exit1")
          /\ proc' = [proc EXCEPT ![0] = Idle]
          /\ \/ saved' = saved
             \/ At(0, "exit0") /\ ~IsPanic(0) /\ saved' = Newest(0)
          /\ UNCHANGED <<torn, input_db, dump_db>>
          /\ 0 \in Procs
      BY <2>6 DEF ServerExit, files, Procs
    <3> QED  BY <2>0, <3>1, SafeExit
  <2>7. ASSUME NEW all \in BOOLEAN, Crash(all) PROVE Safe'
    BY <2>0, <2>7, SafeCrash
  <2>8. CASE UNCHANGED vars
    BY <2>0, <2>8 DEF vars, files, history, Safe, Solo, ProcsOK, ProcOK,
       Anchor, Held, Quiet, Alive, At, IsPanic, FileOf
  <2> QED  BY <1>1, <2>1, <2>2, <2>3, <2>4, <2>5, <2>6, <2>7, <2>8
              DEF Next, LoopStep, LoopOnly
<1> QED  BY <1>3, <1>4

\* The inductive invariant.
IInv == Typed /\ Busy /\ Flags /\ Kept /\ (~overlapped => Safe)

\* It holds, if the server is not restarted by the script.
LEMMA Inductive ==
  ASSUME ~Mooctl
  PROVE  Spec => []IInv
<1>1. Init => IInv
  BY TypeInit, SafeInit DEF IInv
<1>2. IInv /\ [Next]_vars => IInv'
  BY TypedStep, BusyStep, FlagsStep, KeptStep, SafeStep DEF IInv
<1> QED  BY <1>1, <1>2, PTL DEF Spec

-----------------------------------------------------------------------------
(* The theorems *)

\* The variables keep their types, whatever dumps overlap, and the server is
\* in dump_database() exactly while its own process is at a place there.
THEOREM TypeCorrect == Spec => []TypeOK
<1> DEFINE I == Typed /\ Busy /\ Flags
<1>1. Init => I
  BY TypeInit
<1>2. I /\ [Next]_vars => I'
  BY TypedStep, BusyStep, FlagsStep
<1>3. I => TypeOK
  BY DEF Typed, Flags, TypeOK
<1> QED  BY <1>1, <1>2, <1>3, PTL DEF Spec

\* The machine may stop at any moment, whatever calls fail, noticed or not,
\* and whatever dumps overlap: a complete database at least as new as the last
\* one reported dumped is in one of the files that a restart reads, unless the
\* last dump was cut off by a flush that failed (db_file.c:681) or a dump began
\* while a checkpointer ran (db_file.c:629) and none has made up for it since.
THEOREM CrashSafe ==
  ASSUME ~Mooctl
  PROVE  Spec => []SafeToCrash
<1>1. IInv => SafeToCrash
  BY SafeIsSafe DEF IInv, SafeToCrash, Doubtful
<1> QED  BY <1>1, Inductive, PTL

\* A server that shuts down by itself leaves in the dump file the database it
\* had in memory, if the temporary file can be opened; with the same two
\* exceptions.
THEOREM ShutdownIsDumped ==
  ASSUME ~Mooctl, "open" \notin Faults
  PROVE  Spec => ShutdownDumps
<1> DEFINE A == phase = "dumping" /\ phase' = "down"
                /\ proc[0].reason = "SHUTDOWN"
                /\ proc[0].pc \in {"exit0", "exit1"}
                => Doubtful \/ dump_db' = mem
<1>1. IInv /\ [Next]_vars => [A]_vars
  <2> SUFFICES ASSUME IInv, Next, phase = "dumping", phase' = "down",
                      proc[0].reason = "SHUTDOWN",
                      proc[0].pc \in {"exit0", "exit1"}, ~Doubtful
               PROVE  dump_db' = mem
    OBVIOUS
  <2>1. 0 \in Procs /\ Alive(0) /\ ~torn /\ ~overlapped
    BY DEF Procs, Alive, Doubtful
  <2>2. ProcOK(0) /\ Known(0)
    BY <2>1 DEF IInv, Safe, ProcsOK, Kept
  <2>3. proc[0].pc = "exit0" /\ ~IsPanic(0) /\ proc[0].snap = mem
    BY <2>2 DEF ProcOK, Known, At, IsPanic
  <2>4. dump_db = mem
    BY <2>1, <2>2, <2>3 DEF ProcOK, At
  <2>5. ServerExit \/ \E all \in BOOLEAN : Crash(all)
    <3>1. ~(LoopStep \/ Modify \/ RequestCheckpoint \/ RequestShutdown)
      BY DEF LoopStep, Modify, RequestCheckpoint, RequestShutdown,
         StartCheckpoint, NoCheckpoint, ForkCheckpointer, AssignPid,
         CheckFinished, ClearFinished, LoopAgain
    <3>2. \A i \in Procs : ~(DumpStep(i) \/ DumpWriteFails(i)
                               \/ DumpFlushFails(i) \/ ChildPanic(i))
      BY DEF DumpStep, DumpOpen, DumpWrite, DumpWriteFails, DumpFlushFails,
         DumpRemove, DumpRename, ChildExit, ChildPanic
    <3>3. ~DumpRetry /\ ~Restart
      BY DEF DumpRetry, Restart
    <3>4. \A r \in {"SHUTDOWN", "PANIC"} : ~StopServer(r)
      BY DEF StopServer
    <3> QED  BY <3>1, <3>2, <3>3, <3>4 DEF Next
  <2> QED  BY <2>4, <2>5 DEF ServerExit, Crash, files
<1> QED  BY <1>1, Inductive, PTL DEF Spec, ShutdownDumps
=============================================================================
