----------------------------- MODULE NameLookup -----------------------------
(***************************************************************************)
(* Host names and addresses.  name_lookup.c: the server asks an            *)
(* intermediary process and waits; the intermediary asks a lookup process, *)
(* which exits when its timer expires, and starts another.  Questions and  *)
(* answers go through four pipes.  bg_name_lookup.c: name_lookup() starts  *)
(* a child of its own for a task and suspends the task; the server reads   *)
(* the answer when its main loop finds that there is something to read.    *)
(*                                                                         *)
(* Questions are numbered.  The answer to question q is q: as an address,  *)
(* and as the length of a name and the name itself; 0 is no address, or    *)
(* the length of no name.  A read of an empty pipe ends when no process    *)
(* has the other end open; a write to a pipe nobody can read is lost.      *)
(***************************************************************************)
EXTENDS Integers, SequencesExt

VARIABLES
  asked,    \* the question the server waits with, and its answer
  dead_intermediary,
  middle,   \* the intermediary process
  looker,   \* the lookup process
  pipes,    \* what is in each
  infos, async_name_lookup_len,   \* the tasks suspended in name_lookup()
  reg_fds,  \* the slots of network_register_fd()
  children, \* by the descriptor the server reads from
  readable, \* the descriptors that mplex_wait() found readable
  resumed,  \* the last task resumed, and with what
  panicked,
  asks      \* questions so far

sync == <<asked, dead_intermediary, middle, looker, pipes>>
async == <<infos, async_name_lookup_len, reg_fds, children, readable, resumed, panicked>>
lookups == <<sync, async, asks>>

INADDR_NONE == -1
Dead == [at |-> "dead"]
Reading == [at |-> "read"]
NoQuestion == [at |-> "none", kind |-> "none", q |-> 0, listener |-> 0, answer |-> 0]
NoLookups == [to_middle |-> <<>>, to_server |-> <<>>, to_looker |-> <<>>, from_looker |-> <<>>]
intermediary == [at |-> "read", kind |-> "none", q |-> 0, lookup_pid |-> TRUE,
                 addr |-> 0, len |-> 0, buffer |-> 0]
FREE_FD == [fd |-> 0, task |-> 0]

\* The function f, and v at i.
added(f, i, v) == [j \in DOMAIN f \cup {i} |-> IF j = i THEN v ELSE f[j]]

alive(process) == process.at # "dead"

\* The server starts, or finds an earlier intermediary dead.
Start(up) ==
  [asked |-> NoQuestion, dead_intermediary |-> ~ up, pipes |-> NoLookups,
   middle |-> IF up THEN intermediary ELSE Dead, looker |-> IF up THEN Reading ELSE Dead]

-----------------------------------------------------------------------------
(* The server, in lookup_name_from_addr() and lookup_addr_from_name().     *)

Answered(a) == [asked EXCEPT !.at = "done", !.answer = IF a = INADDR_NONE THEN 0 ELSE a]

\* The write succeeds while any process has the reading end, which the lookup
\* process inherits from the intermediary.
ask(kind, listener) ==
  LET question == [at |-> "wait", kind |-> kind, q |-> asks + 1, listener |-> listener, answer |-> 0]
      written == alive(middle) \/ alive(looker)
  IN /\ asked.at = "none"
     /\ asks' = asks + 1
     /\ asked' = IF dead_intermediary \/ ~ written THEN [question EXCEPT !.at = "done"] ELSE question
     /\ dead_intermediary' = (dead_intermediary \/ ~ written)
     /\ pipes' = IF dead_intermediary \/ ~ written THEN pipes
                 ELSE [pipes EXCEPT !.to_middle = Append(@, [kind |-> kind, q |-> asks + 1])]
     /\ UNCHANGED <<middle, looker, async>>

Waiting == asked.at \in {"wait", "data"}

\* An address, or the length of a name, or the name.
read_answer ==
  /\ Waiting /\ pipes.to_server # <<>>
  /\ LET v == Head(pipes.to_server)
     IN asked' = IF asked.kind = "name" /\ asked.at = "wait" /\ v # 0
                 THEN [asked EXCEPT !.at = "data"] ELSE Answered(v)
  /\ pipes' = [pipes EXCEPT !.to_server = Tail(@)]
  /\ UNCHANGED <<dead_intermediary, middle, looker>>
abandon_intermediary ==
  /\ Waiting /\ pipes.to_server = <<>> /\ ~ alive(middle) /\ ~ alive(looker)
  /\ asked' = Answered(0)
  /\ dead_intermediary' = TRUE
  /\ UNCHANGED <<middle, looker, pipes>>

-----------------------------------------------------------------------------
(* The intermediary.                                                       *)

\* restart_lookup(): the old process is killed, and a new one started unless
\* that fails.
restart_lookup(m, started, to_middle, to_server) ==
  /\ middle' = [m EXCEPT !.lookup_pid = started]
  /\ looker' = IF started THEN Reading ELSE Dead
  /\ pipes' = [NoLookups EXCEPT !.to_middle = to_middle, !.to_server = to_server]

\* A question.  If no lookup process can be started the answer is 0 at once.
middle_reads(started) ==
  LET r == Head(pipes.to_middle)
      up == middle.lookup_pid \/ started
  IN /\ middle.at = "read" /\ pipes.to_middle # <<>>
     /\ middle.lookup_pid => ~ started
     /\ middle' = [middle EXCEPT !.at = IF up THEN "wait" ELSE "read",
                                 !.kind = r.kind, !.q = r.q, !.lookup_pid = up]
     /\ looker' = IF started THEN Reading ELSE looker
     /\ LET old == IF started THEN [NoLookups EXCEPT !.to_server = pipes.to_server] ELSE pipes
        IN pipes' = [old EXCEPT !.to_middle = Tail(pipes.to_middle),
                                !.to_looker = IF up /\ alive(looker') THEN Append(@, r) ELSE @,
                                !.to_server = IF up THEN @ ELSE Append(@, 0)]
     /\ UNCHANGED <<asked, dead_intermediary>>

middle_gets ==
  LET v == Head(pipes.from_looker)
  IN /\ middle.at \in {"wait", "data"} /\ pipes.from_looker # <<>>
     /\ middle' = CASE middle.at = "data" -> [middle EXCEPT !.buffer = v, !.at = "send"]
                    [] middle.at = "wait" /\ middle.kind = "addr" -> [middle EXCEPT !.addr = v, !.at = "send"]
                    [] OTHER -> [middle EXCEPT !.len = v, !.at = IF v > 0 THEN "data" ELSE "send"]
     /\ pipes' = [pipes EXCEPT !.from_looker = Tail(@)]
     /\ UNCHANGED <<asked, dead_intermediary, looker>>

\* The lookup process is gone: no answer, whatever the last one was.
no_answer_stale(m) == m   \* mutant of no_answer
no_answer(m) == IF m.kind = "addr" THEN [m EXCEPT !.addr = 0] ELSE [m EXCEPT !.len = 0]
middle_restarts(started) ==
  /\ middle.at \in {"wait", "data"} /\ pipes.from_looker = <<>> /\ ~ alive(looker)
  /\ restart_lookup([no_answer(middle) EXCEPT !.at = "send"], started, pipes.to_middle, pipes.to_server)
  /\ UNCHANGED <<asked, dead_intermediary>>

\* The address or the length, and then the name if there is one.
middle_sends ==
  /\ middle.at \in {"send", "put"}
  /\ middle' = [middle EXCEPT !.at = IF middle.at = "send" /\ middle.kind = "name" /\ middle.len > 0
                                     THEN "put" ELSE "read"]
  /\ pipes' = [pipes EXCEPT !.to_server =
                 Append(@, IF middle.at = "put" THEN middle.buffer
                           ELSE IF middle.kind = "addr" THEN middle.addr ELSE middle.len)]
  /\ UNCHANGED <<asked, dead_intermediary, looker>>

-----------------------------------------------------------------------------
(* The lookup process.  Its timer runs only while it looks a name up.      *)

lookup_reads ==
  /\ looker.at = "read"
  /\ IF pipes.to_looker # <<>>
     THEN /\ looker' = [at |-> "resolve", r |-> Head(pipes.to_looker)]
          /\ pipes' = [pipes EXCEPT !.to_looker = Tail(@)]
     ELSE ~ alive(middle) /\ looker' = Dead /\ pipes' = pipes
  /\ UNCHANGED <<asked, dead_intermediary, middle>>
lookup_answers(found) ==
  LET r == looker.r
  IN /\ looker.at = "resolve"
     /\ pipes' = [pipes EXCEPT !.from_looker =
                    Append(@, IF found THEN r.q ELSE IF r.kind = "addr" THEN INADDR_NONE ELSE 0)]
     /\ looker' = IF found /\ r.kind = "name" THEN [looker EXCEPT !.at = "put"] ELSE Reading
     /\ UNCHANGED <<asked, dead_intermediary, middle>>
lookup_puts_name ==
  /\ looker.at = "put"
  /\ pipes' = [pipes EXCEPT !.from_looker = Append(@, looker.r.q)]
  /\ looker' = Reading
  /\ UNCHANGED <<asked, dead_intermediary, middle>>
timeout_proc ==
  /\ looker.at = "resolve"
  /\ looker' = Dead
  /\ UNCHANGED <<asked, dead_intermediary, middle, pipes>>

\* Either process may be killed by someone else.
killed_middle ==
  /\ alive(middle) /\ middle' = Dead
  /\ UNCHANGED <<asked, dead_intermediary, looker, pipes>>
killed_looker ==
  /\ alive(looker) /\ looker' = Dead
  /\ UNCHANGED <<asked, dead_intermediary, middle, pipes>>

Processes ==
  /\ \/ read_answer \/ abandon_intermediary
     \/ \E started \in BOOLEAN : middle_reads(started) \/ middle_restarts(started)
     \/ middle_gets \/ middle_sends
     \/ lookup_reads \/ (\E found \in BOOLEAN : lookup_answers(found)) \/ lookup_puts_name \/ timeout_proc
  /\ UNCHANGED <<async, asks>>
Killed == (killed_middle \/ killed_looker) /\ UNCHANGED <<async, asks>>

-----------------------------------------------------------------------------
(* name_lookup().                                                          *)

\* Of the descriptors only those of lookups are numbered, from 1.
network_register_fd(fd, task) ==
  LET free == {i \in DOMAIN reg_fds : reg_fds[i] = FREE_FD}
      slot == [fd |-> fd, task |-> task]
  IN IF free = {} THEN Append(reg_fds, slot) ELSE [reg_fds EXCEPT ![Min(free)] = slot]
network_unregister_fd(fd) ==
  [i \in DOMAIN reg_fds |-> IF reg_fds[i].fd = fd THEN FREE_FD ELSE reg_fds[i]]

enqueue_lookup_task(task, fd) ==
  /\ reg_fds' = network_register_fd(fd, task)
  /\ infos' = Append(infos, [task |-> task, fd |-> fd])
  /\ async_name_lookup_len' = async_name_lookup_len + 1

\* A child is started and the task queued, or nothing is.
name_lookup(timeout) ==
  LET fd == Min((1 .. asks + 1) \ DOMAIN children)
      task == asks + 1
  IN /\ asks' = asks + 1
     /\ children' = added(children, fd, [q |-> task, timeout |-> timeout, at |-> "resolve", out |-> 0])
     /\ enqueue_lookup_task(task, fd)
     /\ UNCHANGED <<sync, readable, resumed, panicked>>
spawn_fails == asks' = asks + 1 /\ UNCHANGED <<sync, async>>

dequeue_lookup_task(task) ==
  LET info == SelectInSeq(infos, LAMBDA i : i.task = task)
      fd == infos[info].fd
  IN /\ reg_fds' = network_unregister_fd(fd)
     /\ children' = Restrict(children, DOMAIN children \ {fd})   \* its other writes are lost
     /\ infos' = RemoveAt(infos, info)
     /\ async_name_lookup_len' = async_name_lookup_len - 1

\* kill_task(), through lookup_task_queue_enumerator().
kill_lookup(task) ==
  /\ task \in {infos[i].task : i \in 1 .. async_name_lookup_len}
  /\ dequeue_lookup_task(task)
  /\ UNCHANGED <<sync, readable, resumed, panicked, asks>>

\* The child: the header with the counts, the name, an alias and an address,
\* or a header alone; the alarm, if there is one, runs until it has an answer.
WRITES == 4
alarm_set_late(c) == c.timeout /\ c.at \in {"resolve", "write"}   \* mutant of alarm_set
alarm_set(c) == c.timeout /\ c.at = "resolve"
child_step(fd) ==
  LET c == children[fd]
  IN /\ \/ c.at = "resolve" /\ \E at \in {"write", "failed"} : children' = [children EXCEPT ![fd].at = at]
        \/ c.at = "write" /\ children' = [children EXCEPT ![fd].out = @ + 1,
                                           ![fd].at = IF c.out + 1 = WRITES THEN "exit" ELSE "write"]
        \/ alarm_set(c) /\ children' = [children EXCEPT ![fd].at = "exit"]
     /\ UNCHANGED <<sync, infos, async_name_lookup_len, reg_fds, readable, resumed, panicked, asks>>

\* add_registered_fds() and mplex_wait(): there is something, or the end.
find_readable ==
  /\ readable' = {reg_fds[i].fd : i \in DOMAIN reg_fds}
                   \cap {fd \in DOMAIN children : children[fd].out > 0 \/ children[fd].at \in {"failed", "exit"}}
  /\ UNCHANGED <<sync, infos, async_name_lookup_len, reg_fds, children, resumed, panicked, asks>>

\* The server waits until it has read all the header announces, or the end.
async_name_lookup_readable(reg) ==
  LET c == children[reg.fd]
  IN /\ c.at \in {"failed", "exit"}
     /\ panicked' = (c.at = "exit" /\ c.out \in 2 .. WRITES - 1)
     /\ resumed' = [task |-> reg.task, answer |-> IF c.out = WRITES THEN c.q ELSE 0]
     /\ dequeue_lookup_task(reg.task)
     /\ UNCHANGED <<sync, readable, asks>>

LookupInit(up) ==
  /\ asked = Start(up).asked /\ dead_intermediary = Start(up).dead_intermediary
  /\ middle = Start(up).middle /\ looker = Start(up).looker /\ pipes = Start(up).pipes
  /\ infos = <<>> /\ async_name_lookup_len = 0 /\ reg_fds = <<>> /\ children = [fd \in {} |-> 0]
  /\ readable = {} /\ resumed = [task |-> 0, answer |-> 0] /\ panicked = FALSE /\ asks = 0
LookupRestart(up) ==
  /\ asked' = Start(up).asked /\ dead_intermediary' = Start(up).dead_intermediary
  /\ middle' = Start(up).middle /\ looker' = Start(up).looker /\ pipes' = Start(up).pipes
  /\ infos' = <<>> /\ async_name_lookup_len' = 0 /\ reg_fds' = <<>> /\ children' = [fd \in {} |-> 0]
  /\ readable' = {} /\ resumed' = [task |-> 0, answer |-> 0] /\ panicked' = FALSE /\ asks' = 0
=============================================================================
