----------------------------- MODULE Connections -----------------------------
(***************************************************************************)
(* server.c: the connections of the server and its main loop, with the     *)
(* network handles of Network, the name lookups of NameLookup and as much  *)
(* of the task queues of tasks.c as a login and the flow control of input  *)
(* need.                                                                   *)
(*                                                                         *)
(* Connection i is the i-th since the start: its player number is -1 - i   *)
(* until a user logs in.  New handles go to the head of both lists, which  *)
(* therefore run from the greatest number to the least.  The steps of the  *)
(* main loop are in `pc'; the program stops between two of them only where *)
(* it runs MOO code, in `verb', which calls built-in functions before it   *)
(* returns or suspends, and then the C code goes on at `then'.             *)
(***************************************************************************)
EXTENDS Network, NameLookup

CONSTANTS SYSTEM_OBJECT, PORT,   \* the objects of the two listening points
          Users, NOTHING,
          INPUT_HIWAT, INPUT_LOWAT,
          Focuses    \* what may happen in a behaviour, see `focus'

ASSUME UsersAssumption == Users \subseteq Nat /\ NOTHING = -1
ASSUME ListenersAssumption == SYSTEM_OBJECT \in Nat /\ PORT \in Nat /\ SYSTEM_OBJECT # PORT
ASSUME WatermarksAssumption == INPUT_HIWAT \in Nat /\ INPUT_LOWAT \in 1 .. INPUT_HIWAT
ASSUME OutputsAssumption == \A f \in Focuses : f.outputs \subseteq Nat   \* bytes of a line

VARIABLES
  sh,       \* the struct shandles, by connection
  nh,       \* the network handles
  tq,       \* the task queues; lines counts the pending input
  port,     \* the listener of PORT: "none", "up", or "dead": listed, not listening
  conns,    \* connections since the start
  users,    \* the users that are valid objects
  pc, verb,
  told,     \* what the notifier verbs make of each user: a listener or NOTHING
  wrong,    \* a notifier verb did not fit what it had been told
  crashed,  \* a null pointer was followed, or panic() called
  dump,     \* the database file
  calls, restarts, deaths,  \* so far
  heard,    \* of each connection, what was read and what was made of it
  focus     \* the bounds of this behaviour

handles == <<sh, nh, tq, conns, heard>>
world == <<port, users, told, wrong, dump, restarts, focus>>
server == <<handles, world, pc, verb, crashed, calls>>
vars == <<server, lookups, deaths>>

no_handles == [i \in {} |-> 0]
Verb(then, h, lines) == [then |-> then, h |-> h, lines |-> lines, suspended |-> FALSE]
NoVerb == Verb("none", 0, 0)
Loop(at) == [at |-> at, h |-> 0, next |-> 0, readers |-> {}, writers |-> {}, todo |-> <<>>, cp |-> FALSE]

find_shandle(p) == LET found == {i \in DOMAIN sh : sh[i].player = p}
                   IN IF found = {} THEN 0 ELSE Max(found)
first(list) == IF list = {} THEN 0 ELSE Max(list)
next(i, list) == first({j \in list : j < i})

connected_players(show_all) ==
  {i \in DOMAIN sh : (show_all \/ sh[i].logged) /\ ~ sh[i].disconnect_me}
connection_listener(p) == LET h == find_shandle(p) IN IF h = 0 THEN NOTHING ELSE sh[h].listener

-----------------------------------------------------------------------------
(* Parts of the handlers.                                                  *)

\* network_suspend_input() or network_resume_input() of a player's handle.
set_input_suspended(p, to, n) ==
  IF find_shandle(p) = 0 THEN n ELSE [n EXCEPT ![find_shandle(p)].suspended = to]

\* new_input_task() or force_input(): m lines more in queue i.
enqueued(i, m) ==
  [tq EXCEPT ![i].lines = @ + m,
             ![i].suspended = @ \/ (tq[i].connected /\ tq[i].lines + m > INPUT_HIWAT)]
new_input(i, m, n) ==
  LET stops == enqueued(i, m)[i].suspended /\ ~ tq[i].suspended
      p == tq[i].player
  IN /\ tq' = enqueued(i, m)
     /\ nh' = IF stops THEN set_input_suspended(p, TRUE, n) ELSE n
     /\ crashed' = (crashed \/ (stops /\ find_shandle(p) = 0))

\* The queue with `left' lines, and whether its input is to be resumed.
resumes(q, left) == left < q.lines /\ q.suspended /\ q.connected /\ left < INPUT_LOWAT
dequeued(q, left) == [q EXCEPT !.lines = left, !.suspended = @ /\ ~ resumes(q, left)]

free_shandle(i) == Restrict(sh, DOMAIN sh \ {i})
close_nhandle(i, n) == Restrict(n, DOMAIN n \ {i})
free_task_queue(i, q) == [q EXCEPT ![i].connected = FALSE]

\* The messages before a connection is closed reach no one but the client.
Close(i) ==
  /\ sh' = free_shandle(i)
  /\ nh' = close_nhandle(i, nh)
  /\ tq' = free_task_queue(i, tq)
  /\ heard' = Restrict(heard, DOMAIN heard \ {i})
  /\ conns' = conns

\* A connection at listener l; l = NOTHING if there is none.
new_connection(l, outbound, print) ==
  LET i == conns + 1
      waits == l # NOTHING \/ ~ outbound   \* for #0:do_login_command("")
  IN /\ conns < focus.conns
     /\ conns' = i
     /\ sh' = added(sh, i, [player |-> NOTHING - i, listener |-> IF l = NOTHING THEN SYSTEM_OBJECT ELSE l,
                             logged |-> FALSE, disconnect_me |-> FALSE,
                             outbound |-> outbound, print |-> print])
     /\ nh' = added(nh, i, [new_nhandle EXCEPT !.suspended = waits])
     /\ tq' = added(tq, i, [player |-> NOTHING - i, connected |-> TRUE, suspended |-> waits,
                             lines |-> IF waits THEN 1 ELSE 0])
     /\ heard' = added(heard, i, [text |-> <<>>, lines |-> <<>>, binary |-> FALSE])

\* call_notifier(), for a user: user_connected and user_created open a period,
\* user_reconnected is inside one, the others end it.
notified(p, listener, what) ==
  LET was == told[p]
  IN IF p \notin users THEN UNCHANGED <<told, wrong>>
     ELSE /\ told' = [told EXCEPT ![p] = IF what = "disconnected" THEN NOTHING ELSE listener]
          /\ wrong' = (wrong \/ was # IF what = "connected" THEN NOTHING ELSE listener)

\* The lines of send_message() to a handle, of one byte each.
sent_message(i, n) ==
  IF sh[i].print /\ focus.messages THEN enqueue_output(1, TRUE, n[i]) ELSE {n[i]}

-----------------------------------------------------------------------------
(* The main loop.                                                          *)

AtRest == verb = NoVerb /\ ~ crashed

\* The database file is read: for each connection in it user_disconnected is
\* called, and then #0:server_started.
Restart ==
  /\ restarts < focus.restarts
  /\ restarts' = restarts + 1
  /\ sh' = no_handles /\ nh' = no_handles /\ tq' = no_handles /\ conns' = 0
  /\ heard' = no_handles /\ port' = "none" /\ verb' = NoVerb
  /\ pc' = [Loop("saved") EXCEPT !.todo = dump.connections]
  /\ told' = dump.told /\ users' = dump.users
  /\ UNCHANGED <<wrong, crashed, dump, calls, deaths, focus>>
  /\ LookupRestart(focus.asks > 0)

notify_saved ==
  /\ AtRest /\ pc.at = "saved"
  /\ verb' = Verb("return", 0, 0)
  /\ IF pc.todo = <<>> THEN pc' = Loop("top") /\ UNCHANGED <<told, wrong>>
     ELSE /\ notified(pc.todo[1].player, pc.todo[1].listener, "disconnected")
          /\ pc' = [pc EXCEPT !.todo = Tail(@)]
  /\ UNCHANGED <<handles, port, users, dump, restarts, focus, crashed, calls>>

\* A checkpoint runs #0:checkpoint_started, network_process_io() and db_flush().
checkpoint_started ==
  /\ AtRest /\ pc.at = "top" /\ restarts < focus.restarts
  /\ verb' = Verb("return", 0, 0)
  /\ pc' = [Loop("wait") EXCEPT !.cp = TRUE]
  /\ UNCHANGED <<handles, world, crashed, calls>>

write_active_connections(n) ==
  LET list[i \in 0 .. n] ==
        IF i = 0 THEN <<>>
        ELSE IF i \in DOMAIN sh
             THEN <<[player |-> sh[i].player, listener |-> sh[i].listener]>> \o list[i - 1]
             ELSE list[i - 1]
  IN list[n]
db_flush ==
  /\ AtRest /\ pc.at = "dump"
  /\ dump' = [connections |-> write_active_connections(conns), told |-> told, users |-> users]
  /\ pc' = Loop("wait")
  /\ UNCHANGED <<handles, port, users, told, wrong, restarts, focus, verb, crashed, calls>>

\* mplex_wait(): which handles may turn out to be readable or writable.
mplex_wait ==
  /\ AtRest /\ (pc.at = "wait" \/ pc.at = "top")
  /\ pc' = [Loop("accept") EXCEPT
              !.cp = pc.cp,
              !.todo = IF port = "up" THEN <<PORT, SYSTEM_OBJECT>> ELSE <<SYSTEM_OBJECT>>,
              !.readers = {i \in DOMAIN nh : ~ nh[i].suspended},
              !.writers = {i \in DOMAIN nh : nh[i].output # <<>>}]
  /\ find_readable
  /\ UNCHANGED <<handles, world, verb, crashed, calls, deaths>>

\* On to the handle i: `next' is taken from the list before anything is done.
Visit(at, i, list) == [pc EXCEPT !.at = at, !.h = i, !.next = next(i, list)]
Polled(i, list) ==
  IF i # 0 THEN Visit("read", i, list)
  ELSE [Loop("check") EXCEPT !.cp = pc.cp, !.todo = [x \in DOMAIN reg_fds |-> x]]

\* Of a full server the client hears no more than a message.
accept_new_connection ==
  /\ AtRest /\ pc.at = "accept" /\ pc.todo # <<>>
  /\ pc' = [pc EXCEPT !.todo = Tail(@)]
  /\ new_connection(pc.todo[1], FALSE, TRUE)
  /\ UNCHANGED <<world, verb, crashed, calls>>
accept_nothing ==
  /\ AtRest /\ pc.at = "accept"
  /\ pc' = IF pc.todo = <<>> THEN Polled(first(DOMAIN nh), DOMAIN nh)
           ELSE [pc EXCEPT !.todo = Tail(@)]
  /\ UNCHANGED <<handles, world, verb, crashed, calls>>

\* A connection that cannot be read or written is closed when its verb is done.
server_close(i) ==
  /\ sh' = [sh EXCEPT ![i].disconnect_me = TRUE]
  /\ notified(sh[i].player, sh[i].listener, "disconnected")
  /\ verb' = Verb("close", i, 0)
  /\ UNCHANGED <<tq, conns, heard, port, users, dump, restarts, focus, pc, crashed, calls>>

read_nothing ==
  /\ AtRest /\ pc.at = "read"
  /\ pc' = [pc EXCEPT !.at = "write"]
  /\ UNCHANGED <<handles, world, verb, crashed, calls>>
read_fails ==
  /\ AtRest /\ pc.at = "read" /\ pc.h \in pc.readers
  /\ server_close(pc.h)
  /\ nh' = nh

\* A chunk of input; user_unidled is called before its first line is queued.
read_chunk(chunk, idle) ==
  LET i == pc.h
      r == pull_input(chunk, nh[i])
      n == [nh EXCEPT ![i] = r.n]
  IN /\ AtRest /\ pc.at = "read" /\ i \in pc.readers
     /\ Len(heard[i].text) + Len(chunk) <= focus.chars
     /\ idle => r.lines # <<>>
     /\ heard' = [heard EXCEPT ![i].text = @ \o chunk, ![i].lines = @ \o r.lines]
     /\ pc' = [pc EXCEPT !.at = "write"]
     /\ IF idle THEN /\ verb' = Verb("input", i, Len(r.lines))
                     /\ nh' = n /\ UNCHANGED <<tq, crashed>>
        ELSE new_input(i, Len(r.lines), n) /\ verb' = verb
     /\ UNCHANGED <<sh, conns, world, calls>>

write_nothing ==
  /\ AtRest /\ pc.at = "write"
  /\ pc' = Polled(pc.next, DOMAIN nh)
  /\ UNCHANGED <<handles, world, verb, crashed, calls>>
write_some ==
  /\ AtRest /\ pc.at = "write" /\ pc.h \in pc.writers
  /\ \E r \in push_output(nh[pc.h]) :
       /\ nh' = [nh EXCEPT ![pc.h] = r.n]
       /\ IF r.ok THEN /\ pc' = Polled(pc.next, DOMAIN nh)
                       /\ UNCHANGED <<sh, tq, conns, heard, world, verb, crashed, calls>>
          ELSE server_close(pc.h)

\* After the handles, the registered descriptors, in the order of their slots.
check_registered_fds ==
  /\ AtRest /\ pc.at = "check"
  /\ IF pc.todo = <<>> THEN pc' = Loop(IF pc.cp THEN "dump" ELSE "tasks") /\ UNCHANGED lookups
     ELSE /\ pc' = [pc EXCEPT !.todo = Tail(@)]
          /\ LET reg == reg_fds[Head(pc.todo)]
             IN IF reg.fd \in readable THEN async_name_lookup_readable(reg) ELSE UNCHANGED lookups
  /\ UNCHANGED <<handles, world, verb, crashed, calls, deaths>>

\* run_ready_tasks(): one line of one queue, or one task in the background.
run_command(i) ==
  LET q == tq[i]
      resume == resumes(q, q.lines - 1)
  IN /\ AtRest /\ pc.at = "tasks" /\ q.lines > 0
     /\ tq' = [tq EXCEPT ![i] = dequeued(q, q.lines - 1)]
     /\ nh' = IF resume THEN set_input_suspended(q.player, FALSE, nh) ELSE nh
     /\ crashed' = (resume /\ find_shandle(q.player) = 0)
     /\ verb' = IF q.player >= 0 THEN Verb("return", 0, 0) ELSE Verb("login", i, 0)
     /\ pc' = Loop("free")
     /\ UNCHANGED <<sh, conns, heard, world, calls>>
run_in_background ==
  /\ AtRest /\ pc.at = "tasks" /\ calls < focus.calls
  /\ verb' = Verb("return", 0, 0) /\ pc' = Loop("free")
  /\ UNCHANGED <<handles, world, crashed, calls>>
run_nothing ==
  /\ AtRest /\ pc.at = "tasks" /\ \A i \in DOMAIN tq : tq[i].lines = 0
  /\ pc' = Loop("free")
  /\ UNCHANGED <<handles, world, verb, crashed, calls>>

Swept(i, list) == IF i # 0 THEN Visit("sweep", i, list) ELSE Loop("top")
free_tqueues ==
  /\ AtRest /\ pc.at = "free"
  /\ tq' = Restrict(tq, {i \in DOMAIN tq : tq[i].connected \/ tq[i].lines > 0})
  /\ pc' = Swept(first(DOMAIN sh), DOMAIN sh)
  /\ UNCHANGED <<sh, nh, conns, heard, world, verb, crashed, calls>>

\* Old un-logged-in or useless connections.  Any may have timed out.
Useless(h) == h.logged /\ h.player \notin users
sweep_notified ==
  /\ AtRest /\ pc.at = "sweep"
  /\ LET h == sh[pc.h]
     IN /\ (~ h.outbound /\ ~ h.logged) \/ (h.disconnect_me /\ ~ Useless(h))
        /\ notified(h.player, h.listener, "disconnected")
  /\ verb' = Verb("drop", pc.h, 0)
  /\ UNCHANGED <<handles, port, users, dump, restarts, focus, pc, crashed, calls>>
sweep_recycled ==
  /\ AtRest /\ pc.at = "sweep" /\ Useless(sh[pc.h])
  /\ Close(pc.h)
  /\ pc' = Swept(pc.next, DOMAIN sh')
  /\ UNCHANGED <<world, verb, crashed, calls>>
sweep_kept ==
  /\ AtRest /\ pc.at = "sweep" /\ ~ Useless(sh[pc.h]) /\ ~ sh[pc.h].disconnect_me
  /\ pc' = Swept(pc.next, DOMAIN sh)
  /\ UNCHANGED <<handles, world, verb, crashed, calls>>

-----------------------------------------------------------------------------
(* A verb is done.                                                         *)

Returns(then) == verb.then = then /\ ~ crashed /\ UNCHANGED calls

returned ==
  /\ Returns("return") \/ Returns("login")   \* no user, or no connection
  /\ verb' = NoVerb
  /\ UNCHANGED <<handles, world, pc, crashed>>
unidled ==
  /\ Returns("input")
  /\ new_input(verb.h, verb.lines, nh)
  /\ verb' = NoVerb
  /\ UNCHANGED <<sh, conns, heard, world, pc>>
closed ==
  /\ Returns("close")
  /\ Close(verb.h)
  /\ pc' = Polled(pc.next, DOMAIN nh')
  /\ verb' = NoVerb
  /\ UNCHANGED <<world, crashed>>
dropped ==
  /\ Returns("drop")
  /\ Close(verb.h)
  /\ pc' = Swept(pc.next, DOMAIN sh')
  /\ verb' = NoVerb
  /\ UNCHANGED <<world, crashed>>

\* player_connected(): the listeners differ, and the notifier at the old one
\* has been called with disconnect_me set.
redirected ==
  /\ Returns("redirect")
  /\ sh' = [sh EXCEPT ![verb.h].disconnect_me = FALSE]
  /\ notified(sh[verb.h].player, sh[verb.h].listener, "connected")
  /\ verb' = Verb("return", 0, 0)
  /\ UNCHANGED <<nh, tq, conns, heard, port, users, dump, restarts, focus, pc, crashed>>

\* do_login_task() with a user as the result: the user's queue loses its input,
\* and its number, to this one.
login_queues(i, u) ==
  [j \in DOMAIN tq |-> IF j = i THEN [tq[i] EXCEPT !.player = u]
                      ELSE IF tq[j].player = u THEN [dequeued(tq[j], 0) EXCEPT !.player = NOTHING]
                      ELSE tq[j]]
\* The existing connection goes before any notifier is called.
existing_open(e, n) == n      \* mutant of existing_closed
existing_closed(e, n) == IF e = 0 THEN n ELSE close_nhandle(e, n)
differs_never(e, i) == FALSE  \* mutant of differs
differs(e, i) == e # 0 /\ sh[e].listener # sh[i].listener

player_connected(u) ==
  LET q == tq[verb.h]
      e == find_shandle(u)
      i == find_shandle(q.player)
      hs == [sh EXCEPT ![i] = [@ EXCEPT !.player = u, !.logged = TRUE,
                                 !.disconnect_me = @ \/ differs(e, i)]]
  IN /\ Returns("login") /\ q.connected /\ u \in users
     /\ crashed' = (i = 0 \/ (e = 0 /\ \E j \in DOMAIN tq : tq[j].player = u /\ resumes(tq[j], 0)))
     /\ IF i = 0 THEN UNCHANGED <<handles, told, wrong, verb>>
        ELSE /\ sh' = Restrict(hs, DOMAIN hs \ {e})
             /\ \E n \in sent_message(i, nh) : nh' = existing_closed(e, [nh EXCEPT ![i] = n])
             /\ tq' = IF e = 0 THEN login_queues(verb.h, u)
                      ELSE free_task_queue(e, login_queues(verb.h, u))
             /\ heard' = Restrict(heard, DOMAIN heard \ {e})
             /\ conns' = conns
             /\ IF differs(e, i)
                THEN notified(u, sh[e].listener, "disconnected") /\ verb' = Verb("redirect", i, 0)
                ELSE /\ notified(u, sh[i].listener, IF e = 0 THEN "connected" ELSE "reconnected")
                     /\ verb' = Verb("return", 0, 0)
     /\ UNCHANGED <<port, users, dump, restarts, focus, pc>>

-----------------------------------------------------------------------------
(* Built-in functions, called by the verb.                                 *)

MayCall(name) ==
  /\ verb # NoVerb /\ ~ verb.suspended /\ ~ crashed /\ name \in focus.builtins
  /\ calls < focus.calls /\ calls' = calls + 1
  /\ UNCHANGED pc
Calls(name) == MayCall(name) /\ UNCHANGED verb

boot_player(i) ==
  /\ Calls("boot_player")
  /\ sh' = [sh EXCEPT ![i].disconnect_me = TRUE]
  /\ UNCHANGED <<nh, tq, conns, heard, world, crashed>>
notify(i, len, flush_ok) ==
  /\ Calls("notify") /\ ~ sh[i].disconnect_me
  /\ \E n \in enqueue_output(len, flush_ok, nh[i]) : nh' = [nh EXCEPT ![i] = n]
  /\ UNCHANGED <<sh, tq, conns, heard, world, crashed>>
force_input(i) ==
  /\ Calls("force_input") /\ tq[i].connected
  /\ new_input(i, 1, nh)
  /\ UNCHANGED <<sh, conns, heard, world>>
set_connection_binary(i, do_binary) ==
  /\ Calls("set_connection_option") /\ ~ sh[i].disconnect_me
  /\ nh' = [nh EXCEPT ![i].binary = do_binary]
  /\ heard' = [heard EXCEPT ![i].binary = TRUE]
  /\ UNCHANGED <<sh, tq, conns, world, crashed>>

\* With a listener that is not listed a temporary one prints no messages.
outbound_connection(l) ==
  /\ new_connection(l, TRUE, l = SYSTEM_OBJECT \/ (l = PORT /\ port # "none"))
  /\ UNCHANGED <<world, crashed>>
\* A numeric address is one also without an intermediary.
open_network_connection(l) ==
  /\ Calls("open_network_connection") /\ dead_intermediary
  /\ outbound_connection(l)
\* A listener that cannot be started remains on the list.
listen ==
  /\ Calls("listen") /\ port = "none"
  /\ port' \in {"up", "dead"}
  /\ UNCHANGED <<handles, users, told, wrong, dump, restarts, focus, crashed>>
unlisten ==
  /\ Calls("unlisten") /\ port # "none"
  /\ port' = "none"
  /\ UNCHANGED <<handles, users, told, wrong, dump, restarts, focus, crashed>>
recycle(u) ==
  /\ Calls("recycle") /\ u \in users
  /\ users' = users \ {u} /\ told' = [told EXCEPT ![u] = NOTHING]
  /\ UNCHANGED <<handles, port, wrong, dump, restarts, focus, crashed>>

-----------------------------------------------------------------------------
(* Names and addresses.  While it waits for one the server does nothing else. *)

MayAsk == asks < focus.asks

open_asks(l) ==
  /\ Calls("open_network_connection") /\ ~ dead_intermediary /\ MayAsk
  /\ ask("addr", l)
  /\ UNCHANGED <<handles, world, crashed>>
\* The System V network wants the name of each client it accepts.
accept_asks ==
  /\ AtRest /\ pc.at = "accept" /\ pc.todo # <<>> /\ focus.sysv /\ MayAsk /\ conns < focus.conns
  /\ ask("name", pc.todo[1])
  /\ UNCHANGED server

\* Without an address there is no connection; with one there may be none.
answered ==
  /\ asked.at = "done"
  /\ asked' = NoQuestion
  /\ UNCHANGED <<dead_intermediary, middle, looker, pipes, async, asks, verb, crashed, calls>>
opened ==
  /\ answered /\ asked.kind = "addr"
  /\ \/ asked.answer # 0 /\ outbound_connection(asked.listener)
     \/ UNCHANGED <<handles, world>>
  /\ UNCHANGED pc
accepted ==
  /\ answered /\ asked.kind = "name"
  /\ accept_new_connection

\* A task that is suspended in name_lookup() calls no more.
name_lookup_call ==
  /\ MayCall("name_lookup") /\ MayAsk
  /\ \/ (\E timeout \in BOOLEAN : name_lookup(timeout)) /\ verb' = [verb EXCEPT !.suspended = TRUE]
     \/ spawn_fails /\ verb' = verb
  /\ UNCHANGED <<handles, world, crashed>>
kill_task(task) ==
  /\ Calls("kill_task")
  /\ kill_lookup(task)
  /\ UNCHANGED <<handles, world, crashed>>

-----------------------------------------------------------------------------
Init ==
  /\ sh = no_handles /\ nh = no_handles /\ tq = no_handles /\ heard = no_handles
  /\ conns = 0 /\ port = "none" /\ users = Users
  /\ pc = Loop("top") /\ verb = NoVerb
  /\ told = [u \in Users |-> NOTHING] /\ wrong = FALSE /\ crashed = FALSE
  /\ dump = [connections |-> <<>>, told |-> told, users |-> Users]
  /\ calls = 0 /\ restarts = 0 /\ deaths = 0
  /\ focus \in Focuses
  /\ LookupInit(focus.asks > 0)

MainLoop ==
  \/ notify_saved \/ checkpoint_started \/ db_flush
  \/ accept_new_connection \/ accept_nothing
  \/ read_nothing \/ read_fails \/ write_nothing \/ write_some
  \/ \E chunk \in focus.chunks, idle \in BOOLEAN : read_chunk(chunk, idle)
  \/ \E i \in DOMAIN tq : run_command(i)
  \/ run_in_background \/ run_nothing \/ free_tqueues
  \/ sweep_notified \/ sweep_recycled \/ sweep_kept
  \/ returned \/ unidled \/ closed \/ dropped \/ redirected
  \/ \E u \in Users : player_connected(u)

BuiltIn ==
  \/ \E i \in DOMAIN sh :
       \/ boot_player(i)
       \/ \E len \in focus.outputs, flush_ok \in BOOLEAN : notify(i, len, flush_ok)
       \/ \E do_binary \in BOOLEAN : set_connection_binary(i, do_binary)
  \/ \E i \in DOMAIN tq : force_input(i)
  \/ \E l \in {NOTHING, SYSTEM_OBJECT, PORT} : open_network_connection(l)
  \/ listen \/ unlisten
  \/ \E u \in Users : recycle(u)

Lookups ==
  \/ mplex_wait \/ check_registered_fds
  \/ accept_asks \/ \E l \in {NOTHING, SYSTEM_OBJECT, PORT} : open_asks(l)
  \/ name_lookup_call \/ \E i \in DOMAIN infos : kill_task(infos[i].task)

\* What the server does, and what the other processes do meanwhile.
Server ==
  /\ asked.at = "none" /\ UNCHANGED deaths
  /\ Lookups \/ ((MainLoop \/ BuiltIn) /\ UNCHANGED lookups)
Others ==
  \/ Processes /\ UNCHANGED <<server, deaths>>
  \/ Killed /\ deaths < focus.deaths /\ deaths' = deaths + 1 /\ UNCHANGED server
  \/ \E fd \in DOMAIN children : child_step(fd) /\ UNCHANGED <<server, deaths>>

Next == Restart \/ Server \/ ((opened \/ accepted) /\ UNCHANGED deaths) \/ Others
Spec == Init /\ [][Next]_vars

-----------------------------------------------------------------------------
\* No step of the server follows a null or a stale pointer, whatever verbs do
\* to connections while the main loop is in the middle of its list, and
\* player_connected() in the middle of a redirection (server.c:520, 1136): the
\* next handle is still there, each network handle has its shandle, no two
\* connections are one player's, and a queue is connected exactly when it has
\* a handle, of the same player and suspended alike (server.c:1120).
HandlesSound ==
  /\ ~ crashed
  /\ DOMAIN sh = DOMAIN nh
  /\ {pc.h, pc.next} \subseteq {0} \cup DOMAIN sh
  /\ verb.then \in {"close", "drop", "redirect", "input"} => verb.h \in DOMAIN sh
  /\ \A i, j \in DOMAIN sh : sh[i].player = sh[j].player => i = j
  /\ {i \in DOMAIN tq : tq[i].connected} = DOMAIN sh
  /\ \A i \in DOMAIN sh : tq[i].player = sh[i].player /\ tq[i].suspended = nh[i].suspended

\* For each user and listener the notifier verbs alternate, through
\* reconnections, redirections to another listener and crashes: whenever the
\* loop is at rest what the database has been told is what is so.
NotifiersAlternate ==
  /\ ~ wrong
  /\ verb = NoVerb /\ pc.at # "saved"
       => \A u \in users : told[u] = connection_listener(u)

\* A client gets the lines sent to it in order, and is told of each line that
\* was dropped for want of room, however the queue is written and flushed
\* (net_multi.c:467).
OutputAccounted == \A i \in DOMAIN nh : Accounted(nh[i])

\* Whoever asks for a name or an address gets the answer to his own question or
\* none, although lookup processes exit in the middle of an answer, are replaced
\* or cannot be, and descriptors are used again (name_lookup.c:268, bg_name_lookup.c:297).
AnswersAreAsked ==
  /\ asked.answer \in {0, asked.q}
  /\ resumed.answer \in {0, resumed.task}

\* The registered descriptors, the children and the queue of name_lookup() are
\* those of the same tasks, whenever tasks are killed, children time out and
\* answers come, and the server never panics over a broken answer
\* (bg_name_lookup.c:343, 353).
LookupsSound ==
  /\ ~ panicked
  /\ async_name_lookup_len = Len(infos)
  /\ DOMAIN children = {infos[i].fd : i \in DOMAIN infos}
  /\ \A i \in DOMAIN infos : children[infos[i].fd].q = infos[i].task
  /\ \A i, j \in DOMAIN infos : i < j => infos[i].task < infos[j].task
  /\ {reg_fds[k] : k \in DOMAIN reg_fds} \ {FREE_FD}
       = {[fd |-> infos[i].fd, task |-> infos[i].task] : i \in DOMAIN infos}
  /\ \A k, l \in DOMAIN reg_fds : reg_fds[k] = reg_fds[l] => reg_fds[k] = FREE_FD \/ k = l

\* The lines made of the input do not depend on how it is cut into reads.
InputSplit ==
  \A i \in DOMAIN heard : heard[i].binary \/ heard[i].lines = LinesOfText(heard[i].text)
=============================================================================
