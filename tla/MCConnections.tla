---------------------------- MODULE MCConnections ----------------------------
(* What one behaviour of Connections is about, each with its own bounds.   *)
EXTENDS Connections

MCNothing == -1

none == [conns |-> 0, chars |-> 0, calls |-> 0, restarts |-> 0, messages |-> FALSE, sysv |-> FALSE,
         asks |-> 0, deaths |-> 0,
         chunks |-> {}, outputs |-> {}, builtins |-> {}]

meddling == {"boot_player", "force_input", "open_network_connection", "recycle"}
keys == {"a", "CR", "LF", "BS", "ctl"}

MCFocuses ==
  {\* verbs that do things to connections while the server handles them,
   [none EXCEPT !.conns = 3, !.calls = 1, !.chars = 1, !.chunks = {<<"CR">>}, !.builtins = meddling],
   [none EXCEPT !.conns = 2, !.calls = 2, !.chars = 2, !.chunks = {<<"CR">>}, !.builtins = meddling],
   \* the same users at two listeners, and crashes,
   [none EXCEPT !.conns = 2, !.calls = 2, !.restarts = 1, !.builtins = {"listen", "unlisten", "boot_player"}],
   \* output within and beyond the limit,
   [none EXCEPT !.conns = 1, !.calls = 5, !.messages = TRUE, !.outputs = {0, 2, 4}, !.builtins = {"notify"}],
   \* questions to the two processes, which are killed now and then,
   [none EXCEPT !.conns = 2, !.calls = 2, !.asks = 3, !.deaths = 1, !.sysv = TRUE,
                !.builtins = {"open_network_connection"}],
   \* tasks suspended in name_lookup(),
   [none EXCEPT !.calls = 4, !.asks = 3, !.builtins = {"name_lookup", "kill_task"}],
   [none EXCEPT !.conns = 1, !.calls = 3, !.asks = 2, !.builtins = {"name_lookup", "kill_task"}],
   \* and input in chunks.
   [none EXCEPT !.conns = 1, !.calls = 1, !.chars = 4, !.builtins = {"set_connection_option"},
                !.chunks = {<<a>> : a \in keys} \cup {<<a, b>> : a, b \in keys \ {"ctl"}}]}
=============================================================================
