------------------------------- MODULE Execute -------------------------------
(***************************************************************************)
(* The virtual machine: execute.c, with call_bi_func of functions.c, the   *)
(* environments of eval_env.c, and the saving and reading back of a        *)
(* suspended task (eval_vm.c, write_activ and read_activ).                 *)
(*                                                                         *)
(* One behaviour runs one scenario: a table of verbs, the verb the task    *)
(* starts with, and the limits of the task.  Every step is one opcode of   *)
(* run(), or an event from outside: the alarm of the task's seconds, the   *)
(* resumption of the suspended task, a restart of the server while it is   *)
(* suspended, the start of a task it forked.                               *)
(*                                                                         *)
(* vm holds the state the C code keeps in activ_stack and its neighbours;  *)
(* unwind_stack and the built-in functions are operators from vm to vm,    *)
(* because the code runs them inside one opcode.                           *)
(***************************************************************************)
EXTENDS Values, CodeGen, Decompile, Text, FiniteSets

CONSTANTS Scenarios,     \* name -> scenario, see MCMachine
          NSLOTS         \* variables of every program

SLOT_ARGS == 0
SLOT_DOBJ == 1           \* stands for the variables call_verb2 copies
SLOT_PLAYER == 2
NOTHING == -1
SYSTEM_OBJECT == 0
Wizard == 3
EvalText == -2           \* where the table of verbs keeps the texts for eval(),
ForkText == -3           \* and the table of programs those of forked tasks

VARIABLES S,             \* the scenario
          vm,            \* see NewVM
          ticks, task_timed_out,
          prog,          \* the programs in memory
          reparsed       \* they were read back from the database

vars == <<S, vm, ticks, task_timed_out, prog, reparsed>>

\* The program of an activation.
Prog(a) == prog[a.key]

compile_all(s) ==
  [k \in DOMAIN s.verbs |-> generate_code(s.verbs[k].body, s.base)]

-----------------------------------------------------------------------------
(* Activations.                                                            *)

NoBi == [pc |-> 0, id |-> 0, data |-> <<>>]

new_rt_env == [i \in 0 .. NSLOTS - 1 |-> None]

NewActivation(key, self, verb, vloc, progr, debug, player, env) ==
  [key |-> key, vec |-> 0, first |-> 1, env |-> env, stack |-> <<>>,
   pc |-> 0, error_pc |-> 0, temp |-> None, bi |-> NoBi, self |-> self, player |-> player,
   progr |-> progr, vloc |-> vloc, verb |-> verb, debug |-> debug]

\* out: "run", "raise" (an error of the last opcode is to be raised), "blocked",
\* "done", "aborted", "lost".  handler: the traceback to report if the task aborts (handler_verb_name and
\* handler_verb_args); forked: the tasks it forked; log: what the player saw; task: how many tasks
\* have run.
NewVM(activ, props, log, forked, task) ==
  [activ |-> activ, out |-> "run", raised |-> <<>>, result |-> None, handler |-> None,
   props |-> props, log |-> log, forked |-> forked, task |-> task]

Top(m) == Last(m.activ)
SetTop(m, a) == [m EXCEPT !.activ[Len(m.activ)] = a]
Push(v, m) == SetTop(m, [Top(m) EXCEPT !.stack = Append(@, v)])

\* The vector an activation runs: only the root may be a forked one.
Vector(a) == IF a.vec = 0 THEN Prog(a).main ELSE Prog(a).forks[a.vec]

LineOf(a, pc) == a.first - 1 + find_line_number(Prog(a), a.vec, pc)

\* do_server_program_task: the task starts in the scenario's main verb.
do_server_program_task(s, key) ==
  LET v == s.verbs[key]
      env == [new_rt_env EXCEPT ![SLOT_ARGS] = List(<<>>), ![SLOT_DOBJ] = Obj(NOTHING),
                                ![SLOT_PLAYER] = Obj(v.progr)]
  IN NewVM(<<NewActivation(key, key[1], key[2], key[1], v.progr, v.debug, v.progr, env)>>,
           s.props, <<>>, <<>>, 1)

-----------------------------------------------------------------------------
(* Calling verbs.                                                          *)

valid(o) == o \in 0 .. 2
parent(o) == IF o = 1 THEN 2 ELSE NOTHING

\* db_find_callable_verb, modelled by its result: the first of the object
\* and its ancestors with the verb.
find_callable_verb(s, where, name) ==
  LET at == {o \in {where, parent(where)} : <<o, name>> \in DOMAIN s.verbs}
  IN IF at = {} THEN NOTHING ELSE IF where \in at THEN where ELSE parent(where)

push_activation_ok(m) == Len(m.activ) < S.max_depth

\* Returns E_NONE and the new machine, or the error and the machine as it was.
call_verb2(self, name, args, do_pass, m) ==
  LET c     == Top(m)
      where == IF do_pass THEN IF valid(c.vloc) THEN parent(c.vloc) ELSE NOTHING
               ELSE self
      loc   == find_callable_verb(S, where, name)
      v     == S.verbs[<<loc, name>>]
      player == IF c.progr = Wizard /\ c.env[SLOT_PLAYER][1] = "obj"
                THEN c.env[SLOT_PLAYER] ELSE Obj(c.player)
      env   == [new_rt_env EXCEPT ![SLOT_ARGS] = args, ![SLOT_DOBJ] = c.env[SLOT_DOBJ],
                                  ![SLOT_PLAYER] = player]
      a     == NewActivation(<<loc, name>>, self, name, loc, v.progr, v.debug,
                             player[2], env)
  IN CASE ~ valid(where) -> [err |-> "E_INVIND", m |-> m]
       [] valid(where) /\ loc = NOTHING -> [err |-> "E_VERBNF", m |-> m]
       [] valid(where) /\ loc /= NOTHING /\ ~ push_activation_ok(m)
            -> [err |-> "E_MAXREC", m |-> m]
       [] OTHER -> [err |-> "E_NONE", m |-> [m EXCEPT !.activ = Append(@, a)]]

setup_activ_for_eval(key, m) ==
  LET c   == Top(m)
      env == [new_rt_env EXCEPT ![SLOT_ARGS] = List(<<>>), ![SLOT_DOBJ] = Obj(NOTHING),
                                ![SLOT_PLAYER] = Obj(c.player)]
  IN [m EXCEPT !.activ = Append(@,
        NewActivation(key, NOTHING, <<>>, NOTHING, c.progr, TRUE, c.player, env))]

\* The frames start .. end, newest first, each with its object and its line; a
\* frame called by a built-in function has that function's frame below it.
RECURSIVE make_stack_list(_, _, _, _, _)
make_stack_list(activ, start, end, include_end, lines) ==
  LET a == activ[end]
      Frame(self, line) == <<List(<<Obj(self)>> \o IF lines THEN <<Num(line)>> ELSE <<>>)>>
  IN IF end < start THEN <<>>
     ELSE (IF include_end THEN Frame(a.self, IF lines THEN LineOf(a, a.error_pc) ELSE 0)
                          ELSE <<>>)
          \o (IF end /= start /\ a.bi.pc /= 0 THEN Frame(NOTHING, a.bi.pc) ELSE <<>>)
          \o make_stack_list(activ, start, end - 1, TRUE, lines)

-----------------------------------------------------------------------------
(* Built-in functions.  A package is what one returns to the interpreter.  *)

\* Least and greatest number of arguments (-1: any), and the types checked.
Prototype ==
  [raise |-> <<1, 3, <<"any">>>>, suspend |-> <<0, 1, <<"int">>>>,
   pass |-> <<0, -1, <<>>>>, call_function |-> <<1, -1, <<"str">>>>,
   set_task_perms |-> <<1, 1, <<"obj">>>>, caller_perms |-> <<0, 0, <<>>>>,
   callers |-> <<0, 1, <<"any">>>>, eval |-> <<1, 1, <<"str">>>>,
   notify |-> <<1, 1, <<"any">>>>, kill_task |-> <<0, 0, <<>>>>,
   verb_hook |-> <<1, 1, <<"str">>>>]

Pack(kind, v, m) == [kind |-> kind, v |-> v, val |-> Zero, pc |-> 0, data |-> <<>>, m |-> m]
make_var_pack(v, m) == Pack("RETURN", v, m)
make_error_pack(e, m) == Pack("RAISE", Err(e), m)
make_raise_pack(code, val, m) == [Pack("RAISE", code, m) EXCEPT !.val = val]
make_call_pack(pc, data, m) == [Pack("CALL", Zero, m) EXCEPT !.pc = pc, !.data = data]
tail_call_pack(m) == make_call_pack(0, <<>>, m)

bf_raise(args, m) ==
  make_raise_pack(args[1], IF Len(args) >= 3 THEN args[3] ELSE Zero, m)

bf_suspend(args, m) ==
  IF args /= <<>> /\ args[1][2] < 0 THEN make_error_pack("E_INVARG", m)
  ELSE Pack("SUSPEND", Zero, m)

bf_pass(args, m) ==
  LET r == call_verb2(Top(m).self, Top(m).verb, List(args), TRUE, m)
  IN IF r.err = "E_NONE" THEN tail_call_pack(r.m) ELSE make_error_pack(r.err, m)

bf_set_task_perms(args, progr, m) ==
  IF progr /= args[1][2] /\ progr /= Wizard THEN make_error_pack("E_PERM", m)
  ELSE make_var_pack(Zero, SetTop(m, [Top(m) EXCEPT !.progr = args[1][2]]))

bf_caller_perms(m) ==
  make_var_pack(Obj(IF Len(m.activ) = 1 THEN NOTHING
                    ELSE m.activ[Len(m.activ) - 1].progr), m)

bf_callers(args, m) ==
  LET lines == args /= <<>> /\ is_true(args[1])
  IN make_var_pack(List(make_stack_list(m.activ, 1, Len(m.activ), FALSE, lines)), m)

\* A text that does not parse is one with no entry in the table of verbs; all
\* who call eval() here are programmers.
bf_eval(arg, next, m) ==
  IF next /= 1 THEN make_var_pack(List(<<Num(1), arg>>), m)
  ELSE LET key == <<EvalText, arg[2][1][2]>>
       IN CASE key \notin DOMAIN S.verbs -> make_var_pack(List(<<Zero, List(<<>>)>>), m)
            [] key \in DOMAIN S.verbs /\ push_activation_ok(m) ->
                 make_call_pack(2, <<>>, setup_activ_for_eval(key, m))
            [] OTHER -> make_error_pack("E_MAXREC", m)

\* Stands for the built-in functions that call a verb of the database, such as
\* move() and create(), and go on when it returns.  This one calls the named
\* verb twice and returns what the second call returned; a verb that cannot be
\* called is skipped.
bf_verb_hook(arg, next, data, m) ==
  LET name == IF next = 1 THEN arg[2][1][2] ELSE data[1]
      r    == call_verb2(Top(m).self, name, List(<<Num(next)>>), FALSE, m)
  IN CASE next <= 2 /\ r.err = "E_NONE" -> make_call_pack(next + 1, <<name>>, r.m)
       [] next <= 2 /\ r.err /= "E_NONE" -> make_var_pack(Zero, m)
       [] OTHER -> make_var_pack(arg, m)

ArgsBad(name, args) ==
  LET p == Prototype[name]
  IN IF Len(args) < p[1] \/ (p[2] /= -1 /\ Len(args) > p[2]) THEN "E_ARGS"
     ELSE IF \E k \in DOMAIN p[3] : k \in DOMAIN args /\ p[3][k] \notin {"any", args[k][1]}
     THEN "E_TYPE" ELSE "E_NONE"

RECURSIVE call_bi_func(_, _, _, _, _, _)

\* call_function() passes the arguments on, and wraps the state of the
\* function it called into its own.
bf_call_function(arg, next, data, progr, m) ==
  LET fn   == IF next = 1 THEN arg[2][1][2] ELSE <<>>
      fnum == IF next = 1 THEN BiNum(S.fnames[fn]) ELSE data[1]
      p    == IF next = 1 THEN call_bi_func(fnum, List(Tail(arg[2])), 1, progr, <<>>, m)
              ELSE call_bi_func(fnum, arg, next, progr, data[2], m)
  IN IF next = 1 /\ fn \notin DOMAIN S.fnames
     THEN make_raise_pack(Err("E_INVARG"), arg[2][1], m)
     ELSE IF p.kind = "CALL" THEN [p EXCEPT !.data = <<fnum, p.data>>] ELSE p

\* A protected function calls the verb #0:bf_<name> in its place.
call_bi_func(id, arg, pc, progr, data, m) ==
  LET name == Builtins[id]
      bad  == ArgsBad(name, arg[2])
      prot == pc = 1 /\ name \in S.protected /\ Top(m).self /= SYSTEM_OBJECT
      r    == call_verb2(SYSTEM_OBJECT, <<"bf_">>, arg, FALSE, m)
  IN IF prot /\ r.err = "E_NONE" THEN tail_call_pack(r.m)
     ELSE IF prot /\ r.err = "E_MAXREC" THEN make_error_pack("E_MAXREC", m)
     ELSE IF prot /\ progr /= Wizard THEN make_error_pack("E_PERM", m)
     ELSE IF pc = 1 /\ bad /= "E_NONE" THEN make_error_pack(bad, m)
     ELSE CASE name = "raise"    -> bf_raise(arg[2], m)
            [] name = "suspend"  -> bf_suspend(arg[2], m)
            [] name = "pass"     -> bf_pass(arg[2], m)
            [] name = "call_function"  -> bf_call_function(arg, pc, data, progr, m)
            [] name = "set_task_perms" -> bf_set_task_perms(arg[2], progr, m)
            [] name = "caller_perms"   -> bf_caller_perms(m)
            [] name = "callers"  -> bf_callers(arg[2], m)
            [] name = "eval"     -> bf_eval(arg, pc, m)
            [] name = "notify"   ->
                 make_var_pack(Zero, [m EXCEPT !.log = Append(@, arg[2][1])])
            [] name = "kill_task" -> Pack("KILL", Zero, m)
            [] name = "verb_hook" -> bf_verb_hook(arg, pc, data, m)

-----------------------------------------------------------------------------
(* Exceptions, and every other way out of a frame.                         *)

FIN == [FALL_THRU |-> 0, RAISE |-> 1, UNCAUGHT |-> 2, RETURN |-> 3, ABORT |-> 4, EXIT |-> 5]

Handles(codes, code) == codes[1] /= "list" \/ ismember(code, codes) /= 0

\* Looks down the run-time stack of a frame, as far as goal, for a handler:
\* a FINALLY marker stops everything but an abort, a CATCH marker stops the
\* errors its arms name.
RECURSIVE unwind_rt_stack(_, _, _, _)
unwind_rt_stack(a, why, value, goal) ==
  IF Len(a.stack) <= goal THEN [a |-> a, caught |-> FALSE]
  ELSE
  LET v     == Last(a.stack)
      below == Front(a.stack)
      base  == Len(below) - 2 * v[2]
      arms  == {i \in 1 .. v[2] : Handles(below[base + 2 * i - 1], value[2][1])}
      first == CHOOSE i \in arms : \A j \in arms : i <= j
  IN IF why /= "ABORT" /\ v[1] = "finally"
     THEN [a |-> [a EXCEPT !.pc = v[2], !.stack = below \o <<Num(FIN[why]), value>>],
           caught |-> TRUE]
     ELSE IF why = "RAISE" /\ v[1] = "catch"
     THEN IF arms = {}
          THEN unwind_rt_stack([a EXCEPT !.stack = SubSeq(below, 1, base)], why, value, goal)
          ELSE [a |-> [a EXCEPT !.pc = below[base + 2 * first][2],
                                !.stack = Append(SubSeq(below, 1, base), value)],
                caught |-> TRUE]
     ELSE unwind_rt_stack([a EXCEPT !.stack = below], why, value, goal)

\* The hottest frame with a handler for code, 0 if there is none.
RECURSIVE HandlerBelow(_, _, _)
HandlerBelow(stack, n, code) ==
  IF n = 0 THEN FALSE
  ELSE IF stack[n][1] /= "catch" THEN HandlerBelow(stack, n - 1, code)
  ELSE LET base == n - 1 - 2 * stack[n][2]
       IN \/ \E i \in 1 .. stack[n][2] : Handles(stack[base + 2 * i - 1], code)
          \/ HandlerBelow(stack, base, code)

find_handler_activ(code, m) ==
  LET fs == {f \in DOMAIN m.activ :
               HandlerBelow(m.activ[f].stack, Len(m.activ[f].stack), code)}
  IN IF fs = {} THEN 0 ELSE CHOOSE f \in fs : \A g \in fs : g <= f

RECURSIVE unwind_stack(_, _, _), raise_error(_, _, _), unwind_builtin(_, _, _, _, _),
          return_to_builtin(_, _), back_in_builtin(_, _, _, _)

unwind_stack(why, value, m) ==
  LET a     == Top(m)
      u     == unwind_rt_stack(a, why, value,
                               IF why = "EXIT" THEN value[2][1][2] ELSE 0)
      below == [m EXCEPT !.activ = Front(@)]
  IN IF u.caught THEN SetTop(m, u.a)
     ELSE IF why = "EXIT" THEN SetTop(m, [u.a EXCEPT !.pc = value[2][2][2]])
     ELSE IF Len(m.activ) = 1
     THEN [below EXCEPT !.out = IF why = "RETURN" THEN "done" ELSE "aborted"]
     ELSE IF a.bi.pc /= 0
     THEN unwind_builtin(why, value, a.bi,
                         IF why = "RETURN" THEN Top(below).progr ELSE a.progr, below)
     ELSE IF why = "RETURN" THEN Push(value, below)
     ELSE unwind_stack(why, value, below)

\* The frame was called by a built-in function.  A return goes back into the
\* function, as the caller's programmer; on anything else the function is run
\* to its end with zeros, its calls and errors ignored, as the programmer of
\* the frame that was popped last.
unwind_builtin(why, value, bi, progr, m) ==
  back_in_builtin(why, value, bi,
    call_bi_func(bi.id, IF why = "RETURN" THEN value ELSE Zero, bi.pc,
                 progr, bi.data, m))

back_in_builtin(why, value, bi, p) ==
  CASE why = "RETURN" -> return_to_builtin(p, bi)
    [] why /= "RETURN" /\ p.kind /= "CALL" -> unwind_stack(why, value, p.m)
    [] why /= "RETURN" /\ p.kind = "CALL" /\ p.pc = 0 ->
         unwind_stack(why, value, [p.m EXCEPT !.activ = Front(@)])
    [] why /= "RETURN" /\ p.kind = "CALL" /\ p.pc /= 0 ->
         unwind_builtin(why, value, [bi EXCEPT !.pc = p.pc, !.data = p.data],
                        Top(p.m).progr, [p.m EXCEPT !.activ = Front(@)])

return_to_builtin(p, bi) ==
  CASE p.kind = "RETURN" \/ (p.kind = "RAISE" /\ ~ Top(p.m).debug) -> Push(p.v, p.m)
    [] p.kind = "RAISE" /\ Top(p.m).debug -> raise_error(p.v, p.val, p.m)
    [] p.kind = "CALL"  -> SetTop(p.m, [Top(p.m) EXCEPT
                             !.bi = [pc |-> p.pc, id |-> bi.id, data |-> p.data]])
    [] p.kind = "KILL"  -> unwind_stack("ABORT", Zero, p.m)

traceback(h, m) ==
  List(make_stack_list(m.activ, IF h = 0 THEN 1 ELSE h, Len(m.activ), TRUE, TRUE))

\* h: the frame of the handler, which gets {code, message, value, traceback}.
unwind_to(h, tb, code, val, m) ==
  unwind_stack(IF h /= 0 THEN "RAISE" ELSE "UNCAUGHT",
               IF h /= 0 THEN List(<<code, Str(<<>>), val, tb>>) ELSE Zero,
               IF h /= 0 THEN m ELSE [m EXCEPT !.handler = List(<<code, tb>>)])

handled_at(h, code, val, m) == unwind_to(h, traceback(h, m), code, val, m)

raise_error(code, val, m) == handled_at(find_handler_activ(code, m), code, val, m)

\* RAISE_ERROR and PUSH_ERROR; `other' is what goes on with the debug bit off.
\* The error is raised in a step of its own, before the next opcode.
Raising(code, val, m) == [m EXCEPT !.out = "raise", !.raised = <<code, val>>]
RaiseOr(e, m, other) == IF Top(m).debug THEN Raising(Err(e), Zero, m) ELSE other
PushError(e, m) == RaiseOr(e, m, Push(Err(e), m))

\* Pushes the value of an operation, or raises its error.
Result(v, m) == IF v[1] = "fail" THEN PushError(v[2], m) ELSE Push(v, m)

abort_task(m) ==
  unwind_stack("ABORT", Zero, [m EXCEPT !.handler = List(<<Str(<<"timeout">>), traceback(1, m)>>)])

-----------------------------------------------------------------------------
(* run().                                                                  *)

Running == vm.out = "run"
A  == Top(vm)
BC == Vector(A)
Op == BC.vector[A.pc + 1]
Eop == BC.vector[A.pc + 2]

\* The reference of the given kind at `skip' bytes after the opcode.
Ref(kind, skip) == ReadRef(BC, A.pc + 1 + skip, BC.nb[kind])
Width(kind) == BC.nb[kind]
Byte1(skip) == BC.vector[A.pc + 2 + skip]

\* The n-th value from the top, and the machine with n values popped and the
\* program counter at pc.
Nth(n) == A.stack[Len(A.stack) + 1 - n]
Goto(pc, n) == SetTop(vm, [A EXCEPT !.pc = pc, !.error_pc = A.pc, !.stack = SubSeq(@, 1, Len(@) - n)])
Next1(len, n) == Goto(A.pc + len, n)     \* after an instruction of len bytes
SetVar(id, v, m) == SetTop(m, [Top(m) EXCEPT !.env[id] = v])

\* A task that has used up its ticks or its seconds may start no opcode that
\* costs a tick.
Spent == COUNT_TICK(Op) /\ (ticks <= 1 \/ task_timed_out)

Step(m) ==
  /\ vm' = m
  /\ ticks' = IF /\ ticks > 0      \* a spent count only ever falls further
                 /\ \/ COUNT_TICK(Op)
                    \/ Op = OP["EXTENDED"] /\ COUNT_EOP_TICK(Eop)
              THEN ticks - 1 ELSE ticks
  /\ UNCHANGED <<S, task_timed_out, prog, reparsed>>

At(names) == Running /\ Op \in {OP[n] : n \in names} /\ ~ Spent
AtExt(names) == Running /\ Op = OP["EXTENDED"] /\ Eop \in {EOP[n] : n \in names}

AbortTask ==
  /\ Running /\ Spent
  /\ vm' = abort_task(SetTop(vm, [A EXCEPT !.error_pc = A.pc]))
  /\ UNCHANGED <<S, ticks, task_timed_out, prog, reparsed>>

RaiseError ==
  /\ vm.out = "raise"
  /\ vm' = raise_error(vm.raised[1], vm.raised[2], [vm EXCEPT !.out = "run", !.raised = <<>>])
  /\ UNCHANGED <<S, ticks, task_timed_out, prog, reparsed>>

\* Pops a value; jumps to the label after `skip' bytes if it is false.
do_test(skip, m) ==
  Goto(IF is_true(Nth(1)) THEN A.pc + 1 + skip + Width("label") ELSE Ref("label", skip), 1)

OpTest == At({"IF_QUES", "IF", "WHILE", "EIF"}) /\ Step(do_test(0, vm))

OpJump == At({"JUMP"}) /\ Step(Goto(Ref("label", 0), 0))

\* The list, or the bounds, stay on the stack during the loop.
ForLen == 1 + Width("var") + Width("label")
ForLabel == Ref("label", Width("var"))

OpForList ==
  /\ At({"FOR_LIST"})
  /\ LET count == Nth(1)[2]  list == Nth(2)
         done  == Goto(ForLabel, 2)
         body  == Push(Num(count + 1), Next1(ForLen, 1))
     IN Step(IF list[1] /= "list" THEN RaiseOr("E_TYPE", Next1(ForLen, 0), done)
             ELSE IF count > Len(list[2]) THEN done
             ELSE SetVar(Ref("var", 0), list[2][count], body))

OpForRange ==
  /\ At({"FOR_RANGE"})
  /\ LET to == Nth(1)  from == Nth(2)
         done == Goto(ForLabel, 2)
         body == Push(to, Push(<<from[1], from[2] + 1>>, Next1(ForLen, 2)))
     IN Step(IF to[1] \notin {"int", "obj"} \/ to[1] /= from[1]
             THEN RaiseOr("E_TYPE", Next1(ForLen, 0), done)
             ELSE IF from[2] > to[2] THEN done
             ELSE SetVar(Ref("var", 0), from, body))

OpPop == At({"POP"}) /\ Step(Next1(1, 1))

\* A literal that is popped at once is not even pushed.
OpImm ==
  /\ At({"IMM"})
  /\ LET len == 1 + Width("literal")
     IN Step(IF BC.vector[A.pc + len + 1] = OP["POP"] THEN Next1(len + 1, 0)
             ELSE Push(Prog(A).literals[Ref("literal", 0) + 1], Next1(len, 0)))

OpMakeEmptyList == At({"MAKE_EMPTY_LIST"}) /\ Step(Push(List(<<>>), Next1(1, 0)))
OpMakeSingletonList ==
  At({"MAKE_SINGLETON_LIST"}) /\ Step(Push(List(<<Nth(1)>>), Next1(1, 1)))
OpCheckListForSplice ==
  /\ At({"CHECK_LIST_FOR_SPLICE"})
  /\ Step(IF Nth(1)[1] = "list" THEN Next1(1, 0) ELSE PushError("E_TYPE", Next1(1, 1)))
OpListAddTail == At({"LIST_ADD_TAIL"}) /\ Step(Result(ListAddTail(Nth(2), Nth(1)), Next1(1, 2)))
OpListAppend == At({"LIST_APPEND"}) /\ Step(Result(ListAppend(Nth(2), Nth(1)), Next1(1, 2)))

OpIndexSet == At({"INDEXSET"}) /\ Step(Result(IndexSet(Nth(3), Nth(2), Nth(1)), Next1(1, 3)))

OpPutTemp == At({"PUT_TEMP"}) /\ Step(SetTop(vm, [A EXCEPT !.pc = @ + 1, !.temp = Nth(1)]))
OpPushTemp ==
  /\ At({"PUSH_TEMP"})
  /\ Step(SetTop(vm, [A EXCEPT !.pc = @ + 1, !.stack = Append(@, A.temp), !.temp = None]))

OpBinary ==
  \E n \in {"EQ", "NE", "LT", "LE", "GT", "GE", "IN", "MULT", "MINUS", "DIV", "MOD", "ADD"} :
    At({n}) /\ Step(Result(Binary(n, Nth(2), Nth(1)), Next1(1, 2)))

\* A short circuit keeps the left operand as the value.
OpAndOr ==
  /\ At({"AND", "OR"})
  /\ Step(IF is_true(Nth(1)) = (Op = OP["OR"]) THEN Goto(Ref("label", 0), 0)
          ELSE Next1(1 + Width("label"), 1))

OpNot == At({"NOT"}) /\ Step(Push(Bool(~ is_true(Nth(1))), Next1(1, 1)))
OpUnaryMinus == At({"UNARY_MINUS"}) /\ Step(Result(Negate(Nth(1)), Next1(1, 1)))

OpRef == At({"REF"}) /\ Step(Result(Index(Nth(2), Nth(1)), Next1(1, 2)))
OpPushRef == At({"PUSH_REF"}) /\ Step(Result(PushRef(Nth(2), Nth(1)), Next1(1, 0)))
OpRangeRef == At({"RANGE_REF"}) /\ Step(Result(RangeRef(Nth(3), Nth(2), Nth(1)), Next1(1, 3)))

Fetched(id) == IF A.env[id] = None THEN Fail("E_VARNF") ELSE A.env[id]

OpPush  == Running /\ IS_PUSH_n(Op) /\ Step(Result(Fetched(Op - OP_PUSH), Next1(1, 0)))
OpGPush == /\ Running /\ Op = OP_G_PUSH
           /\ Step(Result(Fetched(Ref("var", 0)), Next1(1 + Width("var"), 0)))

\* PUT_n takes the POP after it along.
OpPut ==
  /\ Running /\ IS_PUT_n(Op) /\ ~ Spent
  /\ Step(SetVar(Op - OP_PUT, Nth(1),
                 IF BC.vector[A.pc + 2] = OP["POP"] THEN Next1(2, 1) ELSE Next1(1, 0)))
OpGPut ==
  /\ Running /\ Op = OP_G_PUT /\ ~ Spent
  /\ Step(SetVar(Ref("var", 0), Nth(1), Next1(1 + Width("var"), 0)))

OpNum == Running /\ IS_OPTIM_NUM(Op) /\ Step(Push(Num(OptimNum(Op)), Next1(1, 0)))

\* Properties: those of object #1, each with the kind of property it is.
HasProp(props, o, name) == o = 1 /\ name \in DOMAIN props

bi_prop_protected(p, progr) == progr /= Wizard /\ p.protect

GetProp(props, obj, name, progr) ==
  CASE name[1] /= "str" \/ obj[1] /= "obj" -> Fail("E_TYPE")
    [] OTHER ->
         IF ~ valid(obj[2]) THEN Fail("E_INVIND")
         ELSE IF ~ HasProp(props, obj[2], name[2]) THEN Fail("E_PROPNF")
         ELSE LET p == props[name[2]]
              IN IF (IF p.kind = "none" THEN ~ p.r /\ progr \notin {p.owner, Wizard}
                     ELSE bi_prop_protected(p, progr))
                 THEN Fail("E_PERM") ELSE p.val

OpGetProp == At({"GET_PROP"}) /\ Step(Result(GetProp(vm.props, Nth(2), Nth(1), A.progr), Next1(1, 2)))
OpPushGetProp ==
  At({"PUSH_GET_PROP"}) /\ Step(Result(GetProp(vm.props, Nth(2), Nth(1), A.progr), Next1(1, 0)))

\* What forbids progr to set a property to rhs.  The owner of a built-in
\* property is the object's.
PutPropError(p, rhs, progr) ==
  LET owner == progr \in {p.owner, Wizard}
      bad   == CASE p.kind = "none" -> IF owner \/ p.w THEN "E_NONE" ELSE "E_PERM"
                 [] p.kind = "name" -> IF rhs[1] /= "str" THEN "E_TYPE"
                                       ELSE IF owner THEN "E_NONE" ELSE "E_PERM"
                 [] p.kind = "owner" -> IF rhs[1] /= "obj" THEN "E_TYPE"
                                        ELSE IF progr = Wizard THEN "E_NONE" ELSE "E_PERM"
                 [] p.kind = "wizard" -> IF progr = Wizard THEN "E_NONE" ELSE "E_PERM"
                 [] p.kind = "r" -> IF owner THEN "E_NONE" ELSE "E_PERM"
                 [] p.kind = "location" -> "E_PERM"
  IN bad

PutProp(props, obj, name, rhs, progr) ==
  CASE obj[1] /= "obj" \/ name[1] /= "str" -> "E_TYPE"
    [] OTHER -> IF ~ valid(obj[2]) THEN "E_INVIND"
                ELSE IF ~ HasProp(props, obj[2], name[2]) THEN "E_PROPNF"
                ELSE PutPropError(props[name[2]], rhs, progr)

OpPutProp ==
  /\ At({"PUT_PROP"})
  /\ LET err == PutProp(vm.props, Nth(3), Nth(2), Nth(1), A.progr)
     IN Step(IF err /= "E_NONE" THEN PushError(err, Next1(1, 3))
             ELSE [Push(Nth(1), Next1(1, 3)) EXCEPT !.props[Nth(2)[2]].val = Nth(1)])

\* The forked task gets a copy of the variables, its own number included.
enqueue_forked_task2(f_index, id, m) ==
  LET n  == Num(Len(m.forked) + 1)
      m1 == IF id >= 0 THEN SetVar(id, n, m) ELSE m
  IN [m1 EXCEPT !.forked = Append(@, [Top(m1) EXCEPT !.vec = f_index + 1])]

OpFork ==
  /\ At({"FORK", "FORK_WITH_ID"})
  /\ LET named == Op = OP["FORK_WITH_ID"]
         m == Next1(1 + Width("fork") + (IF named THEN Width("var") ELSE 0), 1)
         id == IF named THEN Ref("var", Width("fork")) ELSE -1
     IN Step(IF Nth(1)[1] /= "int" THEN RaiseOr("E_TYPE", m, m)
             ELSE IF Nth(1)[2] < 0 THEN RaiseOr("E_INVARG", m, m)
             ELSE IF S.quota THEN RaiseOr("E_QUOTA", m, m)
             ELSE enqueue_forked_task2(Ref("fork", 0), id, m))

OpCallVerb ==
  /\ At({"CALL_VERB"})
  /\ LET args == Nth(1)  verb == Nth(2)  obj == Nth(3)
         m == Next1(1, 3)
         r == call_verb2(obj[2], verb[2], args, FALSE, m)
     IN Step(IF args[1] /= "list" \/ verb[1] /= "str" \/ obj[1] /= "obj"
             THEN PushError("E_TYPE", m)
             ELSE IF ~ valid(obj[2]) THEN PushError("E_INVIND", m)
             ELSE IF r.err /= "E_NONE" THEN PushError(r.err, m)
             ELSE r.m)

OpReturn ==
  /\ At({"RETURN", "RETURN0", "DONE"})
  /\ LET value == IF Op = OP["RETURN"] THEN Nth(1) ELSE Zero
         m == Next1(1, IF Op = OP["RETURN"] THEN 1 ELSE 0)
         Ended1(u) == IF u.out = "done" THEN [u EXCEPT !.result = value] ELSE u
     IN Step(Ended1(unwind_stack("RETURN", value, m)))

suspend_task(m) == IF S.quota THEN PushError("E_QUOTA", m) ELSE [m EXCEPT !.out = "blocked"]

\* The opcode goes on with what the function asks for.
after_builtin(p, id) ==
  CASE p.kind = "RETURN" \/ (p.kind = "RAISE" /\ ~ Top(p.m).debug) -> Push(p.v, p.m)
    [] p.kind = "RAISE" /\ Top(p.m).debug -> Raising(p.v, p.val, p.m)
    [] p.kind = "CALL" -> SetTop(p.m, [Top(p.m) EXCEPT
                            !.bi = [pc |-> p.pc, id |-> id, data |-> p.data]])
    [] p.kind = "SUSPEND" -> suspend_task(p.m)
    [] p.kind = "KILL" -> unwind_stack("ABORT", Zero, p.m)

OpBiFuncCall ==
  /\ At({"BI_FUNC_CALL"})
  /\ LET m == Next1(2, 1)
         id == Byte1(0)
     IN Step(IF Nth(1)[1] /= "list" THEN PushError("E_TYPE", m)
             ELSE after_builtin(call_bi_func(id, Nth(1), 1, A.progr, <<>>, m), id))

-----------------------------------------------------------------------------
(* Extended opcodes.                                                       *)

EopRangeSet ==
  AtExt({"RANGESET"}) /\ Step(Result(RangeSet(Nth(4), Nth(3), Nth(2), Nth(1)), Next1(2, 4)))

EopLength ==
  /\ AtExt({"LENGTH"})
  /\ Step(Result(Length(A.stack[Ref("stack", 1) + 1]), Next1(2 + Width("stack"), 0)))

EopExp == AtExt({"EXP"}) /\ Step(Result(do_power(Nth(2), Nth(1)), Next1(2, 2)))

\* Distributes the list over the variables, left to right.  `avail' optional
\* items can still be filled, `off' is the shift between item and element,
\* `where' the first default to run.
RECURSIVE scatter(_, _, _, _, _, _)
scatter(list, i, avail, off, where, m) ==
  LET n == Byte1(1)  rest == Byte1(3)
      size == Width("var") + Width("label")
      id   == Ref("var", 4 + (i - 1) * size)
      label == Ref("label", 4 + (i - 1) * size + Width("var"))
      nrest == IF rest <= n /\ Len(list) >= n THEN Len(list) - n + 1 ELSE 0
  IN IF i > n THEN [m |-> m, where |-> where]
     ELSE IF i = rest
     THEN scatter(list, i + 1, avail, off + nrest - 1, where,
                  SetVar(id, List(sublist(list, i, i + nrest - 1)), m))
     ELSE IF label = 0
     THEN scatter(list, i + 1, avail, off, where, SetVar(id, list[i + off], m))
     ELSE IF avail > 0
     THEN scatter(list, i + 1, avail - 1, off, where, SetVar(id, list[i + off], m))
     ELSE scatter(list, i + 1, avail, off - 1,
                  IF where = 0 /\ label /= 1 THEN label ELSE where, m)

EopScatter ==
  /\ AtExt({"SCATTER"})
  /\ LET list == Nth(1)  n == Byte1(1)  nreq == Byte1(2)  rest == Byte1(3)
         done == Ref("label", 4 + n * (Width("var") + Width("label")))
         e == IF list[1] /= "list" THEN "E_TYPE"
              ELSE IF Len(list[2]) < nreq \/ (rest > n /\ Len(list[2]) > n) THEN "E_ARGS"
              ELSE "E_NONE"
         r == scatter(list[2], 1, Len(list[2]) - nreq, 0, 0, vm)
     IN Step(IF e /= "E_NONE" THEN PushError(e, Goto(done, 1))
             ELSE SetTop(r.m, [Top(r.m) EXCEPT !.pc = IF r.where = 0 THEN done ELSE r.where]))

EopPushLabel ==
  /\ AtExt({"PUSH_LABEL", "TRY_FINALLY"})
  /\ Step(Push(<<IF Eop = EOP["PUSH_LABEL"] THEN "int" ELSE "finally", Ref("label", 1)>>,
               Next1(2 + Width("label"), 0)))

EopCatch ==
  /\ AtExt({"CATCH", "TRY_EXCEPT"})
  /\ Step(IF Eop = EOP["CATCH"] THEN Push(<<"catch", 1>>, Next1(2, 0))
          ELSE Push(<<"catch", Byte1(1)>>, Next1(3, 0)))

\* The end of the protected code: its value, if it is an expression, stays.
EopEndCatch ==
  /\ AtExt({"END_CATCH", "END_EXCEPT"})
  /\ LET value == Eop = EOP["END_CATCH"]
         n == (IF value THEN Nth(2)[2] ELSE Nth(1)[2]) * 2 + 1
         m == Goto(Ref("label", 1), n + IF value THEN 1 ELSE 0)
     IN Step(IF value THEN Push(Nth(1), m) ELSE m)

EopEndFinally ==
  AtExt({"END_FINALLY"}) /\ Step(Push(Zero, Push(Num(FIN["FALL_THRU"]), Next1(2, 1))))

\* The end of a finally handler goes on with what brought the task there.
\* Here run() does not set *result.
EopContinue_always ==
  AtExt({"CONTINUE"}) /\ Step(Next1(2, 2))
EopContinue ==
  /\ AtExt({"CONTINUE"})
  /\ LET m == Next1(2, 2)
     IN Step(IF Nth(2)[2] = FIN["FALL_THRU"] THEN m
             ELSE unwind_stack(CHOOSE w \in DOMAIN FIN : FIN[w] = Nth(2)[2], Nth(1), m))

EopWhileId ==
  /\ AtExt({"WHILE_ID"})
  /\ Step(SetVar(Ref("var", 1), Nth(1), do_test(1 + Width("var"), vm)))

EopExit ==
  /\ AtExt({"EXIT", "EXIT_ID"})
  /\ LET skip == 1 + IF Eop = EOP["EXIT_ID"] THEN Width("var") ELSE 0
     IN Step(unwind_stack("EXIT",
               List(<<Num(Ref("stack", skip)), Num(Ref("label", skip + Width("stack")))>>), vm))

-----------------------------------------------------------------------------
(* Around run().                                                           *)

task_timeout ==
  /\ Running /\ S.timeouts /\ ~ task_timed_out
  /\ task_timed_out' = TRUE
  /\ UNCHANGED <<S, vm, ticks, prog, reparsed>>

\* The end of run_interpreter: the traceback of an aborted task goes to the
\* player unless the verb #0:handle_... has taken care of it (external).
ReportTraceback ==
  /\ vm.out = "aborted" /\ vm.handler /= None
  /\ vm' = [vm EXCEPT !.handler = None,
                      !.log = IF S.handled THEN @ ELSE Append(@, vm.handler)]
  /\ UNCHANGED <<S, ticks, task_timed_out, prog, reparsed>>

setup_task_execution_limits == ticks' = S.ticks /\ task_timed_out' = FALSE

\* The value suspend() returns, or the error it raises.
resume_from_previous_vm ==
  /\ vm.out = "blocked"
  /\ LET m == [vm EXCEPT !.out = "run", !.handler = None]
     IN vm' = IF S.resume[1] = "err"
              THEN PushError(S.resume[2], SetTop(m, [A EXCEPT !.error_pc = A.pc]))
              ELSE Push(S.resume, m)
  /\ setup_task_execution_limits
  /\ UNCHANGED <<S, prog, reparsed>>

check_pc_validity(bc, pc) ==
  /\ pc < bc.size
  /\ \/ bc.vector[pc] = OP["CALL_VERB"]
     \/ pc >= 2 /\ bc.vector[pc - 1] = OP["BI_FUNC_CALL"]

\* The server writes the suspended task and its waiting children to the
\* database and reads them back: the programs are compiled anew from their
\* text, program counters and stacks are kept.
reread(p, vec) ==
  generate_code(
    parse_program(unparse_program(decompile_program(p, vec).stmts)).stmts, S.base)

write_and_read_task_queue ==
  /\ vm.out = "blocked" /\ S.restart /\ ~ reparsed
  /\ LET own(a) == <<ForkText, <<a.key, a.vec>>>>
         source(k) == IF k \in DOMAIN prog THEN <<k, 0>> ELSE k[2]
         forks == {vm.forked[i] : i \in DOMAIN vm.forked}
         read_forked(a) == [a EXCEPT !.vec = 0, !.key = own(a), !.first = LineOf(a, 0)]
     IN /\ prog' = [k \in DOMAIN prog \cup {own(a) : a \in forks} |->
                       reread(prog[source(k)[1]], source(k)[2])]
        /\ vm' = [vm EXCEPT !.out = IF \A i \in DOMAIN vm.activ :
                                         LET a == vm.activ[i]
                                             p == prog'[a.key]
                                         IN check_pc_validity(IF a.vec = 0 THEN p.main
                                                              ELSE p.forks[a.vec], a.pc)
                                      THEN @ ELSE "lost",
                            !.forked = [i \in DOMAIN @ |-> read_forked(@[i])]]
  /\ reparsed' = TRUE
  /\ UNCHANGED <<S, ticks, task_timed_out>>

Ended == vm.out = "done" \/ (vm.out = "aborted" /\ vm.handler = None)

do_forked_task_once ==
  /\ Ended /\ vm.forked /= <<>>
  /\ LET a == [Head(vm.forked) EXCEPT !.pc = 0, !.error_pc = 0, !.bi = NoBi,
                                      !.temp = None, !.stack = <<>>]
     IN vm' = NewVM(<<a>>, vm.props, vm.log, <<>>, vm.task + 1)
  /\ setup_task_execution_limits
  /\ UNCHANGED <<S, prog, reparsed>>

\* A forked task starts in its vector with a copy of its parent's frame.
do_forked_task ==
  /\ Ended /\ vm.forked /= <<>>
  /\ LET a == [Head(vm.forked) EXCEPT !.pc = 0, !.error_pc = 0, !.bi = NoBi,
                                      !.temp = None, !.stack = <<>>]
     IN vm' = NewVM(<<a>>, vm.props, vm.log, Tail(vm.forked), vm.task + 1)
  /\ setup_task_execution_limits
  /\ UNCHANGED <<S, prog, reparsed>>

AllDone == vm.out = "lost" \/ (Ended /\ vm.forked = <<>>)

Idle == AllDone /\ UNCHANGED vars

Init ==
  /\ \E n \in DOMAIN Scenarios : S = Scenarios[n]
  /\ vm = do_server_program_task(S, S.main)
  /\ ticks = S.ticks
  /\ task_timed_out = FALSE /\ prog = compile_all(S) /\ reparsed = FALSE

Opcode ==
  \/ AbortTask \/ OpTest \/ OpJump \/ OpForList \/ OpForRange \/ OpPop \/ OpImm
  \/ OpMakeEmptyList \/ OpMakeSingletonList \/ OpCheckListForSplice \/ OpListAddTail
  \/ OpListAppend \/ OpIndexSet \/ OpPutTemp \/ OpPushTemp \/ OpBinary \/ OpAndOr
  \/ OpNot \/ OpUnaryMinus \/ OpRef \/ OpPushRef \/ OpRangeRef \/ OpPush \/ OpGPush
  \/ OpPut \/ OpGPut \/ OpNum \/ OpGetProp \/ OpPushGetProp \/ OpPutProp \/ OpFork
  \/ OpCallVerb \/ OpReturn \/ OpBiFuncCall \/ EopRangeSet \/ EopLength \/ EopExp
  \/ EopScatter \/ EopPushLabel \/ EopCatch \/ EopEndCatch \/ EopEndFinally
  \/ EopContinue \/ EopWhileId \/ EopExit

Next ==
  \/ Opcode \/ RaiseError \/ task_timeout \/ ReportTraceback \/ resume_from_previous_vm
  \/ do_forked_task \/ Idle \/ write_and_read_task_queue

\* The interpreter does not stop between opcodes, and the task loop comes back
\* to every task that waits.
Spec == Init /\ [][Next]_vars /\ WF_vars(Next)
=============================================================================
