------------------------------- MODULE Language -------------------------------
(***************************************************************************)
(* What a MOO program means, without a compiler or a machine: a            *)
(* definitional interpreter over syntax trees, for the virtual machine to  *)
(* be compared with.  It knows of expressions, statements and frames, and  *)
(* nothing of labels, stacks, markers or the reasons a frame is left.      *)
(*                                                                         *)
(* st holds the frame f (object, verb, programmer, variables, the line     *)
(* being run), and the world: properties, log, forked tasks.  Evaluation   *)
(* gives a record with how: "val" for a value, "raise" for an exception    *)
(* {code, message, value, traceback}, "abort" for a killed task; and for   *)
(* statements also "fall", "return", "break" and "continue".               *)
(***************************************************************************)
EXTENDS Execute

R(how, v, st) == [how |-> how, v |-> v, st |-> st]
Val(v, st) == R("val", v, st)
Then(r, K(_)) == IF r.how = "val" THEN K(r) ELSE r

Entry(f) == List(<<Obj(f.self), Num(f.line)>>)
Throw(code, val, st) ==
  R("raise", List(<<code, Str(<<>>), val, List(<<Entry(st.f)>>)>>), st)

\* An operation's result; with the debug bit off an error is a value.
Chk(v, st) == IF v[1] /= "fail" THEN Val(v, st)
              ELSE IF st.f.debug THEN Throw(Err(v[2]), Zero, st) ELSE Val(Err(v[2]), st)

GetVar(slot, st) == IF st.f.env[slot] = None THEN Fail("E_VARNF") ELSE st.f.env[slot]
PutVar(slot, v, st) == [st EXCEPT !.f.env[slot] = v]

RECURSIVE Ev(_, _, _), EvArgs(_, _, _, _), Run(_, _, _), CallBuiltin(_, _, _),
          DoBuiltin(_, _, _)

-----------------------------------------------------------------------------
(* Calls.                                                                  *)

\* Runs a body in a new frame and comes back to the frame of st.  An exception
\* adds the frame it passes to its traceback, and bi, the place in the
\* built-in function that made the call, if it was one.
InFrame(f, body, bi, st) ==
  LET Traceback(tb) == tb \o (IF bi = 0 THEN <<>> ELSE <<List(<<Obj(NOTHING), Num(bi)>>)>>)
                          \o <<Entry(st.f)>>
      Leave(r, back) ==
        CASE r.how = "raise"  -> R("raise", List([r.v[2] EXCEPT ![4] = List(Traceback(@[2]))]), back)
          [] r.how = "abort"  -> R("abort", Zero, back)
          [] r.how = "return" -> Val(r.v, back)
          [] r.how = "fall"   -> Val(Zero, back)
      Left(r) == Leave(r, [r.st EXCEPT !.f = st.f])
  IN Left(Run(body, 1, [st EXCEPT !.f = f]))

\* Calls the verb found at `where' or above; a failure is left to the caller.
CallVerb(self, where, name, args, bi, st) ==
  LET loc == find_callable_verb(st.s, where, name)
      v   == st.s.verbs[<<loc, name>>]
      player == IF st.f.progr = Wizard /\ st.f.env[SLOT_PLAYER][1] = "obj"
                THEN st.f.env[SLOT_PLAYER] ELSE Obj(st.f.player)
      env == [new_rt_env EXCEPT ![SLOT_ARGS] = args, ![SLOT_DOBJ] = st.f.env[SLOT_DOBJ],
                                ![SLOT_PLAYER] = player]
      f   == [self |-> self, verb |-> name, vloc |-> loc, progr |-> v.progr, debug |-> v.debug,
              player |-> player[2], env |-> env, line |-> 1, depth |-> st.f.depth + 1,
              callers |-> <<st.f>> \o st.f.callers, bi |-> bi]
  IN IF ~ valid(where) THEN R("no", "E_INVIND", st)
     ELSE IF loc = NOTHING THEN R("no", "E_VERBNF", st)
     ELSE IF st.f.depth >= st.s.max_depth THEN R("no", "E_MAXREC", st)
     ELSE InFrame(f, v.body, bi, st)

OrFail(r) == IF r.how = "no" THEN Chk(Fail(r.v), r.st) ELSE r

Eval(text, st) ==
  LET key == <<EvalText, text>>
      env == [new_rt_env EXCEPT ![SLOT_ARGS] = List(<<>>), ![SLOT_DOBJ] = Obj(NOTHING),
                                ![SLOT_PLAYER] = Obj(st.f.player)]
      f   == [st.f EXCEPT !.self = NOTHING, !.verb = <<>>, !.vloc = NOTHING, !.debug = TRUE,
                          !.env = env, !.line = 1, !.depth = @ + 1, !.bi = 2,
                          !.callers = <<st.f>> \o @]
  IN IF key \notin DOMAIN st.s.verbs THEN Val(List(<<Zero, List(<<>>)>>), st)
     ELSE IF st.f.depth >= st.s.max_depth THEN Chk(Fail("E_MAXREC"), st)
     ELSE Then(InFrame(f, st.s.verbs[key].body, 2, st),
               LAMBDA r : Val(List(<<Num(1), r.v>>), r.st))

\* The verb is called twice; the second value counts.
HookCall(i, name, st) == CallVerb(st.f.self, st.f.self, name, List(<<Num(i)>>), i + 1, st)
OrZero(r) == IF r.how = "no" THEN Val(Zero, r.st) ELSE r
HookAgain(name, r) ==
  IF r.how = "no" THEN Val(Zero, r.st)
  ELSE Then(r, LAMBDA q : OrZero(HookCall(2, name, q.st)))
VerbHook(name, st) == HookAgain(name, HookCall(1, name, st))

Callers(lines, st) ==
  LET E(self, line) == <<List(<<Obj(self)>> \o IF lines THEN <<Num(line)>> ELSE <<>>)>>
      Builtin(f) == IF f.bi /= 0 /\ f.callers /= <<>> THEN E(NOTHING, f.bi) ELSE <<>>
      Frames == [i \in DOMAIN st.f.callers |->
                   E(st.f.callers[i].self, st.f.callers[i].line) \o Builtin(st.f.callers[i])]
  IN List(Builtin(st.f) \o FlattenSeq(Frames))

Unless(hook, name, args) ==
  IF hook.how /= "no" \/ hook.v = "E_MAXREC" THEN OrFail(hook)
  ELSE IF hook.st.f.progr /= Wizard THEN Chk(Fail("E_PERM"), hook.st)
  ELSE DoBuiltin(name, args, hook.st)

\* A protected function gives way to the verb #0:bf_<name>.
CallBuiltin(name, args, st) ==
  IF name \in st.s.protected /\ st.f.self /= SYSTEM_OBJECT
  THEN Unless(CallVerb(SYSTEM_OBJECT, SYSTEM_OBJECT, <<"bf_">>, List(args), 0, st), name, args)
  ELSE DoBuiltin(name, args, st)

DoBuiltin(name, args, st) ==
  LET bad == ArgsBad(name, args)
      a1  == args[1]
  IN IF bad /= "E_NONE" THEN Chk(Fail(bad), st)
     ELSE CASE name = "raise" ->
                 IF st.f.debug THEN Throw(a1, IF Len(args) >= 3 THEN args[3] ELSE Zero, st)
                 ELSE Val(a1, st)
            [] name = "suspend" ->
                 IF args /= <<>> /\ a1[2] < 0 THEN Chk(Fail("E_INVARG"), st)
                 ELSE IF st.s.quota THEN Chk(Fail("E_QUOTA"), st)
                 ELSE Chk(IF st.s.resume[1] = "err" THEN Fail(st.s.resume[2])
                          ELSE st.s.resume, st)
            [] name = "pass" ->
                 OrFail(CallVerb(st.f.self, IF valid(st.f.vloc) THEN parent(st.f.vloc)
                                            ELSE NOTHING, st.f.verb, List(args), 0, st))
            [] name = "call_function" ->
                 IF a1[2] \notin DOMAIN st.s.fnames
                 THEN IF st.f.debug THEN Throw(Err("E_INVARG"), a1, st)
                                    ELSE Val(Err("E_INVARG"), st)
                 ELSE CallBuiltin(st.s.fnames[a1[2]], Tail(args), st)
            [] name = "set_task_perms" ->
                 IF st.f.progr /= a1[2] /\ st.f.progr /= Wizard THEN Chk(Fail("E_PERM"), st)
                 ELSE Val(Zero, [st EXCEPT !.f.progr = a1[2]])
            [] name = "caller_perms" ->
                 Val(Obj(IF st.f.callers = <<>> THEN NOTHING ELSE st.f.callers[1].progr), st)
            [] name = "callers" -> Val(Callers(args /= <<>> /\ is_true(a1), st), st)
            [] name = "eval" -> Eval(a1[2], st)
            [] name = "notify" -> Val(Zero, [st EXCEPT !.log = Append(@, a1)])
            [] name = "kill_task" -> R("abort", Zero, st)
            [] name = "verb_hook" -> VerbHook(a1[2], st)

-----------------------------------------------------------------------------
(* Expressions.  d is the value `$' measures.                              *)

\* acc is the list so far; a value that is no list fails at the next argument.
EvArgs(args, acc, d, st) ==
  IF args = <<>> THEN Val(IF acc = None THEN List(<<>>) ELSE acc, st)
  ELSE LET Step1(r) == CASE acc = None /\ Head(args)[1] = "normal" -> List(<<r.v>>)
                         [] acc = None /\ Head(args)[1] = "splice" ->
                              IF r.v[1] = "list" THEN r.v ELSE Fail("E_TYPE")
                         [] acc /= None /\ Head(args)[1] = "normal" -> ListAddTail(acc, r.v)
                         [] acc /= None /\ Head(args)[1] = "splice" -> ListAppend(acc, r.v)
       IN Then(Ev(Head(args)[2], d, st), LAMBDA r :
            Then(Chk(Step1(r), r.st), LAMBDA q : EvArgs(Tail(args), q.v, d, q.st)))

EvList(args, d, st) == EvArgs(args, None, d, st)

Ev2(a, b, d, st, K(_, _, _)) ==
  Then(Ev(a, d, st), LAMBDA r : Then(Ev(b, d, r.st), LAMBDA q : K(r.v, q.v, q.st)))

\* An lvalue under an index: its value, and how to put a new value there.
RECURSIVE Place(_, _, _), Store(_, _, _)

\* Evaluates the parts of an lvalue: <<kind, parts...>>.
Place(e, d, st) ==
  LET Content(p) ==
        CASE p.v[1] = "id"    -> GetVar(p.v[2], p.st)
          [] p.v[1] = "prop"  -> GetProp(p.st.props, p.v[2], p.v[3], p.st.f.progr)
          [] p.v[1] = "index" -> PushRef(p.v[3], p.v[4])
      Within(K(_, _)) == Then(Place(e[2], d, st), LAMBDA p :
                           Then(Chk(Content(p), p.st), LAMBDA q : K(p.v, q)))
  IN CASE e[1] = "id"   -> Val(e, st)
       [] e[1] = "prop" -> Ev2(e[2], e[3], d, st, LAMBDA o, n, u : Val(<<"prop", o, n>>, u))
       [] e[1] = "index" ->
            Within(LAMBDA p, q : Then(Ev(e[3], q.v, q.st), LAMBDA i :
              Val(<<"index", p, q.v, i.v>>, i.st)))
       [] e[1] = "range" ->
            Within(LAMBDA p, q : Ev2(e[3], e[4], q.v, q.st, LAMBDA i, j, u :
              Val(<<"range", p, q.v, i, j>>, u)))

Store(p, v, st) ==
  CASE p[1] = "id" -> Val(v, PutVar(p[2], v, st))
    [] p[1] = "prop" ->
         LET err == PutProp(st.props, p[2], p[3], v, st.f.progr)
         IN IF err /= "E_NONE" THEN Chk(Fail(err), st)
            ELSE Val(v, [st EXCEPT !.props[p[3][2]].val = v])
    [] p[1] = "index" ->
         Then(Chk(IndexSet(p[3], p[4], v), st), LAMBDA r : Store(p[2], r.v, r.st))
    [] p[1] = "range" ->
         Then(Chk(RangeSet(p[3], p[4], p[5], v), st), LAMBDA r : Store(p[2], r.v, r.st))

\* An indexed assignment has the value of its right-hand side; one to a
\* property has the error, with the debug bit off and the property not set.
Assign(lhs, rhs, d, st) ==
  Then(Place(lhs, d, st), LAMBDA p :
    Then(Ev(rhs, d, p.st), LAMBDA r :
      Then(Store(p.v, r.v, r.st), LAMBDA q :
        Val(IF lhs[1] \in {"index", "range"} THEN r.v ELSE q.v, q.st))))

\* Scattering: item i gets what is left for it once the required ones have
\* theirs; the rest item takes the surplus.
Scatter(items, list, d, st) ==
  LET n == Len(items)
      len == Len(list)
      Count(kind, upto) == Cardinality({i \in 1 .. upto : items[i][1] = kind})
      rest == Count("rest", n) > 0
      opt == len - Count("required", n)
      Got(i) == items[i][1] = "optional" /\ Count("optional", i) <= opt
      filled == Cardinality({i \in 1 .. n : Got(i)})
      surplus == opt - filled
      Pos(i) == 1 + Count("required", i - 1) + Cardinality({j \in 1 .. i - 1 : Got(j)})
                  + IF Count("rest", i - 1) > 0 THEN surplus ELSE 0
      Given(i) == IF items[i][1] = "rest" THEN List(SubSeq(list, Pos(i), Pos(i) + surplus - 1))
                  ELSE list[Pos(i)]
      set == {i \in 1 .. n : items[i][1] /= "optional" \/ Got(i)}
      put == [st EXCEPT !.f.env =
                [s \in DOMAIN @ |->
                   LET is == {i \in set : items[i][2] = s}
                   IN IF is = {} THEN @[s] ELSE Given(CHOOSE i \in is : \A j \in is : j <= i)]]
      Default(acc, i) ==
        IF i \in set \/ items[i][3] = <<>> THEN acc
        ELSE Then(acc, LAMBDA r : Then(Ev(items[i][3][1], d, r.st), LAMBDA q :
               Val(r.v, PutVar(items[i][2], q.v, q.st))))
  IN IF len < Count("required", n) \/ (~ rest /\ len > n) THEN Chk(Fail("E_ARGS"), st)
     ELSE FoldLeft(Default, Val(List(list), put), [i \in 1 .. n |-> i])

Ev(e, d, st) ==
  CASE e[1] = "var" -> Val(e[2], st)
    [] e[1] = "id"  -> Chk(GetVar(e[2], st), st)
    [] e[1] = "and" -> Then(Ev(e[2], d, st), LAMBDA r :
                         IF is_true(r.v) THEN Ev(e[3], d, r.st) ELSE r)
    [] e[1] = "or"  -> Then(Ev(e[2], d, st), LAMBDA r :
                         IF is_true(r.v) THEN r ELSE Ev(e[3], d, r.st))
    [] e[1] = "not" -> Then(Ev(e[2], d, st), LAMBDA r : Val(Bool(~ is_true(r.v)), r.st))
    [] e[1] = "negate" -> Then(Ev(e[2], d, st), LAMBDA r : Chk(Negate(r.v), r.st))
    [] e[1] = "prop" -> Ev2(e[2], e[3], d, st, LAMBDA o, n, u :
                              Chk(GetProp(u.props, o, n, u.f.progr), u))
    [] e[1] = "exp" -> Ev2(e[2], e[3], d, st, LAMBDA a, b, u : Chk(do_power(a, b), u))
    [] e[1] \in DOMAIN BinaryOps \ {"prop"} ->
         Ev2(e[2], e[3], d, st, LAMBDA a, b, u : Chk(Binary(BinaryOps[e[1]], a, b), u))
    [] e[1] = "index" -> Then(Ev(e[2], d, st), LAMBDA r :
         Then(Ev(e[3], r.v, r.st), LAMBDA q : Chk(Index(r.v, q.v), q.st)))
    [] e[1] = "range" -> Then(Ev(e[2], d, st), LAMBDA r :
         Ev2(e[3], e[4], r.v, r.st, LAMBDA i, j, u : Chk(RangeRef(r.v, i, j), u)))
    [] e[1] = "length" -> Chk(Length(d), st)
    [] e[1] = "list" -> EvList(e[2], d, st)
    [] e[1] = "call" -> Then(EvList(e[3], d, st), LAMBDA r :
         IF r.v[1] /= "list" THEN Chk(Fail("E_TYPE"), r.st)
         ELSE CallBuiltin(Builtins[e[2]], r.v[2], r.st))
    [] e[1] = "verb" -> Ev2(e[2], e[3], d, st, LAMBDA o, n, u :
         Then(EvList(e[4], d, u), LAMBDA r :
           IF r.v[1] /= "list" \/ n[1] /= "str" \/ o[1] /= "obj" THEN Chk(Fail("E_TYPE"), r.st)
           ELSE OrFail(CallVerb(o[2], o[2], n[2], r.v, 0, r.st))))
    [] e[1] = "cond" -> Then(Ev(e[2], d, st), LAMBDA r :
         Ev(IF is_true(r.v) THEN e[3] ELSE e[4], d, r.st))
    [] e[1] = "asgn" ->
         IF e[2][1] /= "scatter" THEN Assign(e[2], e[3], d, st)
         ELSE Then(Ev(e[3], d, st), LAMBDA r :
                IF r.v[1] /= "list" THEN Chk(Fail("E_TYPE"), r.st)
                ELSE Scatter(e[2][2], r.v[2], d, r.st))
    [] e[1] = "catch" ->
         Then(IF e[3] = <<>> THEN Val(Zero, st) ELSE EvList(e[3], d, st), LAMBDA c :
           LET Caught(r) == IF r.how /= "raise" \/ ~ Handles(c.v, r.v[2][1]) THEN r
                            ELSE IF e[4] = <<>> THEN Val(r.v[2][1], r.st)
                            ELSE Ev(e[4][1], d, r.st)
           IN Caught(Ev(e[2], d, c.st)))

-----------------------------------------------------------------------------
(* Statements.                                                             *)

Fall(st) == R("fall", Zero, st)
OnLine(line, st) == [st EXCEPT !.f.line = line]

\* Is this break or continue for the loop called id?
Mine(r, id) == r.how \in {"break", "continue"} /\ r.v \in {-1, id}

RECURSIVE Arms(_, _, _, _), EachOf(_, _, _, _, _), WhileLoop(_, _, _), ExceptCodes(_, _, _, _)

Arms(arms, otherwise, line, st) ==
  IF arms = <<>> THEN Run(otherwise, line + 1, st)
  ELSE Then(Ev(Head(arms)[1], None, OnLine(line, st)), LAMBDA r :
         IF is_true(r.v) THEN Run(Head(arms)[2], line + 1, r.st)
         ELSE Arms(Tail(arms), otherwise, line + 1 + LinesOf(Head(arms)[2]), r.st))

\* The body once for each of the values.
EachOf(values, id, body, line, st) ==
  IF values = <<>> THEN Fall(st)
  ELSE LET Onward(r) ==
             IF r.how = "fall" \/ (Mine(r, id) /\ r.how = "continue")
             THEN EachOf(Tail(values), id, body, line, r.st)
             ELSE IF Mine(r, id) THEN Fall(r.st) ELSE r
       IN Onward(Run(body, line + 1, PutVar(id, Head(values), st)))

WhileLoop(s, line, st) ==
  Then(Ev(s[3], None, OnLine(line, st)), LAMBDA q :
    LET u == IF s[2] = -1 THEN q.st ELSE PutVar(s[2], q.v, q.st)
        Again(r) == IF r.how = "fall" \/ (Mine(r, s[2]) /\ r.how = "continue")
                    THEN WhileLoop(s, line, r.st)
                    ELSE IF Mine(r, s[2]) THEN Fall(r.st) ELSE r
    IN IF is_true(q.v) THEN Again(Run(s[4], line + 1, u)) ELSE Fall(u))

\* The codes of all arms are evaluated first, each on its own line.
ExceptCodes(arms, line, codes, st) ==
  IF arms = <<>> THEN Val(codes, st)
  ELSE LET a == Head(arms)
       IN Then(IF a[2] = <<>> THEN Val(Zero, st) ELSE EvList(a[2], None, OnLine(line, st)),
            LAMBDA r : ExceptCodes(Tail(arms), line + 1 + LinesOf(a[3]),
                                   Append(codes, r.v), r.st))

TryExcept(s, line, st) ==
  LET first == line + 1 + LinesOf(s[2])
  IN Then(ExceptCodes(s[3], first, <<>>, st), LAMBDA c :
       LET is(r) == {i \in DOMAIN s[3] : Handles(c.v[i], r.v[2][1])}
           Handle(i, r) ==
             Run(s[3][i][3], first + ArmLines(SubSeq(s[3], 1, i - 1), 3) + 1,
                 IF s[3][i][1] = -1 THEN r.st ELSE PutVar(s[3][i][1], r.v, r.st))
           Caught(r) == IF r.how /= "raise" \/ is(r) = {} THEN r
                        ELSE Handle(CHOOSE j \in is(r) : \A k \in is(r) : j <= k, r)
       IN Caught(Run(s[2], line + 1, c.st)))

\* What the handler does wins over what the body did.  A killed task runs no
\* handler.
TryFinally(s, line, st) ==
  LET After1(r, h) == IF h.how = "fall" THEN [r EXCEPT !.st = h.st] ELSE h
      Finally(r) == IF r.how = "abort" THEN r
                    ELSE After1(r, Run(s[3], line + 2 + LinesOf(s[2]), r.st))
  IN Finally(Run(s[2], line + 1, st))

\* The forked task has a copy of the frame, its own number included.
Forked(s, line, st) ==
  Then(Ev(s[3], None, st), LAMBDA r :
    LET err == IF r.v[1] /= "int" THEN "E_TYPE" ELSE IF r.v[2] < 0 THEN "E_INVARG"
               ELSE IF r.st.s.quota THEN "E_QUOTA" ELSE "E_NONE"
        u == IF s[2] = -1 THEN r.st ELSE PutVar(s[2], Num(Len(r.st.forked) + 1), r.st)
        f == [u.f EXCEPT !.callers = <<>>, !.depth = 1, !.bi = 0]
    IN IF err /= "E_NONE" THEN Then(Chk(Fail(err), r.st), LAMBDA q : Fall(q.st))
       ELSE Fall([u EXCEPT !.forked = Append(@, [f |-> f, body |-> s[4], line |-> line + 1])]))

\* Runs the body for the values of from .. to, or fails before the first.
ForEach(s, line, r) ==
  LET range == s[1] = "RANGE"
      body  == IF range THEN s[5] ELSE s[4]
      bad   == IF range THEN r.v[1][1] \notin {"int", "obj"} \/ r.v[1][1] /= r.v[2][1]
               ELSE r.v[1][1] /= "list"
      values == IF ~ range THEN r.v[1][2]
                ELSE [i \in 1 .. r.v[2][2] - r.v[1][2] + 1 |-> <<r.v[1][1], r.v[1][2] + i - 1>>]
  IN IF bad THEN Then(Chk(Fail("E_TYPE"), r.st), LAMBDA q : Fall(q.st))
     ELSE EachOf(values, s[2], body, line, r.st)

RunOne(s, line, st) ==
  CASE s[1] = "EXPR" -> Then(Ev(s[2], None, st), LAMBDA r : Fall(r.st))
    [] s[1] = "RETURN" ->
         IF s[2] = <<>> THEN R("return", Zero, st)
         ELSE Then(Ev(s[2][1], None, st), LAMBDA r : R("return", r.v, r.st))
    [] s[1] \in {"BREAK", "CONTINUE"} ->
         R(IF s[1] = "BREAK" THEN "break" ELSE "continue", s[2], st)
    [] s[1] = "COND" -> Arms(s[2], s[3], line, st)
    [] s[1] = "LIST" ->
         Then(Ev(s[3], None, st), LAMBDA r : ForEach(s, line, [r EXCEPT !.v = <<@>>]))
    [] s[1] = "RANGE" ->
         Ev2(s[3], s[4], None, st, LAMBDA a, b, u : ForEach(s, line, Val(<<a, b>>, u)))
    [] s[1] = "WHILE" -> WhileLoop(s, line, st)
    [] s[1] = "FORK"  -> Forked(s, line, st)
    [] s[1] = "TRY_EXCEPT" -> TryExcept(s, line, st)
    [] s[1] = "TRY_FINALLY" -> TryFinally(s, line, st)

Run(stmts, line, st) ==
  IF stmts = <<>> THEN Fall(st)
  ELSE LET Rest(r) == IF r.how = "fall" THEN Run(Tail(stmts), line + Lines(Head(stmts)), r.st)
                      ELSE r
       IN Rest(RunOne(Head(stmts), line, OnLine(line, st)))

-----------------------------------------------------------------------------
(* A task and the tasks it forks, one after the other: the log, and the    *)
(* outcome and value of the first.                                         *)

Ending(r) == IF r.how \in {"fall", "return"} THEN "done" ELSE "aborted"

AfterTask(r) ==
  LET told == r.how = "raise" /\ ~ r.st.s.handled
  IN IF told THEN [r.st EXCEPT !.log = Append(@, List(<<r.v[2][1], r.v[2][4]>>))] ELSE r.st

RECURSIVE RunForked(_)
RunNext(t, st) == Run(t.body, t.line, [st EXCEPT !.f = t.f])
RunForked(st) ==
  IF st.forked = <<>> THEN st
  ELSE RunForked(AfterTask(RunNext(Head(st.forked), [st EXCEPT !.forked = Tail(@)])))

Told(r) == [log |-> RunForked(AfterTask(r)).log, out |-> Ending(r),
            result |-> IF r.how = "raise" \/ r.how = "abort" THEN None ELSE r.v]

Meaning(s) ==
  LET v   == s.verbs[s.main]
      env == [new_rt_env EXCEPT ![SLOT_ARGS] = List(<<>>), ![SLOT_DOBJ] = Obj(NOTHING),
                                ![SLOT_PLAYER] = Obj(v.progr)]
      f   == [self |-> s.main[1], verb |-> s.main[2], vloc |-> s.main[1], progr |-> v.progr,
              debug |-> v.debug, player |-> v.progr, env |-> env, line |-> 1, depth |-> 1,
              callers |-> <<>>, bi |-> 0]
  IN Told(Run(v.body, 1, [s |-> s, f |-> f, props |-> s.props, log |-> <<>>, forked |-> <<>>]))
=============================================================================
