------------------------------ MODULE MCMachine ------------------------------
(* Programs for the virtual machine: every nesting of two statements around *)
(* every way out of a statement, and expressions for every opcode, each     *)
(* compared with its meaning.                                               *)
EXTENDS Language

X == 3
Y == 4
I == 5
J == 6

Lit(n) == <<"var", Num(n)>>
Var(s) == <<"id", s>>
Name(s) == <<"var", Str(<<s>>)>>
ErrLit(e) == <<"var", Err(e)>>
L(es) == <<"list", [k \in DOMAIN es |-> <<"normal", es[k]>>]>>
Call(f, es) == <<"call", BiNum(f), L(es)[2]>>
Expr(e) == <<"EXPR", e>>
Say(e) == Expr(Call("notify", <<e>>))
Set(s, e) == <<"asgn", Var(s), e>>
This == <<"var", Obj(1)>>
Verb(n, es) == <<"verb", This, Name(n), L(es)[2]>>
Throws(e) == Expr(Call("raise", <<ErrLit(e)>>))

(* Contexts: a statement list around an inner one.  Callee stands for a call *)
(* of the verb "m" whose body is the inner list.                            *)
Around(c, inner) ==
  CASE c = "list"  -> <<<<"LIST", I, L(<<Lit(7), Lit(300)>>), inner \o <<Say(Var(I))>>>>>>
    [] c = "range" -> <<<<"RANGE", J, Lit(1), Lit(2), inner \o <<Say(Var(J))>>>>>>
    [] c = "while" -> <<Expr(Set(Y, Lit(0))),
                        <<"WHILE", -1, <<"lt", Var(Y), Lit(2)>>,
                          <<Expr(Set(Y, <<"plus", Var(Y), Lit(1)>>))>> \o inner
                            \o <<Say(Var(Y))>>>>>>
    [] c = "named" -> <<Expr(Set(X, Lit(3))),
                        <<"WHILE", J, <<"gt", Set(X, <<"minus", Var(X), Lit(1)>>), Lit(0)>>,
                          inner \o <<Say(Var(J))>>>>>>
    [] c = "if"    -> <<<<"COND", <<<<Lit(0), <<Say(Lit(1))>>>>, <<Lit(1), inner>>>>,
                          <<Say(Lit(2))>>>>>>
    [] c = "else"  -> <<<<"COND", <<<<Lit(0), inner>>>>, inner>>>>
    [] c = "except" -> <<<<"TRY_EXCEPT", inner,
                           <<<<I, L(<<ErrLit("E_PERM")>>)[2], <<Say(Var(I))>>>>,
                             <<-1, L(<<ErrLit("E_DIV"), ErrLit("E_NONE")>>)[2],
                               <<Say(Lit(3))>>>>>>>>>>
    [] c = "any"   -> <<<<"TRY_EXCEPT", inner, <<<<Y, <<>>, <<Say(Var(Y))>>>>>>>>>>
    [] c = "handler" -> <<<<"TRY_EXCEPT", <<Throws("E_DIV")>>, <<<<-1, <<>>, inner>>>>>>>>
    [] c = "finally" -> <<<<"TRY_FINALLY", inner, <<Say(Lit(4))>>>>>>
    [] c = "fin_fall"  -> <<<<"TRY_FINALLY", <<Say(Lit(5))>>, inner>>>>
    [] c = "fin_raise" -> <<<<"TRY_FINALLY", <<Throws("E_PERM")>>, inner>>>>
    [] c = "fin_return" -> <<<<"TRY_FINALLY", <<<<"RETURN", <<Lit(6)>>>>>>, inner>>>>
    [] c = "fork"  -> <<<<"FORK", J, Lit(0), <<Say(Var(J))>> \o inner>>>>
    [] c = "callee" -> <<Say(Verb("m", <<>>))>>
    [] c = "hook"   -> <<Say(Call("verb_hook", <<Name("m")>>))>>
    [] c = "eval"   -> <<Say(Call("eval", <<Name("p")>>))>>

Loops == {"list", "range", "while", "named"}
Calls == {"callee", "hook", "eval"}
Contexts == Loops \cup Calls \cup
  {"if", "else", "except", "any", "handler", "finally", "fin_fall", "fin_raise",
   "fin_return", "fork"}

Leaves == [say |-> <<Say(Lit(8))>>, brk |-> <<<<"BREAK", -1>>>>, cont |-> <<<<"CONTINUE", -1>>>>,
           brki |-> <<<<"BREAK", I>>>>, contj |-> <<<<"CONTINUE", J>>>>,
           ret |-> <<<<"RETURN", <<Lit(9)>>>>>>, perm |-> <<Throws("E_PERM")>>,
           div |-> <<Say(<<"divide", Lit(1), Lit(0)>>)>>, susp |-> <<Say(Call("suspend", <<Lit(0)>>))>>,
           kill |-> <<Expr(Call("kill_task", <<>>))>>, none |-> <<>>]

(* break and continue need a loop of the right name around them, in the     *)
(* same program.                                                            *)
Inside(l, cs) ==
  LET cut == IF \E k \in DOMAIN cs : cs[k] \in Calls \cup {"fork"}
             THEN CHOOSE k \in DOMAIN cs : /\ cs[k] \in Calls \cup {"fork"}
                                           /\ \A n \in k + 1 .. Len(cs) : cs[n] \notin Calls \cup {"fork"}
             ELSE 0
      near == {cs[k] : k \in cut + 1 .. Len(cs)}
  IN CASE l \in {"brk", "cont"} -> near \cap Loops /= {}
       [] l = "brki"  -> "list" \in near
       [] l \in {"kill", "susp"} -> "fin_raise" \notin Range(cs)
       [] l = "contj" -> near \cap {"range", "named"} /= {}
       [] OTHER -> TRUE

Verbs(body, inner, debug) ==
  (<<1, <<"v">>>> :> [body |-> body, debug |-> debug, progr |-> 1])
  @@ (<<2, <<"m">>>> :> [body |-> inner, debug |-> TRUE, progr |-> 1])
  @@ (<<EvalText, <<"p">>>> :> [body |-> inner, debug |-> TRUE, progr |-> 1])

Prop(kind, v, r, w, owner, protect) ==
  [kind |-> kind, val |-> v, r |-> r, w |-> w, owner |-> owner, protect |-> protect]

Props == (<<"p">> :> Prop("none", List(<<Num(1), Num(2)>>), TRUE, FALSE, 1, FALSE))
      @@ (<<"q">> :> Prop("none", List(<<Num(1)>>), TRUE, FALSE, 2, FALSE))
      @@ (<<"h">> :> Prop("none", Num(1), FALSE, TRUE, 2, FALSE))
      @@ (<<"name">> :> Prop("name", Str(<<"a">>), TRUE, FALSE, 1, TRUE))
      @@ (<<"owner">> :> Prop("owner", Obj(1), TRUE, FALSE, 1, FALSE))
      @@ (<<"wizard">> :> Prop("wizard", Num(0), TRUE, FALSE, 1, FALSE))
      @@ (<<"location">> :> Prop("location", Obj(-1), TRUE, FALSE, 1, FALSE))

Scenario(verbs, base) ==
  [main |-> <<1, <<"v">>>>, verbs |-> verbs, base |-> base, props |-> Props,
   fnames |-> (<<"f">> :> "notify") @@ (<<"g">> :> "verb_hook"), protected |-> {},
   max_depth |-> 5, quota |-> FALSE, ticks |-> 200, timeouts |-> FALSE, restart |-> TRUE,
   resume |-> Num(7), handled |-> FALSE, endless |-> FALSE]

(* The innermost call context holds the rest of the nesting in the callee.  *)
Nest(cs, l) ==
  LET n == Len(cs)
      Build[k \in 1 .. n + 1] == IF k > n THEN Leaves[l]
                                 ELSE Around(cs[k], IF cs[k] \in Calls THEN <<>> ELSE Build[k + 1])
      call == {k \in 1 .. n : cs[k] \in Calls}
      inner == IF call = {} THEN <<>> ELSE Build[(CHOOSE k \in call : TRUE) + 1]
  IN Scenario(Verbs(Build[1] \o <<Say(Lit(0))>>, inner, TRUE), IF n = 2 THEN 8 ELSE 256)

Nestings == {p \in {<<<<a>>, l>> : a \in Contexts, l \in DOMAIN Leaves}
                     \cup {<<<<a, b>>, l>> : a \in Contexts, b \in Contexts, l \in DOMAIN Leaves} :
               /\ Inside(p[2], p[1])
               /\ p[1] \notin {<<"while", "while">>, <<"named", "named">>}  \* share a counter
               /\ Cardinality({k \in DOMAIN p[1] : p[1][k] \in Calls}) <= 1}

-----------------------------------------------------------------------------
(* Expressions, run after X and Y are set, once caught and once not, with  *)
(* the debug bit on and off, by a programmer and by a wizard.              *)

Chars(s) == <<"var", Str(s)>>
Idx(a, b) == <<"index", a, b>>
Rng(a, b, c) == <<"range", a, b, c>>
End == <<"length">>
PropOf(n) == <<"prop", This, Name(n)>>
Splice(e) == <<"splice", e>>
Normal(e) == <<"normal", e>>
Caught(e) == <<"catch", e, <<>>, <<>>>>
Scat(items, e) == <<"asgn", <<"scatter", items>>, e>>
Ops2 == <<"eq", "ne", "ge", "gt", "le", "lt", "in", "plus", "minus", "times", "divide", "mod", "exp">>

Operands == <<<<Lit(7), Lit(-2)>>, <<Lit(0), Lit(0)>>, <<Lit(1), Chars(<<"a">>)>>,
             <<Lit(2), L(<<Lit(1), Lit(2)>>)>>, <<Lit(50), Lit(50)>>,
             <<Chars(<<"a">>), Chars(<<"a">>)>>, <<ErrLit("E_PERM"), ErrLit("E_DIV")>>>>

Places == <<Var(X), Var(J), Idx(Var(X), Lit(1)), Idx(Var(X), End), Idx(Var(X), Lit(9)),
           Idx(Var(Y), Lit(2)), Idx(Idx(Var(X), Lit(2)), End), Idx(Idx(Var(X), Lit(1)), Lit(1)),
           Rng(Var(X), Lit(2), End), Rng(Var(Y), Lit(1), Lit(0)), Rng(Var(X), Lit(3), Lit(9)),
           Rng(Idx(Var(X), Lit(2)), Lit(1), Idx(Var(X), Lit(1))), Idx(Var(I), Lit(1)),
           PropOf("p"), PropOf("q"), PropOf("h"), PropOf("none"), PropOf("name"), PropOf("owner"),
           PropOf("wizard"), PropOf("location"), Idx(PropOf("p"), Lit(2)),
           <<"prop", Lit(1), Name("p")>>, <<"prop", <<"var", Obj(7)>>, Name("p")>>>>

Some(f(_), es) == [k \in DOMAIN es |-> f(es[k])]

Scatters ==
  Some(LAMBDA e : Scat(<<<<"required", I, <<>>>>, <<"optional", J, <<Lit(5)>>>>, <<"rest", Y, <<>>>>>>, e),
       <<L(<<>>), L(<<Lit(1)>>), L(<<Lit(1), Lit(2)>>), Var(X), Lit(3)>>)
  \o Some(LAMBDA e : Scat(<<<<"rest", Y, <<>>>>, <<"optional", I, <<>>>>, <<"optional", J, <<Var(X)>>>>,
                           <<"required", X, <<>>>>>>, e), <<L(<<Lit(1)>>), L(<<Lit(1), Lit(2)>>), Var(X)>>)
  \o Some(LAMBDA e : Scat(<<<<"optional", I, <<Lit(1)>>>>, <<"optional", J, <<Set(Y, Lit(2))>>>>>>, e),
          <<L(<<>>), L(<<Lit(8)>>), Var(X)>>)

CallExprs ==
  <<Call("suspend", <<Lit(-1)>>), Call("suspend", <<Chars(<<"a">>)>>), Call("notify", <<>>),
   <<"call", BiNum("notify"), <<Splice(Lit(1)), Normal(Lit(2))>>>>,
   Call("raise", <<ErrLit("E_DIV"), Chars(<<>>), Lit(5)>>),
   Call("raise", <<Chars(<<"a">>)>>), Call("set_task_perms", <<<<"var", Obj(2)>>>>),
   Call("caller_perms", <<>>), Call("callers", <<Lit(1)>>),
   Call("call_function", <<Name("f"), Lit(4)>>), Call("call_function", <<Name("none")>>),
   Call("call_function", <<Name("g"), Name("m")>>), Call("eval", <<Name("none")>>),
   Call("pass", <<Lit(1)>>), Call("verb_hook", <<Name("none")>>),
   Verb("m", <<Lit(1)>>), Verb("none", <<>>), Verb("deep", <<>>), Verb("susp", <<>>),
   Call("verb_hook", <<Name("deep")>>), Call("eval", <<Name("e")>>), Call("call_function", <<Name("g"), Name("susp")>>),
   <<"verb", <<"var", Obj(7)>>, Name("m"), <<>>>>, <<"verb", Lit(1), Name("m"), <<>>>>>>

Exprs ==
  FlattenSeq(Some(LAMBDA o : Some(LAMBDA p : <<o, p[1], p[2]>>, Operands), Ops2))
  \o Places
  \o FlattenSeq(Some(LAMBDA v : Some(LAMBDA p : <<"asgn", p, v>>, Places),
                     <<Lit(4), Chars(<<"c">>), L(<<Lit(4)>>)>>))
  \o Scatters \o CallExprs
  \o <<Caught(<<"asgn", Idx(PropOf("q"), Lit(1)), Lit(4)>>), <<"not", Var(X)>>, <<"negate", Var(X)>>,
        <<"list", <<Splice(Var(X)), Normal(Lit(1)), Splice(L(<<>>))>>>>,
        <<"list", <<Normal(Lit(1)), Splice(Lit(1)), Normal(Lit(2))>>>>,
        <<"and", Var(X), Lit(0)>>, <<"and", Lit(0), Var(I)>>, <<"or", Var(X), Var(I)>>,
        <<"or", Lit(0), Var(I)>>, <<"cond", Var(X), Lit(1), Var(I)>>,
        <<"cond", <<"and", Var(X), Lit(0)>>, Var(I), <<"or", Lit(0), Var(Y)>>>>,
        <<"catch", Var(I), L(<<ErrLit("E_VARNF")>>)[2], <<Lit(300)>>>>,
        <<"catch", Var(I), L(<<ErrLit("E_PERM")>>)[2], <<Lit(300)>>>>,
        <<"catch", <<"catch", Var(I), L(<<ErrLit("E_PERM")>>)[2], <<>>>>, <<>>, <<Var(J)>>>>>>

Setup == <<Expr(Set(X, L(<<Lit(1), L(<<Lit(2), Lit(3)>>), Chars(<<"a", "b">>)>>))),
           Expr(Set(Y, Chars(<<"a", "b", "c">>)))>>

MoreVerbs(debug, progr) ==
  Verbs(<<>>, <<<<"RETURN", <<Var(0)>>>>>>, TRUE)
  @@ (<<1, <<"deep">>>> :> [body |-> <<<<"RETURN", <<Verb("deep", <<>>)>>>>>>, debug |-> debug, progr |-> progr])
  @@ (<<2, <<"v">>>> :> [body |-> <<Say(Call("callers", <<Lit(1)>>)), Say(Call("caller_perms", <<>>)),
                                   <<"RETURN", <<Call("pass", <<>>)>>>>>>, debug |-> debug, progr |-> 2])
  @@ (<<2, <<"susp">>>> :> [body |-> <<Say(Call("suspend", <<>>)), <<"RETURN", <<>>>>>>, debug |-> debug, progr |-> 2])
  @@ (<<EvalText, <<"e">>>> :> [body |-> <<<<"RETURN", <<Verb("deep", <<>>)>>>>>>, debug |-> TRUE, progr |-> progr])
  @@ (<<0, <<"bf_">>>> :> [body |-> <<Say(Var(0)), <<"RETURN", <<Call("suspend", <<Lit(1)>>)>>>>>>, debug |-> TRUE, progr |-> Wizard])

ExprRun(e, debug, progr) ==
  LET body == Setup \o <<Say(Caught(e)), Say(e), Say(Var(X)), Say(Var(Y)), Say(Caught(Var(J)))>>
      verbs == (<<1, <<"v">>>> :> [body |-> body, debug |-> debug, progr |-> progr])
               @@ MoreVerbs(debug, progr)
  IN [Scenario(verbs, 256) EXCEPT !.resume = IF debug THEN Err("E_INVARG") ELSE Num(7),
                                  !.protected = IF progr = 1 THEN {"suspend"} ELSE {"eval"},
                                  !.quota = progr = 1 /\ ~ debug, !.max_depth = 3]

(* Tasks that run out of ticks or of seconds.                              *)

Long == [count |-> <<Expr(Set(Y, Lit(0))),
                     <<"WHILE", -1, Lit(1), <<Expr(Set(Y, <<"plus", Var(Y), Lit(1)>>))>>>>>>,
         named |-> <<<<"WHILE", X, Lit(1), <<Say(Var(X))>>>>>>,
         deep  |-> <<<<"TRY_FINALLY", <<Say(Verb("deep", <<>>))>>, <<Say(Lit(1))>>>>, Say(Lit(2))>>,
         hook  |-> <<<<"FORK", -1, Lit(0), <<Say(Lit(4))>>>>,
                     <<"TRY_EXCEPT", <<Say(Call("verb_hook", <<Name("susp")>>))>>,
                                     <<<<-1, <<>>, <<Say(Lit(3))>>>>>>>>>>]

LimitRun(name, n, timeouts) ==
  LET verbs == (<<1, <<"v">>>> :> [body |-> Long[name], debug |-> TRUE, progr |-> 1])
               @@ MoreVerbs(TRUE, 1)
  IN [Scenario(verbs, 256) EXCEPT !.ticks = n, !.timeouts = timeouts, !.handled = n = 5,
                                  !.endless = name \in {"count", "named"}]

(* Powers, quotients and remainders at the edges of an int.                *)

Bases == {INT_MIN, INT_MIN + 1, -7, -2, -1, 0, 1, 2, 3, INT_MAX - 1, INT_MAX}
Exponents == {INT_MIN, -3, -2, -1, 0, 1, 2, 5, 11, 12, 40}
Edge(n) == IF n = INT_MIN THEN <<"minus", Lit(n + 1), Lit(1)>> ELSE Lit(n)

ArithRun(a, b) ==
  LET body == <<Expr(Set(X, Edge(a))), Expr(Set(Y, Edge(b)))>>
              \o Some(LAMBDA o : Say(Caught(<<o, Var(X), Var(Y)>>)), <<"divide", "mod", "exp">>)
      verbs == (<<1, <<"v">>>> :> [body |-> body, debug |-> TRUE, progr |-> 1])
  IN Scenario(verbs, 256)

(* Every expression under every operator, in every place: what needs        *)
(* parentheses in the listing.                                             *)

Shapes == <<Lit(4), Lit(-4), Var(X), Name("a"), Name("if"), <<"var", Obj(0)>>, <<"var", Obj(-1)>>,
  <<"not", Var(X)>>, <<"negate", Var(X)>>, <<"negate", <<"negate", Var(X)>>>>,
  L(<<Var(X), Var(Y)>>), <<"asgn", Var(Y), Lit(1)>>, <<"cond", Var(X), Lit(1), Lit(2)>>,
  <<"prop", <<"var", Obj(0)>>, Name("a")>>, <<"prop", Var(X), <<"var", Obj(1)>>>>, Verb("m", <<>>),
  <<"verb", <<"var", Obj(0)>>, Name("a"), <<>>>>, Idx(Var(X), End), Rng(Var(X), Lit(1), End),
  Call("caller_perms", <<>>), Caught(Var(J)), Scat(<<<<"required", I, <<>>>>>>, Var(X)),
  Scat(<<<<"optional", I, <<>>>>>>, Var(X))>>
  \o Some(LAMBDA o : <<o, Var(X), Lit(2)>>, Ops2 \o <<"and", "or">>)

Under(e) ==
  FlattenSeq(Some(LAMBDA o : <<<<o, e, Var(X)>>, <<o, Var(X), e>>>>, Ops2 \o <<"and", "or">>))
  \o <<<<"not", e>>, <<"asgn", Var(X), e>>, <<"cond", e, Lit(1), Lit(2)>>, <<"cond", Lit(1), e, Lit(2)>>,
      <<"cond", Lit(0), Lit(1), e>>, Idx(Var(X), e), Rng(Var(X), e, e), <<"prop", This, e>>,
      <<"asgn", <<"prop", This, e>>, Lit(1)>>, <<"asgn", Idx(Var(X), e), Lit(1)>>,
      <<"catch", e, <<<<"splice", e>>>>, <<e>>>>, Call("notify", <<e>>),
      Scat(<<<<"optional", J, <<e>>>>>>, e)>>
  \o (IF e[1] = "var" /\ e[2][1] = "int" THEN <<>> ELSE <<<<"negate", e>>>>)
  \o (IF e = Lit(-4) THEN <<>>     \* see RoundTrip
      ELSE <<<<"prop", e, Name("a")>>, <<"verb", e, e, <<<<"normal", e>>>>>>, Idx(e, Lit(1)),
             Rng(e, Lit(1), End)>>)

ShapeRun(e, n) ==
  LET all == Under(e)
      body == Some(Expr, SubSeq(all, 5 * n + 1, IF 5 * n + 5 < Len(all) THEN 5 * n + 5 ELSE Len(all)))
      verbs == (<<1, <<"v">>>> :> [body |-> body, debug |-> FALSE, progr |-> 1]) @@ MoreVerbs(FALSE, 1)
  IN [Scenario(verbs, 256) EXCEPT !.ticks = 2000]

Names == {"shape"} \X (DOMAIN Shapes) \X (0 .. 10) \cup {<<"nest", q[1], q[2]>> : q \in Nestings}
         \cup {"expr"} \X (DOMAIN Exprs) \X BOOLEAN \X {1, Wizard}
         \cup {"arith"} \X Bases \X Exponents
         \cup {"limit"} \X (DOMAIN Long) \X {3, 5, 9, 14, 50} \X BOOLEAN

MCScenarios ==
  LET Of(p) == CASE p[1] = "nest"  -> Nest(p[2], p[3])
                 [] p[1] = "expr"  -> ExprRun(Exprs[p[2]], p[3], p[4])
                 [] p[1] = "arith" -> ArithRun(p[2], p[3])
                 [] p[1] = "shape" -> ShapeRun(Shapes[p[2]], p[3])
                 [] p[1] = "limit" -> LimitRun(p[2], p[3], p[4])
  IN [p \in Names |-> Of(p)]

\* while x (1) ... endwhile, alone.
EndlessScenario ==
  LET verbs == (<<1, <<"v">>>> :> [body |-> <<<<"WHILE", X, Lit(1), <<>>>>>>, debug |-> TRUE, progr |-> 1])
  IN [n \in 10 .. 60 |-> [Scenario(verbs, 256) EXCEPT !.ticks = n, !.timeouts = TRUE, !.endless = TRUE]]

-----------------------------------------------------------------------------
\* What the program of the scenario means, worked out once.
VARIABLE meaning
MCInit == Init /\ meaning = IF S.endless THEN [log |-> <<>>] ELSE Meaning(S)
MCNext == Next /\ UNCHANGED meaning
MCSpec == MCInit /\ [][MCNext]_<<vars, meaning>> /\ WF_<<vars, meaning>>(MCNext)

\* A task that was stopped at a limit did not do all it means.
IsCut(entry) == entry[1] = "list" /\ entry[2] /= <<>> /\ entry[2][1] = Str(<<"timeout">>)
Cut == \E k \in DOMAIN vm.log : IsCut(vm.log[k])
BeforeCut == SubSeq(vm.log, 1, (CHOOSE k \in DOMAIN vm.log : /\ IsCut(vm.log[k])
                                   /\ \A j \in 1 .. k - 1 : ~ IsCut(vm.log[j])) - 1)
Whole == ~ Cut /\ ~ S.endless /\ ~ S.handled

Fresh == vm.task = 1 /\ Len(vm.activ) = 1 /\ A.pc = 0 /\ ~ task_timed_out

\* The run-time stack of a frame never outgrows the max_stack the compiler
\* recorded, which is all alloc_rt_stack() allocates; the compiler's account of
\* the stack is even at the end, and a vector has the length allocated for it.
StackBounded ==
  /\ \A k \in DOMAIN vm.activ : Len(vm.activ[k].stack) <= Vector(vm.activ[k]).max_stack
  /\ Fresh => \A k \in DOMAIN prog : \A bc \in {prog[k].main} \cup Range(prog[k].forks) :
                bc.balanced /\ Len(bc.vector) = bc.size

\* What a task has said is what its program means so far: every opcode, jump,
\* handler, unwinding, call and return does its part of the meaning, and a
\* traceback names the failing line of every frame.
LogIsMeant == ~ S.endless /\ ~ S.handled =>
                IsPrefix(IF Cut THEN BeforeCut ELSE vm.log, meaning.log)

\* When the task and its forked tasks have ended nothing is missing, and the
\* first ended as it should: run_interpreter() returned the outcome, and the
\* value of a return statement.  A suspended task gets there over a restart of
\* the server: every program counter of its stack is valid in the program
\* compiled from the decompiled text.
EndIsMeant ==
  /\ vm.out /= "lost"
  /\ Whole /\ Ended =>
       /\ AllDone => vm.log = meaning.log
       /\ vm.task = 1 => vm.out = meaning.out /\ vm.result \in {None, meaning.result}

Listed(k, d) == /\ ~ d.bad /\ d.stmts = S.verbs[k].body
                /\ LinesOf(d.stmts) = Len(unparse_stmt(d.stmts))
                /\ parse_program(unparse_program(d.stmts)) = [ok |-> TRUE, stmts |-> d.stmts]

\* Compiling a program and decompiling it gives the program back, and the
\* listing of that is parsed as the same program: the database keeps nothing
\* else of a verb.  A negative number before a dot, a colon or a bracket is the
\* exception: (-4)[1] is listed as -4[1].  A line number counted in the tree is
\* one of the listing.
RoundTrip == Fresh => \A k \in DOMAIN prog : Listed(k, decompile_program(prog[k], 0))

\* a multiplied by itself n times.
Product(a, n) == LET r[k \in 0 .. n] == IF k = 0 THEN 1 ELSE Wrap(r[k - 1] * a) IN r[n]

Magnitude(n) == IF n < 0 THEN -n ELSE n

\* 1 divided by a power of 0, of 1 or -1, whose powers come back after two, or
\* of a number that leaves nothing of it.
PowerOf(a, b) == CASE b >= 0                       -> Num(Product(a, b))
                   [] b < 0 /\ a = 0               -> Fail("E_DIV")
                   [] b < 0 /\ a \in {1, -1}       -> Num(Product(a, b % 2))
                   [] b < 0 /\ a \notin {0, 1, -1} -> Zero

\* What is left of a when b is taken from it as often as it fits.
Divides(a, b, q, r) ==
  IF b = 0 THEN q = Fail("E_DIV") /\ r = Fail("E_DIV")
  ELSE /\ q[1] = "int" /\ r[1] = "int"
       /\ Wrap(q[2] * b + r[2]) = a
       /\ Magnitude(r[2]) < Magnitude(b)
       /\ r[2] = 0 \/ (r[2] < 0 <=> a < 0)

\* The numbers are right, which LogIsMeant cannot say, since Language computes
\* with the same operators: exponentiation by squaring is multiplication
\* repeated, also where it overflows and for negative exponents, and quotient
\* and remainder make up the dividend, of which the remainder has the sign.
NumbersAreMeant ==
  At({"DIV", "MOD"}) \/ AtExt({"EXP"}) =>
    LET a == Nth(2)
        b == Nth(1)
    IN a[1] = "int" /\ b[1] = "int" =>
         IF Op = OP["EXTENDED"] THEN do_power(a, b) = PowerOf(a[2], b[2])
         ELSE Divides(a[2], b[2], Binary("DIV", a, b), Binary("MOD", a, b))

\* Every task comes to its end, at the latest when its ticks are spent.
TasksEnd == <>AllDone
=============================================================================
