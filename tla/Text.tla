--------------------------------- MODULE Text ---------------------------------
(***************************************************************************)
(* Programs as text: the unparser (unparse.c) and the parser (parser.y).   *)
(* The database keeps a verb only as the text the unparser makes of the    *)
(* decompiled program, and a restart parses that text again.               *)
(*                                                                         *)
(* A line is a sequence of tokens, a token <<kind>> or <<kind, value>>.    *)
(* Tokens stand next to each other as the characters of the listing do:    *)
(* <<" ">> is the one space whose absence would make two tokens one.       *)
(* Names and strings are sequences of letters (see Values); parse errors   *)
(* of any kind reject the program.                                         *)
(***************************************************************************)
EXTENDS Integers, Sequences, SequencesExt

\* External: the table of built-in functions.
Builtins == <<"raise", "suspend", "pass", "call_function", "set_task_perms",
              "caller_perms", "callers", "eval", "notify", "kill_task", "verb_hook">>

BiNum(name) == CHOOSE i \in DOMAIN Builtins : Builtins[i] = name

\* var_names of a program, and find_id, which finds a name's place in it.
VarNames == <<"args", "dobj", "player", "x", "y", "i", "j", "k">>
var_name(slot) == <<VarNames[slot + 1]>>
find_id(name) == (CHOOSE i \in DOMAIN VarNames : VarNames[i] = name[1]) - 1

Keywords == {<<"if">>, <<"for">>}
NonIdLetters == {" ", "."}

-----------------------------------------------------------------------------
(* unparse.c.                                                              *)

expr_prec ==
  [asgn |-> 1, cond |-> 2, or |-> 3, and |-> 3, eq |-> 4, ne |-> 4, lt |-> 4, le |-> 4,
   gt |-> 4, ge |-> 4, in |-> 4, plus |-> 5, minus |-> 5, times |-> 6, divide |-> 6,
   mod |-> 6, exp |-> 7, negate |-> 8, not |-> 8, prop |-> 9, verb |-> 9, index |-> 9,
   range |-> 9, var |-> 10, id |-> 10, list |-> 10, call |-> 10, length |-> 10, catch |-> 10]

binop_string ==
  [in |-> "in", or |-> "||", and |-> "&&", eq |-> "==", ne |-> "!=", lt |-> "<", le |-> "<=",
   gt |-> ">", ge |-> ">=", plus |-> "+", minus |-> "-", times |-> "*", divide |-> "/",
   mod |-> "%", exp |-> "^"]

Tok(kind) == <<<<kind>>>>
Id(name) == <<<<"ID", name>>>>
Enclosed(open, tokens, close) == Tok(open) \o tokens \o Tok(close)

ok_identifier(name) ==
  /\ name /= <<>> /\ name \notin Keywords
  /\ \A i \in DOMAIN name : name[i] \notin NonIdLetters

IsName(e) == e[1] = "var" /\ e[2][1] = "str" /\ ok_identifier(e[2][2])
IsSystem(e) == e[1] = "var" /\ e[2] = <<"obj", 0>>
IsInt(e) == e[1] = "var" /\ e[2][1] = "int"

\* A negative number is a minus sign and a number.
value_to_literal(v) ==
  IF v[1] = "int" /\ v[2] < 0 THEN Tok("-") \o <<<<"int", -v[2]>>>> ELSE <<v>>

RECURSIVE unparse_expr(_)

\* verbs are written without redundant parentheses
bracket_lt(parent, e) ==
  IF expr_prec[parent] > expr_prec[e[1]] THEN Enclosed("(", unparse_expr(e), ")") ELSE unparse_expr(e)
bracket_le_loose(parent, e) == bracket_lt(parent, e)
bracket_le(parent, e) ==
  IF expr_prec[parent] >= expr_prec[e[1]] THEN Enclosed("(", unparse_expr(e), ")") ELSE unparse_expr(e)

unparse_name_expr(e) == IF IsName(e) THEN Id(e[2][2]) ELSE Enclosed("(", unparse_expr(e), ")")

Commas(parts) ==
  FlattenSeq([i \in DOMAIN parts |-> (IF i = 1 THEN <<>> ELSE Tok(",")) \o parts[i]])

unparse_arglist(args) ==
  Commas([i \in DOMAIN args |->
            (IF args[i][1] = "splice" THEN Tok("@") ELSE <<>>) \o unparse_expr(args[i][2])])

unparse_scatter(items) ==
  Commas([i \in DOMAIN items |->
    CASE items[i][1] = "rest" -> Tok("@") \o Id(var_name(items[i][2]))
      [] items[i][1] = "required" -> Id(var_name(items[i][2]))
      [] items[i][1] = "optional" ->
           Tok("?") \o Id(var_name(items[i][2]))
             \o IF items[i][3] = <<>> THEN <<>> ELSE Tok("=") \o unparse_expr(items[i][3][1])])

unparse_codes(codes) == IF codes = <<>> THEN Tok("ANY") ELSE unparse_arglist(codes)

unparse_expr(e) ==
  CASE e[1] = "prop" ->
         IF IsSystem(e[2]) /\ IsName(e[3]) THEN Tok("$") \o Id(e[3][2][2])
         ELSE bracket_lt("prop", e[2]) \o (IF IsInt(e[2]) THEN Tok(" ") ELSE <<>>)
                \o Tok(".") \o unparse_name_expr(e[3])
    [] e[1] = "verb" ->
         (IF IsSystem(e[2]) /\ IsName(e[3]) THEN Tok("$") \o Id(e[3][2][2])
          ELSE bracket_lt("verb", e[2]) \o Tok(":") \o unparse_name_expr(e[3]))
         \o Enclosed("(", unparse_arglist(e[4]), ")")
    [] e[1] = "index" -> bracket_lt("index", e[2]) \o Enclosed("[", unparse_expr(e[3]), "]")
    [] e[1] = "range" ->
         bracket_lt("range", e[2])
           \o Enclosed("[", unparse_expr(e[3]) \o Tok("..") \o unparse_expr(e[4]), "]")
    [] e[1] = "exp" -> bracket_le("exp", e[2]) \o Tok("^") \o bracket_lt("exp", e[3])
    [] e[1] \in DOMAIN binop_string \ {"exp"} ->
         bracket_lt(e[1], e[2]) \o Tok(binop_string[e[1]]) \o bracket_le(e[1], e[3])
    [] e[1] = "cond" -> bracket_le("cond", e[2]) \o Tok("?") \o unparse_expr(e[3]) \o Tok("|")
                          \o bracket_le("cond", e[4])
    [] e[1] = "negate" -> Tok("-") \o bracket_lt("negate", e[2])
    [] e[1] = "not"    -> Tok("!") \o bracket_lt("not", e[2])
    [] e[1] = "var"    -> value_to_literal(e[2])
    [] e[1] = "asgn"   -> (IF e[2][1] = "scatter" THEN Enclosed("{", unparse_scatter(e[2][2]), "}")
                           ELSE unparse_expr(e[2])) \o Tok("=") \o unparse_expr(e[3])
    [] e[1] = "call"   -> Id(<<Builtins[e[2]]>>) \o Enclosed("(", unparse_arglist(e[3]), ")")
    [] e[1] = "id"     -> Id(var_name(e[2]))
    [] e[1] = "list"   -> Enclosed("{", unparse_arglist(e[2]), "}")
    [] e[1] = "catch"  -> Enclosed("backquote", unparse_expr(e[2]) \o Tok("!") \o unparse_codes(e[3])
                                  \o (IF e[4] = <<>> THEN <<>>
                                      ELSE Tok("=>") \o unparse_expr(e[4][1])), "quote")
    [] e[1] = "length" -> Tok("$")

\* The lines of a statement list.
RECURSIVE unparse_stmt(_)
Line(tokens) == <<tokens>>
Head1(kw, e) == Line(Tok(kw) \o Enclosed("(", unparse_expr(e), ")"))
Named(kw, id) == Tok(kw) \o IF id >= 0 THEN Id(var_name(id)) ELSE <<>>

unparse_stmt_cond(s) ==
  FlattenSeq([i \in DOMAIN s[2] |-> Head1(IF i = 1 THEN "if" ELSE "elseif", s[2][i][1])
                                      \o unparse_stmt(s[2][i][2])])
  \o (IF s[3] = <<>> THEN <<>> ELSE Line(Tok("else")) \o unparse_stmt(s[3]))
  \o Line(Tok("endif"))

unparse_stmt_list(s) ==
  Line(Named("for", s[2]) \o Tok("in") \o Enclosed("(", unparse_expr(s[3]), ")"))
    \o unparse_stmt(s[4]) \o Line(Tok("endfor"))

unparse_stmt_range(s) ==
  Line(Named("for", s[2]) \o Tok("in")
         \o Enclosed("[", unparse_expr(s[3]) \o Tok("..") \o unparse_expr(s[4]), "]"))
    \o unparse_stmt(s[5]) \o Line(Tok("endfor"))

unparse_stmt_fork(s) ==
  Line(Named("fork", s[2]) \o Enclosed("(", unparse_expr(s[3]), ")"))
    \o unparse_stmt(s[4]) \o Line(Tok("endfork"))

unparse_stmt_catch(s) ==
  Line(Tok("try")) \o unparse_stmt(s[2])
  \o FlattenSeq([i \in DOMAIN s[3] |->
       Line(Named("except", s[3][i][1]) \o Enclosed("(", unparse_codes(s[3][i][2]), ")"))
         \o unparse_stmt(s[3][i][3])])
  \o Line(Tok("endtry"))

UnparseOne(s) ==
  CASE s[1] = "COND"  -> unparse_stmt_cond(s)
    [] s[1] = "LIST"  -> unparse_stmt_list(s)
    [] s[1] = "RANGE" -> unparse_stmt_range(s)
    [] s[1] = "FORK"  -> unparse_stmt_fork(s)
    [] s[1] = "EXPR"  -> Line(unparse_expr(s[2]) \o Tok(";"))
    [] s[1] = "WHILE" -> Line(Named("while", s[2]) \o Enclosed("(", unparse_expr(s[3]), ")"))
                           \o unparse_stmt(s[4]) \o Line(Tok("endwhile"))
    [] s[1] = "RETURN" -> Line(Tok("return") \o (IF s[2] = <<>> THEN <<>> ELSE unparse_expr(s[2][1]))
                                 \o Tok(";"))
    [] s[1] = "TRY_EXCEPT"  -> unparse_stmt_catch(s)
    [] s[1] = "TRY_FINALLY" -> Line(Tok("try")) \o unparse_stmt(s[2]) \o Line(Tok("finally"))
                                 \o unparse_stmt(s[3]) \o Line(Tok("endtry"))
    [] s[1] = "BREAK"    -> Line(Named("break", s[2]) \o Tok(";"))
    [] s[1] = "CONTINUE" -> Line(Named("continue", s[2]) \o Tok(";"))

unparse_stmt(stmts) == FlattenSeq([i \in DOMAIN stmts |-> UnparseOne(stmts[i])])

unparse_program(stmts) == FlattenSeq(unparse_stmt(stmts))

-----------------------------------------------------------------------------
(* parser.y.  A parser takes tokens and returns [e, t]: what it made of     *)
(* them and the tokens left.  After an error of any kind ok is FALSE.      *)

\* Digits and a dot make a floating-point number, and those are left out.
yylex(tokens) ==
  LET Float(i) == /\ tokens[i][1] = "int" /\ i < Len(tokens) /\ tokens[i + 1] = <<".">>
  IN SelectSeq([i \in DOMAIN tokens |-> IF Float(i) THEN <<"FLOAT">> ELSE tokens[i]],
               LAMBDA tok : tok /= <<" ">>)

Parsed(e, t) == [e |-> e, t |-> t, ok |-> TRUE]
yyerror == [e |-> <<"error">>, t |-> <<>>, ok |-> FALSE]

Is(kind, t) == t /= <<>> /\ t[1][1] = kind
Chain(r, K(_, _)) == IF r.ok THEN K(r.e, r.t) ELSE r
Want(kind, r, K(_, _)) == IF r.ok /\ Is(kind, r.t) THEN K(r.e, Tail(r.t)) ELSE yyerror

\* %left and %right, lowest first; "?" stands for the conditional expression.
Levels == <<{"="}, {"?"}, {"||", "&&"}, {"==", "!=", "<", "<=", ">", ">=", "in"}, {"+", "-"},
            {"*", "/", "%"}, {"^"}>>
Precedence == [op \in UNION Range(Levels) |-> CHOOSE i \in DOMAIN Levels : op \in Levels[i]]
PrecUnary == 8

alloc_binary == [s \in Range(binop_string) |-> CHOOSE k \in DOMAIN binop_string : binop_string[k] = s]

\* The left side of an assignment: variables and properties, indexed, with a
\* range at most outermost.
RECURSIVE Assignable(_)
Assignable(e) == \/ e[1] \in {"id", "prop"}
                 \/ e[1] = "index" /\ Assignable(e[2])

scatter_from_arglist(args) ==
  [i \in DOMAIN args |-> IF args[i][1] = "optional" THEN args[i]
                         ELSE <<IF args[i][1] = "normal" THEN "required" ELSE "rest",
                                args[i][2][2], <<>>>>]

\* scatter_from_arglist and vet_scatter refuse the rest.
vet_scatter(args) ==
  /\ args /= <<>>
  /\ \A i \in DOMAIN args : args[i][1] = "optional" \/ args[i][2][1] = "id"
  /\ \A i, j \in DOMAIN args : args[i][1] = "splice" /\ args[j][1] = "splice" => i = j

LegalLeft(e) == IF e[1] = "list" THEN vet_scatter(e[2])
                ELSE Assignable(IF e[1] = "range" THEN e[2] ELSE e)

Assignment(left, e) ==
  <<"asgn", IF left[1] = "list" THEN <<"scatter", scatter_from_arglist(left[2])>> ELSE left, e>>

negated(e) == IF IsInt(e) THEN <<"var", <<"int", -e[2][2]>>>> ELSE <<"negate", e>>

\* A call of no built-in function becomes one of call_function().
call_by_name(name, args) ==
  IF name[1] \in Range(Builtins) THEN <<"call", BiNum(name[1]), args>>
  ELSE <<"call", BiNum("call_function"), <<<<"normal", <<"var", <<"str", name>>>>>>>> \o args>>

RECURSIVE expr(_, _, _), primary(_, _), operators(_, _, _), arglist(_, _, _, _)

\* An expression of operators of at least the precedence min; dollars_ok says
\* whether `$' has a meaning here.
expr(min, dollars_ok, t) ==
  Chain(primary(dollars_ok, t), LAMBDA e, u : operators(min, dollars_ok, Parsed(e, u)))

\* Arguments up to the closing token; items of the form ?x only in braces.
arglist(close, braces, dollars_ok, t) ==
  LET More(arg, u) ==
        IF Is(close, u) THEN Parsed(<<arg>>, Tail(u))
        ELSE Want(",", Parsed(arg, u), LAMBDA a, v :
               IF Is(close, v) THEN yyerror
               ELSE Chain(arglist(close, braces, dollars_ok, v), LAMBDA as, w :
                      Parsed(<<a>> \o as, w)))
  IN IF Is(close, t) THEN Parsed(<<>>, Tail(t))
     ELSE IF Is("@", t)
     THEN Chain(expr(1, dollars_ok, Tail(t)), LAMBDA e, u : More(<<"splice", e>>, u))
     ELSE IF Is("?", t) /\ braces /\ Is("ID", Tail(t))
     THEN LET x == find_id(t[2][2])
              u == Tail(Tail(t))
          IN IF Is("=", u)
             THEN Chain(expr(1, dollars_ok, Tail(u)), LAMBDA e, v : More(<<"optional", x, <<e>>>>, v))
             ELSE More(<<"optional", x, <<>>>>, u)
     ELSE Chain(expr(1, dollars_ok, t), LAMBDA e, u : More(<<"normal", e>>, u))

\* codes: ANY, or arguments of which there is one; they end at a token that
\* is left in place.
RECURSIVE ne_arglist(_, _)
ne_arglist(dollars_ok, t) ==
  LET splice == Is("@", t)
  IN Chain(expr(1, dollars_ok, IF splice THEN Tail(t) ELSE t), LAMBDA e, u :
       LET arg == <<IF splice THEN "splice" ELSE "normal", e>>
       IN IF Is(",", u)
          THEN Chain(ne_arglist(dollars_ok, Tail(u)), LAMBDA as, v : Parsed(<<arg>> \o as, v))
          ELSE Parsed(<<arg>>, u))
codes_of(dollars_ok, t) ==
  IF Is("ANY", t) THEN Parsed(<<>>, Tail(t)) ELSE ne_arglist(dollars_ok, t)

\* After `. ' or `:' a name or an expression in parentheses.
member_name(dollars_ok, t) ==
  IF Is("ID", t) THEN Parsed(<<"var", <<"str", t[1][2]>>>>, Tail(t))
  ELSE Want("(", Parsed(<<>>, t), LAMBDA x, u :
         Want(")", expr(1, dollars_ok, u), LAMBDA e, v : Parsed(e, v)))

Arguments(dollars_ok, t, K(_)) ==
  Want("(", Parsed(<<>>, t), LAMBDA x, u :
    Chain(arglist(")", FALSE, dollars_ok, u), LAMBDA as, v : Parsed(K(as), v)))

\* Braces: a list; with an optional item, a whole scattering assignment.
Braces(dollars_ok, t) ==
  Chain(arglist("}", TRUE, dollars_ok, t), LAMBDA as, u :
    IF \A i \in DOMAIN as : as[i][1] /= "optional" THEN Parsed(<<"list", as>>, u)
    ELSE IF ~ Is("=", u) \/ ~ vet_scatter(as) THEN yyerror
    ELSE Chain(expr(1, dollars_ok, Tail(u)), LAMBDA e, v : Parsed(Assignment(<<"list", as>>, e), v)))

Catch(dollars_ok, t) ==
  Want("!", expr(1, dollars_ok, t), LAMBDA e, u :
    Chain(codes_of(dollars_ok, u), LAMBDA cs, v :
      IF Is("=>", v)
      THEN Want("quote", expr(1, dollars_ok, Tail(v)), LAMBDA d, w :
             Parsed(<<"catch", e, cs, <<d>>>>, w))
      ELSE Want("quote", Parsed(cs, v), LAMBDA x, w : Parsed(<<"catch", e, cs, <<>>>>, w))))

\* $name, $name(...) and $.
Dollar(dollars_ok, t) ==
  LET system == <<"var", <<"obj", 0>>>>
      member == <<"var", <<"str", t[1][2]>>>>
  IN IF ~ Is("ID", t) THEN IF dollars_ok THEN Parsed(<<"length">>, t) ELSE yyerror
     ELSE IF Is("(", Tail(t))
     THEN Arguments(dollars_ok, Tail(t), LAMBDA as : <<"verb", system, member, as>>)
     ELSE Parsed(<<"prop", system, member>>, Tail(t))

primary(dollars_ok, t) ==
  IF t = <<>> THEN yyerror
  ELSE LET tok == Head(t)  u == Tail(t)
  IN CASE tok[1] \in {"int", "obj", "err", "str"} -> Parsed(<<"var", tok>>, u)
       [] tok[1] = "ID" ->
            IF Is("(", u) THEN Arguments(dollars_ok, u, LAMBDA as : call_by_name(tok[2], as))
            ELSE Parsed(<<"id", find_id(tok[2])>>, u)
       [] tok[1] = "$" -> Dollar(dollars_ok, u)
       [] tok[1] = "-" -> Chain(expr(PrecUnary, dollars_ok, u), LAMBDA e, v : Parsed(negated(e), v))
       [] tok[1] = "!" -> Chain(expr(PrecUnary, dollars_ok, u), LAMBDA e, v : Parsed(<<"not", e>>, v))
       [] tok[1] = "(" -> Want(")", expr(1, dollars_ok, u), LAMBDA e, v : Parsed(e, v))
       [] tok[1] = "{" -> Braces(dollars_ok, u)
       [] tok[1] = "backquote" -> Catch(dollars_ok, u)
       [] OTHER -> yyerror

\* e[i] and e[i..j], inside of which `$' is the length of e.
Bracket(base, dollars_ok, t) ==
  Chain(expr(1, TRUE, t), LAMBDA i, u :
    IF Is("..", u)
    THEN Want("]", expr(1, TRUE, Tail(u)), LAMBDA j, v : Parsed(<<"range", base, i, j>>, v))
    ELSE Want("]", Parsed(i, u), LAMBDA x, v : Parsed(<<"index", base, i>>, v)))

Conditional(c, dollars_ok, t) ==
  Want("|", expr(1, dollars_ok, t), LAMBDA a, u :
    Chain(expr(Precedence["?"] + 1, dollars_ok, u), LAMBDA b, v :
      IF Is("?", v) THEN yyerror ELSE Parsed(<<"cond", c, a, b>>, v)))

operators(min, dollars_ok, r) ==
  LET t == r.t
      op == IF t = <<>> THEN "" ELSE Head(t)[1]
      Again(q) == Chain(q, LAMBDA e, u : operators(min, dollars_ok, Parsed(e, u)))
      Right(least, K(_)) == Again(Chain(expr(least, dollars_ok, Tail(t)), LAMBDA e, u : Parsed(K(e), u)))
  IN CASE op = "." -> Again(Chain(member_name(dollars_ok, Tail(t)), LAMBDA n, u :
                                    Parsed(<<"prop", r.e, n>>, u)))
       [] op = ":" -> Again(Chain(member_name(dollars_ok, Tail(t)), LAMBDA n, u :
                                    Arguments(dollars_ok, u, LAMBDA as : <<"verb", r.e, n, as>>)))
       [] op = "[" -> Again(Bracket(r.e, dollars_ok, Tail(t)))
       [] op \in DOMAIN Precedence ->
            IF Precedence[op] < min THEN r
            ELSE IF op = "=" THEN IF LegalLeft(r.e) THEN Right(1, LAMBDA e : Assignment(r.e, e))
                                  ELSE yyerror
            ELSE IF op = "?" THEN Again(Conditional(r.e, dollars_ok, Tail(t)))
            ELSE IF op = "^" THEN Right(Precedence[op], LAMBDA e : <<"exp", r.e, e>>)
            ELSE Right(Precedence[op] + 1, LAMBDA e : <<alloc_binary[op], r.e, e>>)
       [] OTHER -> r

-----------------------------------------------------------------------------
(* Statements.  loops holds the names of the loops around, innermost last; *)
(* -1 for one without a name.                                              *)

check_loop_name(id, loops) == IF id = -1 THEN loops /= <<>> ELSE id \in Range(loops)

RECURSIVE statements(_, _, _), statement(_, _), elseifs(_, _, _), excepts(_, _, _)

Ends == {"endif", "else", "elseif", "endfor", "endwhile", "endfork", "endtry", "except", "finally"}

statements(sofar, loops, t) ==
  IF t = <<>> \/ Head(t)[1] \in Ends THEN Parsed(sofar, t)
  ELSE IF Is(";", t) THEN statements(sofar, loops, Tail(t))
  ELSE Chain(statement(loops, t), LAMBDA s, u : statements(Append(sofar, s), loops, u))

Condition(t, K(_, _)) ==
  Want("(", Parsed(<<>>, t), LAMBDA x, u : Want(")", expr(1, FALSE, u), K))

\* An optional name: its place, or -1.
opt_id(t) == IF Is("ID", t) THEN Parsed(find_id(t[1][2]), Tail(t)) ELSE Parsed(-1, t)

\* A body, its closing keyword, and what K makes of it.
Body(loops, t, close, K(_)) ==
  Want(close, statements(<<>>, loops, t), LAMBDA b, u : Parsed(K(b), u))

\* The arms of an if statement after its first keyword, and the else part.
elseifs(sofar, loops, t) ==
  Condition(t, LAMBDA e, u :
    Chain(statements(<<>>, loops, u), LAMBDA b, v :
      LET all == Append(sofar, <<e, b>>)
      IN IF Is("elseif", v) THEN elseifs(all, loops, Tail(v))
         ELSE IF Is("else", v) THEN Body(loops, Tail(v), "endif", LAMBDA o : <<"COND", all, o>>)
         ELSE Want("endif", Parsed(<<"COND", all, <<>>>>, v), Parsed)))

\* Except clauses after the keyword; one after a clause for ANY is refused.
excepts(sofar, loops, t) ==
  Chain(opt_id(t), LAMBDA id, u :
    Want("(", Parsed(id, u), LAMBDA i, v :
      Want(")", codes_of(FALSE, v), LAMBDA cs, w :
        Chain(statements(<<>>, loops, w), LAMBDA b, x :
          LET all == Append(sofar, <<i, cs, b>>)
          IN IF Is("except", x)
             THEN IF cs = <<>> \/ Len(all) > 255 THEN yyerror ELSE excepts(all, loops, Tail(x))
             ELSE Parsed(all, x)))))

try_statement(loops, t) ==
  Chain(statements(<<>>, loops, t), LAMBDA b, u :
    IF Is("except", u)
    THEN Want("endtry", excepts(<<>>, loops, Tail(u)), LAMBDA as, v : Parsed(<<"TRY_EXCEPT", b, as>>, v))
    ELSE Want("finally", Parsed(b, u), LAMBDA c, v :
           Body(loops, v, "endtry", LAMBDA h : <<"TRY_FINALLY", c, h>>)))

for_statement(loops, t) ==
  Chain(opt_id(t), LAMBDA id, u :
    Want("in", Parsed(id, u), LAMBDA i, v :
      LET inside == Append(loops, i)
      IN IF Is("(", v)
         THEN Condition(v, LAMBDA e, w : Body(inside, w, "endfor", LAMBDA b : <<"LIST", i, e, b>>))
         ELSE Want("[", Parsed(i, v), LAMBDA j, w :
                Want("..", expr(1, FALSE, w), LAMBDA from, x :
                  Want("]", expr(1, FALSE, x), LAMBDA to, y :
                    Body(inside, y, "endfor", LAMBDA b : <<"RANGE", i, from, to, b>>))))))

exit_statement(kind, loops, t) ==
  Chain(opt_id(t), LAMBDA id, u :
    Want(";", Parsed(id, u), LAMBDA i, v :
      IF check_loop_name(i, loops) THEN Parsed(<<kind, i>>, v) ELSE yyerror))

statement(loops, t) ==
  LET kw == Head(t)[1]  u == Tail(t)
  IN CASE kw = "if"  -> elseifs(<<>>, loops, u)
       [] kw = "for" -> for_statement(loops, u)
       [] kw = "while" ->
            Chain(opt_id(u), LAMBDA id, v :
              Condition(v, LAMBDA e, w :
                Body(Append(loops, id), w, "endwhile", LAMBDA b : <<"WHILE", id, e, b>>)))
       [] kw = "fork" ->
            Chain(opt_id(u), LAMBDA id, v :
              Condition(v, LAMBDA e, w :
                Body(<<>>, w, "endfork", LAMBDA b : <<"FORK", id, e, b>>)))
       [] kw = "return" ->
            IF Is(";", u) THEN Parsed(<<"RETURN", <<>>>>, Tail(u))
            ELSE Want(";", expr(1, FALSE, u), LAMBDA e, v : Parsed(<<"RETURN", <<e>>>>, v))
       [] kw = "break"    -> exit_statement("BREAK", loops, u)
       [] kw = "continue" -> exit_statement("CONTINUE", loops, u)
       [] kw = "try"      -> try_statement(loops, u)
       [] OTHER -> Want(";", expr(1, FALSE, t), LAMBDA e, v : Parsed(<<"EXPR", e>>, v))

\* The statements of a program, and whether it is one.
parse_program(tokens) ==
  LET r == statements(<<>>, <<>>, yylex(tokens))
  IN [stmts |-> r.e, ok |-> r.ok /\ r.t = <<>>]
=============================================================================
