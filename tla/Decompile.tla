------------------------------ MODULE Decompile ------------------------------
(***************************************************************************)
(* The decompiler: decompile.c.  It serves two purposes: the text of a     *)
(* verb, which is all the database keeps of it, comes from the decompiled  *)
(* program; and the line number of a program counter is found by           *)
(* decompiling the program while one byte, the hot one, is marked.         *)
(*                                                                         *)
(* c is the context of a pass: the program, the vector, and the offset of  *)
(* the hot byte in it (-1: none).  The C code keeps a pointer hot_node to  *)
(* the node that has the hot byte; here an expression on the stack is a    *)
(* pair <<expression, is hot>>, and a statement list comes with the line   *)
(* of the hot one (0: none), which is what find_hot_node would compute     *)
(* from the pointer.                                                       *)
(***************************************************************************)
EXTENDS CodeGen

\* The lines of a statement as find_hot_node counts them.
RECURSIVE Lines(_), LinesOf(_), ArmLines(_, _)
LinesOf(stmts) == IF stmts = <<>> THEN 0 ELSE Lines(Head(stmts)) + LinesOf(Tail(stmts))
ArmLines(arms, body) ==
  IF arms = <<>> THEN 0 ELSE 1 + LinesOf(Head(arms)[body]) + ArmLines(Tail(arms), body)
Lines(s) ==
  CASE s[1] = "COND" -> ArmLines(s[2], 2) + 1
                          + IF s[3] = <<>> THEN 0 ELSE 1 + LinesOf(s[3])
    [] s[1] \in {"LIST", "WHILE", "FORK"} -> 2 + LinesOf(s[4])
    [] s[1] = "RANGE" -> 2 + LinesOf(s[5])
    [] s[1] = "TRY_EXCEPT" -> 2 + LinesOf(s[2]) + ArmLines(s[3], 3)
    [] s[1] = "TRY_FINALLY" -> 3 + LinesOf(s[2]) + LinesOf(s[3])
    [] OTHER -> 1

\* The first line, of those where the hot byte may be, that is one.
RECURSIVE FirstHot(_)
FirstHot(lines) ==
  IF lines = <<>> THEN 0
  ELSE IF Head(lines) /= 0 THEN Head(lines) ELSE FirstHot(Tail(lines))
If(b, line) == IF b THEN line ELSE 0
Below(n, line) == If(line /= 0, n + line)

-----------------------------------------------------------------------------
(* State of a pass: ptr; es, the expression stack; stmts and arms, with    *)
(* line and arm_line; start, where the current statement began; stale, the *)
(* hot byte was lost; ret, an early exit; bad, a panic.                    *)

Start(ptr, es) ==
  [ptr |-> ptr, es |-> es, stmts |-> <<>>, arms |-> <<>>, line |-> 0, arm_line |-> 0,
   start |-> ptr, asgn_hot |-> FALSE, stale |-> FALSE, ret |-> FALSE, bad |-> FALSE]

panic(t) == [t EXCEPT !.bad = TRUE]
panicUnless(ok, t) == IF ok THEN t ELSE panic(t)

ByteAt(c, p) == IF p < Len(c.bc.vector) THEN c.bc.vector[p + 1] ELSE -1
RefAt(c, p, kind) ==
  IF p + c.bc.nb[kind] <= Len(c.bc.vector) THEN ReadRef(c.bc, p, c.bc.nb[kind]) ELSE 0
W(c, kind) == c.bc.nb[kind]
Hot(c, p) == p = c.hot
jump_len(c) == W(c, "label") + 1

\* The i-th expression from the top, and whether it is hot.
Arg(t, i) == IF i <= Len(t.es) THEN t.es[Len(t.es) + 1 - i][1] ELSE <<"missing">>
ArgHot(t, i) == i <= Len(t.es) /\ t.es[Len(t.es) + 1 - i][2]
Drop(es, n) == SubSeq(es, 1, Len(es) - n)

\* Replaces the n expressions on top by one, at an instruction of len bytes.
\* The new one is hot if the instruction or one of the old ones is.
Reduce(n, e, hot, len, t) ==
  [t EXCEPT !.ptr = @ + len,
            !.es = Append(Drop(@, n), <<e, hot \/ \E i \in 1 .. n : ArgHot(t, i)>>)]

\* ADD_STMT; hot is the line in the statement.
ADD_STMT(st, ptr, hot, t) ==
  [t EXCEPT !.stmts = Append(@, st), !.ptr = ptr, !.start = ptr,
            !.line = IF @ /= 0 THEN @ ELSE Below(LinesOf(t.stmts), hot)]

\* What a nested pass leaves behind.
After(r, t) == [t EXCEPT !.stale = @ \/ r.stale, !.bad = @ \/ r.bad]

\* A JUMP to the label at p; the caller looks whether it is hot.
read_jump(c, p) == IF ByteAt(c, p) = OP["JUMP"] THEN RefAt(c, p + 1, "label") ELSE -1

RECURSIVE decompile(_, _, _, _)

BinaryKind(op) ==
  IF op \in {OP["REF"], OP["PUSH_REF"]} THEN "index"
  ELSE IF op = OP["PUSH_GET_PROP"] THEN "prop"
  ELSE CHOOSE k \in DOMAIN BinaryOps : OP[BinaryOps[k]] = op

BinaryCodes == {OP[BinaryOps[k]] : k \in DOMAIN BinaryOps}
                 \cup {OP["REF"], OP["PUSH_REF"], OP["PUSH_GET_PROP"]}

-----------------------------------------------------------------------------
(* Expressions.                                                            *)

DecompileAndOr(op, hot, c, t) ==
  LET done == RefAt(c, t.ptr + 1, "label")
      r == decompile(c, t.ptr + 1 + W(c, "label"), done, t.es)
      e == <<IF op = OP["AND"] THEN "and" ELSE "or", Arg(r, 2), Arg(r, 1)>>
  IN After(r, Reduce(2, e, hot, done - t.ptr, [t EXCEPT !.es = r.es]))

DecompileCond(hot, c, t) ==
  LET r1 == decompile(c, t.ptr + 1 + W(c, "label"),
                      RefAt(c, t.ptr + 1, "label") - jump_len(c), t.es)
      done == read_jump(c, r1.ptr)
      r2 == decompile(c, r1.ptr + jump_len(c), done, r1.es)
      e == <<"cond", Arg(r2, 3), Arg(r2, 2), Arg(r2, 1)>>
  IN After(r2, After(r1, Reduce(3, e, hot \/ Hot(c, r1.ptr), done - t.ptr,
                                [t EXCEPT !.es = r2.es])))

\* The rest of an indexed assignment is skipped up to its last opcode,
\* PUSH_TEMP, byte by byte.  A hot byte in it marks expr_stack[top_expr_stack],
\* which is not the assignment but a node already popped: it is lost.
finish_indexed_assignment(c, t) ==
  LET ends == {p \in t.ptr .. Len(c.bc.vector) - 1 : ByteAt(c, p) = OP["PUSH_TEMP"]}
      last == CHOOSE p \in ends : \A q \in ends : p <= q
  IN IF ends = {} THEN panic(t)
     ELSE [t EXCEPT !.ptr = last + 1, !.asgn_hot = FALSE,
                    !.stale = @ \/ c.hot \in t.ptr .. last - 1]

\* Items of a scattering assignment: <<kind, variable, label>>.
ScatterItems(c, p) ==
  LET size == W(c, "var") + W(c, "label")
      At(i) == p + 5 + (i - 1) * size
      Label(i) == RefAt(c, At(i) + W(c, "var"), "label")
  IN [i \in 1 .. ByteAt(c, p + 2) |->
        <<IF i = ByteAt(c, p + 4) THEN "rest"
          ELSE IF Label(i) = 0 THEN "required" ELSE "optional",
          RefAt(c, At(i), "var"), Label(i)>>]

RECURSIVE DecompileDefaults(_, _, _, _, _, _)
DecompileDefaults(items, done, out, hot, c, t) ==
  IF items = <<>> THEN [items |-> out, hot |-> hot, t |-> t]
  ELSE
  LET it   == Head(items)
      next == FirstHot([i \in 1 .. Len(items) - 1 |->
                          If(items[i + 1][3] > 1, items[i + 1][3])])
      r    == decompile(c, t.ptr, (IF next = 0 THEN done ELSE next) - 1, t.es)
      d    == Arg(r, 1)
      ok   == /\ t.ptr = it[3]
              /\ d[1] = "asgn" /\ d[2] = <<"id", it[2]>>
              /\ ByteAt(c, r.ptr) = OP["POP"]
  IN IF it[3] <= 1
     THEN DecompileDefaults(Tail(items), done, Append(out, <<it[1], it[2], <<>>>>), hot, c, t)
     ELSE IF ~ ok THEN [items |-> out, hot |-> hot, t |-> panic(t)]
     ELSE DecompileDefaults(Tail(items), done, Append(out, <<it[1], it[2], <<d[3]>>>>),
                            hot \/ ArgHot(r, 1) \/ Hot(c, r.ptr), c,
                            After(r, [t EXCEPT !.ptr = r.ptr + 1]))

DecompileScatter(hot, c, t) ==
  LET items == ScatterItems(c, t.ptr)
      p    == t.ptr + 5 + Len(items) * (W(c, "var") + W(c, "label"))
      done == RefAt(c, p, "label")
      r    == DecompileDefaults(items, done, <<>>, hot, c,
                                [t EXCEPT !.ptr = p + W(c, "label")])
      e    == <<"asgn", <<"scatter", r.items>>, Arg(t, 1)>>
  IN panicUnless(r.t.ptr = done, Reduce(1, e, r.hot, 0, r.t))

\* The codes of a handler: a list, or zero for any.
IsCodes(e) == e[1] = "list" \/ e = <<"var", <<"int", 0>>>>
Codes(e) == IF e[1] = "list" THEN e[2] ELSE <<>>
IsLabel(e) == e[1] = "var" /\ e[2][1] = "int"

\* `is_hot || ptr++ == hot_byte' does not step over the EXTENDED byte when the
\* CATCH itself is hot.
DecompileCatch(hot, c, t) ==
  LET label == Arg(t, 1)  codes == Arg(t, 2)
      r  == decompile(c, t.ptr + 2, c.end, Drop(t.es, 2))
      p  == IF hot THEN r.ptr ELSE r.ptr + 1
      done == RefAt(c, p + 1, "label")
      h  == p + 1 + W(c, "label")                \* the handler
      plain == ByteAt(c, h) = OptimOp(1)
      r2 == decompile(c, h + 1, done, r.es)
      is_hot == \/ hot \/ Hot(c, r.ptr) \/ Hot(c, h)
                \/ IF plain THEN Hot(c, h + 1) ELSE ArgHot(r2, 1)
      ok == /\ IsLabel(label) /\ IsCodes(codes)
            /\ ByteAt(c, p) = EOP["END_CATCH"] /\ h = label[2][2]
            /\ IF plain THEN ByteAt(c, h + 1) = OP["REF"] /\ h + 2 = done
                        ELSE ByteAt(c, h) = OP["POP"]
      e  == <<"catch", Arg(r, 1), Codes(codes), IF plain THEN <<>> ELSE <<Arg(r2, 1)>>>>
  IN IF ~ ok THEN panic(t)
     ELSE After(r, After(IF plain THEN r ELSE r2,
            Reduce(2, e, is_hot \/ ArgHot(r, 1), done - t.ptr, t)))

-----------------------------------------------------------------------------
(* Statements.                                                             *)

\* One arm of an if statement, at a test: the arm, its hot line, the state.
DecompileArm(hot, c, t) ==
  LET next == RefAt(c, t.ptr + 1, "label")
      Line(b) == FirstHot(<<If(hot \/ ArgHot(t, 1), 1), Below(1, b.line),
                            If(Hot(c, b.ptr), 1 + LinesOf(b.stmts))>>)
      Arm(b) == [arm |-> <<Arg(t, 1), b.stmts>>, line |-> Line(b), done |-> read_jump(c, b.ptr),
                 t |-> After(b, [t EXCEPT !.ptr = b.ptr + jump_len(c), !.es = b.es])]
  IN Arm(decompile(c, t.ptr + 1 + W(c, "label"), next - jump_len(c), Drop(t.es, 1)))

\* a is the first arm, r what the pass over the others and the else part left.
IfStatement(a, arms, r) ==
  ADD_STMT(<<"COND", arms, r.stmts>>, r.ptr,
           FirstHot(<<a.line, Below(1 + LinesOf(a.arm[2]), r.arm_line),
                      Below(ArmLines(arms, 2) + 1, r.line)>>),
           After(r, a.t))

DecompileIf(hot, c, t) ==
  LET Rest(a, r) == IfStatement(a, <<a.arm>> \o r.arms, r)
      First(a) == Rest(a, decompile(c, a.t.ptr, a.done, a.t.es))
  IN First(DecompileArm(hot, c, t))

\* An elseif adds an arm to the statement the enclosing pass is building.
DecompileElseIf(hot, c, t) ==
  LET Add(a) == panicUnless(a.done = c.end,
        [a.t EXCEPT !.arms = Append(@, a.arm), !.start = a.t.ptr,
                    !.arm_line = IF @ /= 0 THEN @ ELSE Below(ArmLines(t.arms, 2), a.line)])
  IN Add(DecompileArm(hot, c, t))

\* The body of a loop, its jump to `top', and the statement Stmt(body).
DecompileLoop(n, p, top, Stmt(_), hot, c, t) ==
  LET b == decompile(c, p + W(c, "label"), RefAt(c, p, "label") - jump_len(c), Drop(t.es, n))
      s == Stmt(b.stmts)
      kid == \E i \in 1 .. n : ArgHot(t, i)
      line == FirstHot(<<If(hot \/ kid, 1), Below(1, b.line), If(Hot(c, b.ptr), Lines(s))>>)
  IN panicUnless(read_jump(c, b.ptr) = top,
       ADD_STMT(s, b.ptr + jump_len(c), line, After(b, [t EXCEPT !.es = b.es])))

DecompileForList(hot, c, t) ==
  panicUnless(Arg(t, 1) = <<"var", <<"int", 1>>>>,
    DecompileLoop(2, t.ptr + 1 + W(c, "var"), t.ptr,
      LAMBDA b : <<"LIST", RefAt(c, t.ptr + 1, "var"), Arg(t, 2), b>>, hot, c, t))

DecompileForRange(hot, c, t) ==
  DecompileLoop(2, t.ptr + 1 + W(c, "var"), t.ptr,
    LAMBDA b : <<"RANGE", RefAt(c, t.ptr + 1, "var"), Arg(t, 2), Arg(t, 1), b>>, hot, c, t)

DecompileWhile(id, p, hot, c, t) ==
  DecompileLoop(1, p, t.start, LAMBDA b : <<"WHILE", id, Arg(t, 1), b>>, hot, c, t)

DecompileFork(named, hot, c, t) ==
  LET f  == RefAt(c, t.ptr + 1, "fork") + 1
      p  == t.ptr + 1 + W(c, "fork")
      id == IF named THEN RefAt(c, p, "var") ELSE -1
      bc == c.prog.forks[f]
      fc == [c EXCEPT !.bc = bc, !.end = bc.size, !.hot = IF c.hot_vec = f THEN c.hot_pc ELSE -1]
      b  == decompile(fc, 0, bc.size, Drop(t.es, 1))
      s  == <<"FORK", id, Arg(t, 1), b.stmts>>
      line == FirstHot(<<If(hot \/ ArgHot(t, 1), 1), Below(1, b.line),
                         If(fc.hot = bc.size - 1, Lines(s))>>)
  IN After(b, ADD_STMT(s, p + (IF named THEN W(c, "var") ELSE 0), line,
                       [t EXCEPT !.es = Drop(@, 1)]))

\* The handlers of a try statement, one after the other.
RECURSIVE DecompileExcepts(_, _, _, _)
DecompileExcepts(todo, done, c, u) ==
  IF todo = <<>> THEN u
  ELSE
  LET x   == Head(todo)
      op  == ByteAt(c, u.ptr)
      id  == IF op = OP_G_PUT THEN RefAt(c, u.ptr + 1, "var")
             ELSE IF IS_PUT_n(op) THEN op - OP_PUT ELSE -1
      pop == u.ptr + (IF op = OP_G_PUT THEN 1 + W(c, "var") ELSE IF IS_PUT_n(op) THEN 1 ELSE 0)
      more == Tail(todo) /= <<>>
      b   == decompile(c, pop + 1, IF more THEN Head(Tail(todo)).label - jump_len(c) ELSE done,
                       <<>>)
      hot == x.hot \/ Hot(c, u.ptr) \/ Hot(c, pop)
      line == FirstHot(<<If(hot, 1), Below(1, b.line),
                         If(more /\ Hot(c, b.ptr), 1 + LinesOf(b.stmts))>>)
      ok  == /\ x.label = u.ptr /\ ByteAt(c, pop) = OP["POP"]
             /\ more => read_jump(c, b.ptr) = done
  IN IF ~ ok THEN panic(u)
     ELSE DecompileExcepts(Tail(todo), done, c,
            After(b, [u EXCEPT !.ptr = b.ptr + IF more THEN jump_len(c) ELSE 0,
                               !.arms = Append(@, <<id, x.codes, b.stmts>>),
                               !.arm_line = IF @ /= 0 THEN @
                                            ELSE Below(ArmLines(u.arms, 3), line)]))

DecompileTryExcept(hot, c, t) ==
  LET n == ByteAt(c, t.ptr + 2)
      arm(i) == 2 * (n - i)            \* labels and codes of arm i, from the top
      ok1 == /\ Len(t.es) >= 2 * n
             /\ \A i \in 1 .. n : IsLabel(Arg(t, arm(i) + 1)) /\ IsCodes(Arg(t, arm(i) + 2))
      todo == [i \in 1 .. n |->
                 [label |-> Arg(t, arm(i) + 1)[2][2], codes |-> Codes(Arg(t, arm(i) + 2)),
                  hot |-> ArgHot(t, arm(i) + 1) \/ ArgHot(t, arm(i) + 2)]]
      b    == decompile(c, t.ptr + 3, c.end, Drop(t.es, 2 * n))
      done == RefAt(c, b.ptr + 2, "label")
      u    == DecompileExcepts(todo, done, c, Start(b.ptr + 2 + W(c, "label"), <<>>))
      s    == <<"TRY_EXCEPT", b.stmts, u.arms>>
      line == FirstHot(<<If(hot, 1), Below(1, b.line), If(Hot(c, b.ptr), 1 + LinesOf(b.stmts)),
                         Below(1 + LinesOf(b.stmts), u.arm_line)>>)
  IN IF ~ ok1 \/ ByteAt(c, b.ptr + 1) /= EOP["END_EXCEPT"] \/ u.ptr /= done THEN panic(t)
     ELSE After(b, After(u, ADD_STMT(s, done, line, [t EXCEPT !.es = Drop(@, 2 * n)])))

DecompileTryFinally(hot, c, t) ==
  LET b == decompile(c, t.ptr + 2 + W(c, "label"), c.end, t.es)
      h == decompile(c, b.ptr + 2, c.end, t.es)
      s == <<"TRY_FINALLY", b.stmts, h.stmts>>
      n == LinesOf(b.stmts)
      line == FirstHot(<<If(hot, 1), Below(1, b.line), If(Hot(c, b.ptr), n + 2),
                         Below(n + 2, h.line), If(Hot(c, h.ptr), Lines(s))>>)
      ok == /\ ByteAt(c, b.ptr + 1) = EOP["END_FINALLY"]
            /\ b.ptr + 2 = RefAt(c, t.ptr + 2, "label")
            /\ ByteAt(c, h.ptr + 1) = EOP["CONTINUE"]
  IN panicUnless(ok, After(b, After(h, ADD_STMT(s, h.ptr + 2, line, t))))

\* A jump back is a continue.
DecompileExit(named, hot, c, t) ==
  LET id == IF named THEN RefAt(c, t.ptr + 2, "var") ELSE -1
      p  == t.ptr + 2 + (IF named THEN W(c, "var") ELSE 0) + W(c, "stack")
      q  == p + W(c, "label")
  IN ADD_STMT(<<IF RefAt(c, p, "label") < q THEN "CONTINUE" ELSE "BREAK", id>>, q, If(hot, 1), t)

-----------------------------------------------------------------------------
(* One instruction.                                                        *)

AddToList(kind, hot, t) ==
  panicUnless(Arg(t, 2)[1] = "list" /\ Arg(t, 2)[2] /= <<>>,
    Reduce(2, <<"list", Append(Arg(t, 2)[2], <<kind, Arg(t, 1)>>)>>, hot, 1, t))

DecompileExtended(hot, c, t) ==
  LET eop == ByteAt(c, t.ptr + 1)
      Is(n) == eop = EOP[n]
  IN CASE Is("RANGESET") ->
            finish_indexed_assignment(c, Reduce(4,
              <<"asgn", <<"range", Arg(t, 4), Arg(t, 3), Arg(t, 2)>>, Arg(t, 1)>>,
              hot \/ t.asgn_hot, 2, t))
       [] Is("LENGTH") -> Reduce(0, <<"length">>, hot, 2 + W(c, "stack"), t)
       [] Is("EXP")    -> Reduce(2, <<"exp", Arg(t, 2), Arg(t, 1)>>, hot, 2, t)
       [] Is("SCATTER") -> DecompileScatter(hot, c, t)
       [] Is("PUSH_LABEL") ->
            Reduce(0, <<"var", <<"int", RefAt(c, t.ptr + 2, "label")>>>>, hot,
                   2 + W(c, "label"), t)
       [] Is("CATCH")  -> DecompileCatch(hot, c, t)
       [] Is("TRY_EXCEPT")  -> DecompileTryExcept(hot, c, t)
       [] Is("TRY_FINALLY") -> DecompileTryFinally(hot, c, t)
       [] eop \in {EOP["END_CATCH"], EOP["END_EXCEPT"], EOP["END_FINALLY"], EOP["CONTINUE"]} ->
            [t EXCEPT !.ret = TRUE]
       [] Is("WHILE_ID") ->
            DecompileWhile(RefAt(c, t.ptr + 2, "var"), t.ptr + 2 + W(c, "var"), hot, c, t)
       [] Is("EXIT") \/ Is("EXIT_ID") -> DecompileExit(Is("EXIT_ID"), hot, c, t)
       [] OTHER -> panic(t)

DecompileOp(c, t) ==
  LET op  == ByteAt(c, t.ptr)
      hot == Hot(c, t.ptr)
      Is(n) == op = OP[n]
      var == RefAt(c, t.ptr + 1, "var")
      vlen == 1 + W(c, "var")
      a   == Arg(t, 1)
      ListOk(u) == panicUnless(a[1] = "list", u)
  IN CASE IS_PUSH_n(op) -> Reduce(0, <<"id", op - OP_PUSH>>, hot, 1, t)
       [] IS_PUT_n(op)  -> Reduce(1, <<"asgn", <<"id", op - OP_PUT>>, a>>, hot, 1, t)
       [] IS_OPTIM_NUM(op) -> Reduce(0, <<"var", <<"int", OptimNum(op)>>>>, hot, 1, t)
       [] Is("IF")  -> DecompileIf(hot, c, t)
       [] Is("EIF") -> DecompileElseIf(hot, c, t)
       [] Is("FOR_LIST")  -> DecompileForList(hot, c, t)
       [] Is("FOR_RANGE") -> DecompileForRange(hot, c, t)
       [] Is("WHILE") -> DecompileWhile(-1, t.ptr + 1, hot, c, t)
       [] Is("FORK") \/ Is("FORK_WITH_ID") -> DecompileFork(Is("FORK_WITH_ID"), hot, c, t)
       [] Is("POP") -> ADD_STMT(<<"EXPR", a>>, t.ptr + 1, If(hot \/ ArgHot(t, 1), 1),
                                [t EXCEPT !.es = Drop(@, 1)])
       [] Is("RETURN") -> ADD_STMT(<<"RETURN", <<a>>>>, t.ptr + 1, If(hot \/ ArgHot(t, 1), 1),
                                   [t EXCEPT !.es = Drop(@, 1)])
       [] Is("RETURN0") -> ADD_STMT(<<"RETURN", <<>>>>, t.ptr + 1, If(hot, 1), t)
       [] Is("DONE") -> panicUnless(t.ptr + 1 = c.end, [t EXCEPT !.ptr = @ + 1])
       [] Is("IMM") -> Reduce(0, <<"var", c.prog.literals[RefAt(c, t.ptr + 1, "literal") + 1]>>,
                              hot, 1 + W(c, "literal"), t)
       [] op = OP_G_PUSH -> Reduce(0, <<"id", var>>, hot, vlen, t)
       [] op = OP_G_PUT  -> Reduce(1, <<"asgn", <<"id", var>>, a>>, hot, vlen, t)
       [] Is("AND") \/ Is("OR") -> DecompileAndOr(op, hot, c, t)
       [] Is("NOT") -> Reduce(1, <<"not", a>>, hot, 1, t)
       [] Is("UNARY_MINUS") -> Reduce(1, <<"negate", a>>, hot, 1, t)
       [] op \in BinaryCodes -> Reduce(2, <<BinaryKind(op), Arg(t, 2), a>>, hot, 1, t)
       [] Is("RANGE_REF") -> Reduce(3, <<"range", Arg(t, 3), Arg(t, 2), a>>, hot, 1, t)
       [] Is("BI_FUNC_CALL") ->
            ListOk(Reduce(1, <<"call", ByteAt(c, t.ptr + 1), a[2]>>, hot, 2, t))
       [] Is("CALL_VERB") -> ListOk(Reduce(3, <<"verb", Arg(t, 3), Arg(t, 2), a[2]>>, hot, 1, t))
       [] Is("IF_QUES") -> DecompileCond(hot, c, t)
       [] Is("PUT_TEMP") -> [t EXCEPT !.ptr = @ + 1, !.asgn_hot = @ \/ hot]
       [] Is("INDEXSET") ->
            finish_indexed_assignment(c, Reduce(3,
              <<"asgn", <<"index", Arg(t, 3), Arg(t, 2)>>, a>>, hot \/ t.asgn_hot, 1, t))
       [] Is("PUT_PROP") ->
            Reduce(3, <<"asgn", <<"prop", Arg(t, 3), Arg(t, 2)>>, a>>, hot, 1, t)
       [] Is("MAKE_EMPTY_LIST") -> Reduce(0, <<"list", <<>>>>, hot, 1, t)
       [] Is("MAKE_SINGLETON_LIST") -> Reduce(1, <<"list", <<<<"normal", a>>>>>>, hot, 1, t)
       [] Is("CHECK_LIST_FOR_SPLICE") -> Reduce(1, <<"list", <<<<"splice", a>>>>>>, hot, 1, t)
       [] Is("LIST_ADD_TAIL") -> AddToList("normal", hot, t)
       [] Is("LIST_APPEND") -> AddToList("splice", hot, t)
       [] Is("EXTENDED") -> DecompileExtended(hot, c, t)
       [] OTHER -> panic(t)           \* PUSH_TEMP, JUMP and no opcode at all

RECURSIVE DecompileLoopUntil(_, _)
DecompileLoopUntil(c, t) ==
  IF t.bad \/ t.ret THEN t
  ELSE IF t.ptr >= c.end THEN panicUnless(t.ptr = c.end, t)
  ELSE DecompileLoopUntil(c, DecompileOp(c, t))

decompile(c, ptr, end, es) == DecompileLoopUntil([c EXCEPT !.end = end], Start(ptr, es))

-----------------------------------------------------------------------------
\* The vector `vec' (0: the main one) with byte pc of vector pc_vec hot.
program_to_tree(prog, vec, pc_vec, pc) ==
  LET bc == IF vec = 0 THEN prog.main ELSE prog.forks[vec]
  IN decompile([prog |-> prog, bc |-> bc, end |-> bc.size, hot_vec |-> pc_vec,
                hot_pc |-> pc, hot |-> IF pc_vec = vec THEN pc ELSE -1], 0, bc.size, <<>>)

decompile_program(prog, vec) == program_to_tree(prog, vec, 0, -1)

\* The line of a program counter; -1 stands for a panic.  A hot byte that was
\* lost makes it the line after the last.
find_line_number(prog, vec, pc) ==
  LET size == IF vec = 0 THEN prog.main.size ELSE prog.forks[vec].size
      HotLine(t) == IF t.bad \/ pc >= size THEN -1
                    ELSE IF t.line /= 0 THEN t.line
                    ELSE IF t.stale \/ pc = size - 1 THEN 1 + LinesOf(t.stmts)
                    ELSE -1
  IN HotLine(program_to_tree(prog, 0, vec, pc))
=============================================================================
