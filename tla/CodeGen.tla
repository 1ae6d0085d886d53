------------------------------- MODULE CodeGen -------------------------------
(***************************************************************************)
(* The code generator: code_gen.c and opcode.h.                            *)
(*                                                                         *)
(* Syntax trees are tuples whose first component is the node kind.         *)
(* Expressions:                                                            *)
(*   <<"var", v>>            a literal          <<"id", slot>>             *)
(*   <<"and"|"or", a, b>>    <<"not"|"negate", a>>                         *)
(*   <<op, a, b>>            op a key of BinaryOps, "exp" or "index"       *)
(*   <<"range", b, f, t>>    <<"length">>       the `$' of b[..$..]        *)
(*   <<"list", args>>        args: a sequence of <<"normal"|"splice", e>>  *)
(*   <<"call", f, args>>     <<"verb", obj, name, args>>                   *)
(*   <<"cond", c, a, b>>     <<"catch", e, codes, except>>                 *)
(*   <<"asgn", lvalue, e>>   lvalue: id, prop, index, range or             *)
(*   <<"scatter", items>>    items: <<"required"|"rest"|"optional", slot,  *)
(*                                   default>>                             *)
(* Statements: COND, LIST, RANGE, WHILE, FORK, EXPR, RETURN, TRY_EXCEPT,   *)
(* TRY_FINALLY, BREAK, CONTINUE, laid out as generate_stmt reads them.     *)
(* An optional part is <<>> or <<part>>; codes <<>> stands for ANY; -1 is  *)
(* an absent variable.                                                     *)
(*                                                                         *)
(* A code vector is a sequence of bytes.  The compiler first emits one     *)
(* cell per byte or reference and a list of fixups, then stmt_to_code      *)
(* chooses how many bytes each kind of reference takes and lays the        *)
(* vector out.  `base' is the number of values of a byte, 256 in the code; *)
(* a smaller one makes small programs need references of two bytes.        *)
(***************************************************************************)
EXTENDS Integers, Sequences, SequencesExt

CONSTANT NUM_READY_VARS    \* variables with opcodes of their own

ASSUME ReadyVarsAssumption == NUM_READY_VARS \in Nat \ {0}

-----------------------------------------------------------------------------
(* Opcodes are numbers in the order of the enumeration of opcode.h.        *)

TickOps == <<"IF", "WHILE", "EIF", "FORK", "FORK_WITH_ID", "FOR_LIST",
  "FOR_RANGE", "INDEXSET", "PUSH_GET_PROP", "GET_PROP", "CALL_VERB",
  "PUT_PROP", "BI_FUNC_CALL", "IF_QUES", "REF", "RANGE_REF",
  "MAKE_SINGLETON_LIST", "CHECK_LIST_FOR_SPLICE", "MULT", "DIV", "MOD",
  "ADD", "MINUS", "EQ", "NE", "LT", "LE", "GT", "GE", "IN", "AND", "OR",
  "UNARY_MINUS", "NOT">>

FreeOps == <<"IMM", "MAKE_EMPTY_LIST", "LIST_ADD_TAIL", "LIST_APPEND",
  "PUSH_REF", "PUT_TEMP", "PUSH_TEMP", "JUMP", "RETURN", "RETURN0", "DONE",
  "POP", "EXTENDED">>

ExtendedOps == <<"RANGESET", "LENGTH", "PUSH_LABEL", "END_CATCH",
  "END_EXCEPT", "END_FINALLY", "CONTINUE",
  "CATCH", "TRY_EXCEPT", "TRY_FINALLY", "WHILE_ID", "EXIT", "EXIT_ID",
  "SCATTER", "EXP">>

OP_PUT   == Len(TickOps)
OP_G_PUT == OP_PUT + NUM_READY_VARS
OP_PUSH  == OP_G_PUT + 1
OP_G_PUSH == OP_PUSH + NUM_READY_VARS
OPTIM_NUM_START == OP_G_PUSH + 1 + Len(FreeOps)
OPTIM_NUM_LOW == -10
OPTIM_NUM_HI  == 255 - OPTIM_NUM_START + OPTIM_NUM_LOW

OP == [n \in Range(TickOps) \cup Range(FreeOps) |->
         IF n \in Range(TickOps)
         THEN (CHOOSE i \in DOMAIN TickOps : TickOps[i] = n) - 1
         ELSE OP_G_PUSH + (CHOOSE i \in DOMAIN FreeOps : FreeOps[i] = n)]

EOP == [n \in Range(ExtendedOps) |->
          (CHOOSE i \in DOMAIN ExtendedOps : ExtendedOps[i] = n) - 1]

IS_PUT_n(op)  == op \in OP_PUT .. OP_G_PUT - 1
IS_PUSH_n(op) == op \in OP_PUSH .. OP_G_PUSH - 1
IS_OPTIM_NUM(op) == op >= OPTIM_NUM_START
OptimNum(op) == op - OPTIM_NUM_START + OPTIM_NUM_LOW
OptimOp(n)   == OPTIM_NUM_START + n - OPTIM_NUM_LOW
COUNT_TICK(op) == op <= OP_G_PUT
COUNT_EOP_TICK(eop) == eop >= EOP["CATCH"]

BinaryOps == [eq |-> "EQ", ne |-> "NE", ge |-> "GE", gt |-> "GT",
  le |-> "LE", lt |-> "LT", in |-> "IN", plus |-> "ADD", minus |-> "MINUS",
  times |-> "MULT", divide |-> "DIV", mod |-> "MOD", prop |-> "GET_PROP"]

-----------------------------------------------------------------------------
(* Compiler state.                                                         *)

RefKinds == {"literal", "fork", "var", "label", "stack"}
NoSave == -1                        \* UINT_MAX in the code

init_gstate(base) ==
  [literals |-> <<>>, forks |-> <<>>, total_var_refs |-> 0, base |-> base]

init_state(g) ==
  [bytes |-> <<>>, fixups |-> <<>>, num |-> [k \in RefKinds |-> 0],
   top |-> [k \in RefKinds |-> 0], cur |-> 0, max |-> 0, saved |-> NoSave,
   loops |-> <<>>, g |-> g]

emit(b, s) == [s EXCEPT !.bytes = Append(@, b)]
emit_extended(n, s) == emit(EOP[n], emit(OP["EXTENDED"], s))

\* add_linked_fixup, and the count its callers keep; references to the
\* stack are not counted: add_stack_ref leaves num_stacks alone.
add_known_fixup(f, s) ==
  [s EXCEPT !.fixups = Append(@, [f EXCEPT !.pc = Len(s.bytes)]),
            !.bytes = Append(@, 0),
            !.num[f.kind] = IF f.kind = "stack" THEN @ ELSE @ + 1,
            !.top[f.kind] = IF f.value > @ THEN f.value ELSE @]

capture(kind, value, next, s) ==
  [kind |-> kind, pc |-> -1, value |-> value, prev |-> s.num, next |-> next]

add_fixup(kind, value, s) == add_known_fixup(capture(kind, value, 0, s), s)

\* Literals are interned per program.
add_literal(v, s) ==
  LET lits == s.g.literals
      new  == [s EXCEPT !.g.literals = Append(@, v)]
  IN IF v \in Range(lits)
     THEN add_fixup("literal", (CHOOSE i \in DOMAIN lits : lits[i] = v) - 1, s)
     ELSE add_fixup("literal", Len(lits), new)

add_fork(bc, s) ==
  add_fixup("fork", Len(s.g.forks), [s EXCEPT !.g.forks = Append(@, bc)])

add_var_ref(slot, s) ==
  add_fixup("var", slot, [s EXCEPT !.g.total_var_refs = @ + 1])

\* Labels: the newest fixup is the label just added; `next' chains the
\* labels that are to be defined together.
add_linked_label(next, s) == add_known_fixup(capture("label", 0, next, s), s)
add_label(s) == add_linked_label(0, s)
Newest(s) == Len(s.fixups)

add_pseudo_label(value, s) ==
  add_known_fixup([capture("label", value, 0, s) EXCEPT
                     !.prev = [k \in RefKinds |-> 0]], s)

capture_label(s) == capture("label", Len(s.bytes), 0, s)

RECURSIVE define_label(_, _)
define_label(label, s) ==
  IF label = 0 THEN s
  ELSE define_label(s.fixups[label].next,
         [s EXCEPT !.fixups[label].value = Len(s.bytes),
                   !.fixups[label].prev = s.num])

add_stack_ref(index, s) == add_fixup("stack", index, s)

push_stack_late(n, s) == [s EXCEPT !.cur = @ + n, !.max = IF s.cur > @ THEN s.cur ELSE @]
push_stack(n, s) ==
  [s EXCEPT !.cur = @ + n, !.max = IF s.cur + n > @ THEN s.cur + n ELSE @]
pop_stack(n, s) == [s EXCEPT !.cur = @ - n]

save_stack_top(s) == [s EXCEPT !.saved = s.cur - 1]
restore_stack_top(old, s) == [s EXCEPT !.saved = old.saved]

enter_loop(id, top, bottom, below, s) ==
  [s EXCEPT !.loops = Append(@,
     [id |-> id, top |-> top, top_stack |-> s.cur,
      bottom |-> bottom, bottom_stack |-> s.cur - below])]
exit_loop(s) == [s EXCEPT !.loops = Front(@)]

emit_var_op(op, slot, s) ==
  IF slot >= NUM_READY_VARS
  THEN add_var_ref(slot, emit(op + NUM_READY_VARS, s))
  ELSE emit(op + slot, s)

-----------------------------------------------------------------------------
RECURSIVE generate_expr(_, _), generate_arg_list(_, _, _), push_lvalue(_, _, _),
          generate_stmts(_, _), stmt_to_code(_, _)

\* The first argument makes a list, each further one is added to it.
generate_arg_list(args, first, s) ==
  IF args = <<>>
  THEN IF first THEN push_stack(1, emit(OP["MAKE_EMPTY_LIST"], s)) ELSE s
  ELSE LET a  == Head(args)
           op == IF first
                 THEN IF a[1] = "normal" THEN "MAKE_SINGLETON_LIST"
                                         ELSE "CHECK_LIST_FOR_SPLICE"
                 ELSE IF a[1] = "normal" THEN "LIST_ADD_TAIL"
                                         ELSE "LIST_APPEND"
           s1 == emit(OP[op], generate_expr(a[2], s))
       IN generate_arg_list(Tail(args), FALSE,
                            pop_stack(IF first THEN 0 ELSE 1, s1))

push_lvalue(e, indexed_above, s) ==
  CASE e[1] = "range" ->
         LET s1 == push_lvalue(e[2], TRUE, s)
             s2 == generate_expr(e[3], save_stack_top(s1))
         IN restore_stack_top(s1, generate_expr(e[4], s2))
    [] e[1] = "index" ->
         LET s1 == push_lvalue(e[2], TRUE, s)
             s2 == restore_stack_top(s1, generate_expr(e[3], save_stack_top(s1)))
         IN IF indexed_above THEN push_stack(1, emit(OP["PUSH_REF"], s2)) ELSE s2
    [] e[1] = "id" ->
         IF indexed_above THEN push_stack(1, emit_var_op(OP_PUSH, e[2], s)) ELSE s
    [] e[1] = "prop" ->
         LET s1 == generate_expr(e[3], generate_expr(e[2], s))
         IN IF indexed_above THEN push_stack(1, emit(OP["PUSH_GET_PROP"], s1)) ELSE s1

generate_codes(codes, s) ==
  IF codes = <<>> THEN push_stack(1, emit(OptimOp(0), s))
  ELSE generate_arg_list(codes, TRUE, s)

\* lhs OP [label] rhs, and the conditional expression.
generate_and_or(e, s) ==
  LET s1 == add_label(emit(OP[IF e[1] = "and" THEN "AND" ELSE "OR"],
                           generate_expr(e[2], s)))
  IN define_label(Newest(s1), generate_expr(e[3], pop_stack(1, s1)))

generate_cond_expr(e, s) ==
  LET s1 == add_label(emit(OP["IF_QUES"], generate_expr(e[2], s)))
      s2 == add_label(emit(OP["JUMP"], generate_expr(e[3], pop_stack(1, s1))))
      s3 == define_label(Newest(s1), pop_stack(1, s2))
  IN define_label(Newest(s2), generate_expr(e[4], s3))

\* e[i] and e[f..t]: the position of e is what `$' refers to.
generate_index(e, s) ==
  LET s1 == generate_expr(e[2], s)
      s2 == restore_stack_top(s1, generate_expr(e[3], save_stack_top(s1)))
  IN pop_stack(1, emit(OP["REF"], s2))

generate_range(e, s) ==
  LET s1 == generate_expr(e[2], s)
      s2 == generate_expr(e[4], generate_expr(e[3], save_stack_top(s1)))
  IN pop_stack(2, emit(OP["RANGE_REF"], restore_stack_top(s1, s2)))

generate_length(s) ==
  push_stack(1, add_stack_ref(s.saved, emit_extended("LENGTH", s)))

\* Scattering assignment: the variable and the label of each item, then the
\* code of the defaults.
HasDefault(item) == item[1] = "optional" /\ item[3] /= <<>>

RECURSIVE scatter_refs(_, _), scatter_defaults(_, _, _)
scatter_refs(items, s) ==
  IF items = <<>> THEN s
  ELSE LET it == Head(items)
           s1 == add_var_ref(it[2], s)
       IN scatter_refs(Tail(items),
            IF it[1] /= "optional" THEN add_pseudo_label(0, s1)
            ELSE IF it[3] = <<>> THEN add_pseudo_label(1, s1)
            ELSE add_label(s1))

\* `label' is the fixup of the first item of items.
scatter_defaults(items, label, s) ==
  IF items = <<>> THEN s
  ELSE LET it == Head(items)
           s1 == generate_expr(it[3][1], define_label(label, s))
           s2 == pop_stack(1, emit(OP["POP"], emit_var_op(OP_PUT, it[2], s1)))
       IN scatter_defaults(Tail(items), label + 2,
                           IF HasDefault(it) THEN s2 ELSE s)

generate_scatter(items, rhs, s) ==
  LET n    == Len(items)
      nreq == Len(SelectSeq(items, LAMBDA it : it[1] = "required"))
      rest == {i \in 1 .. n : items[i][1] = "rest"}
      s1   == emit_extended("SCATTER", generate_expr(rhs, s))
      s2   == emit(IF rest = {} THEN n + 1 ELSE CHOOSE i \in rest : TRUE,
                   emit(nreq, emit(n, s1)))
      s3   == add_label(scatter_refs(items, s2))
      s4   == scatter_defaults(items, Newest(s2) + 2, s3)
  IN define_label(Newest(s3), s4)

\* The assignments back out of an lvalue, innermost container last.
RECURSIVE store_lvalue(_, _)
store_lvalue(e, s) ==
  CASE e[1] = "range" -> store_lvalue(e[2], pop_stack(3, emit_extended("RANGESET", s)))
    [] e[1] = "index" -> store_lvalue(e[2], pop_stack(2, emit(OP["INDEXSET"], s)))
    [] e[1] = "id"    -> emit_var_op(OP_PUT, e[2], s)
    [] e[1] = "prop"  -> pop_stack(2, emit(OP["PUT_PROP"], s))

generate_assignment(lhs, rhs, s) ==
  LET s1 == generate_expr(rhs, push_lvalue(lhs, FALSE, s))
  IN IF lhs[1] \in {"range", "index"}
     THEN emit(OP["PUSH_TEMP"],
            emit(OP["POP"], store_lvalue(lhs, emit(OP["PUT_TEMP"], s1))))
     ELSE store_lvalue(lhs, s1)

generate_catch(e, s) ==
  LET s1 == push_stack(1, add_label(emit_extended("PUSH_LABEL",
                                                  generate_codes(e[3], s))))
      s2 == push_stack(1, emit_extended("CATCH", s1))
      s3 == pop_stack(3, add_label(emit_extended("END_CATCH",
                                                 generate_expr(e[2], s2))))
      s4 == define_label(Newest(s1), s3)
      s5 == IF e[4] /= <<>>
            THEN generate_expr(e[4][1], pop_stack(1, emit(OP["POP"], s4)))
            ELSE emit(OP["REF"], emit(OptimOp(1), s4))
  IN define_label(Newest(s3), s5)

generate_literal(v, s) ==
  push_stack(1,
    IF v[1] = "int" /\ v[2] \in OPTIM_NUM_LOW .. OPTIM_NUM_HI
    THEN emit(OptimOp(v[2]), s)
    ELSE add_literal(v, emit(OP["IMM"], s)))

generate_expr(e, s) ==
  CASE e[1] = "var" -> generate_literal(e[2], s)
    [] e[1] = "id"  -> push_stack(1, emit_var_op(OP_PUSH, e[2], s))
    [] e[1] \in {"and", "or"} -> generate_and_or(e, s)
    [] e[1] = "negate" -> emit(OP["UNARY_MINUS"], generate_expr(e[2], s))
    [] e[1] = "not"    -> emit(OP["NOT"], generate_expr(e[2], s))
    [] e[1] \in DOMAIN BinaryOps ->
         pop_stack(1, emit(OP[BinaryOps[e[1]]],
                           generate_expr(e[3], generate_expr(e[2], s))))
    [] e[1] = "exp" ->
         pop_stack(1, emit_extended("EXP",
                           generate_expr(e[3], generate_expr(e[2], s))))
    [] e[1] = "index"  -> generate_index(e, s)
    [] e[1] = "range"  -> generate_range(e, s)
    [] e[1] = "length" -> generate_length(s)
    [] e[1] = "list"   -> generate_arg_list(e[2], TRUE, s)
    [] e[1] = "call" ->
         emit(e[2], emit(OP["BI_FUNC_CALL"], generate_arg_list(e[3], TRUE, s)))
    [] e[1] = "verb" ->
         pop_stack(2, emit(OP["CALL_VERB"],
           generate_arg_list(e[4], TRUE,
             generate_expr(e[3], generate_expr(e[2], s)))))
    [] e[1] = "cond" -> generate_cond_expr(e, s)
    [] e[1] = "asgn" ->
         IF e[2][1] = "scatter" THEN generate_scatter(e[2][2], e[3], s)
                                ELSE generate_assignment(e[2], e[3], s)
    [] e[1] = "catch" -> generate_catch(e, s)

-----------------------------------------------------------------------------
(* Statements.                                                             *)

\* if/elseif arms; `ends' is the chain of the jumps to the end.
RECURSIVE generate_arms(_, _, _, _)
generate_arms(arms, op, ends, s) ==
  IF arms = <<>> THEN [ends |-> ends, s |-> s]
  ELSE LET More(s1, s3) == generate_arms(Tail(arms), "EIF", Newest(s3), define_label(Newest(s1), s3))
           Arm(s1) == More(s1, add_linked_label(ends, emit(OP["JUMP"],
                                 generate_stmts(Head(arms)[2], pop_stack(1, s1)))))
       IN Arm(add_label(emit(OP[op], generate_expr(Head(arms)[1], s))))

generate_if(st, s) ==
  LET Else(r) == define_label(r.ends, generate_stmts(st[3], r.s))
  IN Else(generate_arms(st[2], "IF", 0, s))

\* The common end of the loops: body, jump back to `top', bottom label,
\* `below' values popped.
generate_loop(id, top, below, body, s) ==
  LET s1 == generate_stmts(body, enter_loop(id, top, Newest(s), below, s))
      s2 == add_known_fixup(top, emit(OP["JUMP"], s1))
  IN pop_stack(below, define_label(Last(s1.loops).bottom, exit_loop(s2)))

for_loop(id, op, body, s) ==
  generate_loop(id, capture_label(s), 2, body, add_label(add_var_ref(id, emit(OP[op], s))))

generate_for_list(st, s) ==
  for_loop(st[2], "FOR_LIST", st[4],
           push_stack(1, emit(OptimOp(1), generate_expr(st[3], s))))

generate_for_range(st, s) ==
  for_loop(st[2], "FOR_RANGE", st[5], generate_expr(st[4], generate_expr(st[3], s)))

while_test(id, s) ==
  IF id = -1 THEN emit(OP["WHILE"], s) ELSE add_var_ref(id, emit_extended("WHILE_ID", s))

generate_while(st, s) ==
  generate_loop(st[2], capture_label(s), 0, st[4],
                pop_stack(1, add_label(while_test(st[2], generate_expr(st[3], s)))))

generate_fork(st, s) ==
  LET Named(s2) == IF st[2] >= 0 THEN add_var_ref(st[2], s2) ELSE s2
      Body(s1, r) == add_fork(r.bc, [s1 EXCEPT !.g = r.g])
      Fork(s1) == Named(Body(s1, stmt_to_code(st[4], s1.g)))
  IN pop_stack(1, Fork(emit(OP[IF st[2] >= 0 THEN "FORK_WITH_ID" ELSE "FORK"],
                            generate_expr(st[3], s))))

generate_return(st, s) ==
  IF st[2] = <<>> THEN emit(OP["RETURN0"], s)
  ELSE pop_stack(1, emit(OP["RETURN"], generate_expr(st[2][1], s)))

\* codes and handler label of every arm, newest label last
RECURSIVE except_labels(_, _, _), after_label(_, _, _), except_arms(_, _, _, _)
except_labels(arms, labels, s) ==
  IF arms = <<>> THEN [labels |-> labels, s |-> s]
  ELSE after_label(Tail(arms), labels,
         push_stack(1, add_label(emit_extended("PUSH_LABEL",
                                               generate_codes(Head(arms)[2], s)))))

after_label(arms, labels, s) == except_labels(arms, Append(labels, Newest(s)), s)

except_arms(arms, labels, ends, s) ==
  IF arms = <<>> THEN define_label(ends, s)
  ELSE LET a  == Head(arms)
           s1 == push_stack(1, define_label(Head(labels), s))
           s2 == IF a[1] >= 0 THEN emit_var_op(OP_PUT, a[1], s1) ELSE s1
           s3 == generate_stmts(a[3], pop_stack(1, emit(OP["POP"], s2)))
           s4 == add_linked_label(ends, emit(OP["JUMP"], s3))
       IN IF Tail(arms) = <<>> THEN define_label(ends, s3)
          ELSE except_arms(Tail(arms), Tail(labels), Newest(s4), s4)

except_body(st, labels, s) ==
  except_arms(st[3], labels, Newest(s), pop_stack(2 * Len(st[3]) + 1, s))

generate_protected(st, r) ==
  except_body(st, r.labels,
    add_label(emit_extended("END_EXCEPT", generate_stmts(st[2],
      push_stack(1, emit(Len(st[3]), emit_extended("TRY_EXCEPT", r.s)))))))

generate_try_except(st, s) ==
  generate_protected(st, except_labels(st[3], <<>>, s))

generate_try_finally(st, s) ==
  LET s1 == push_stack(1, add_label(emit_extended("TRY_FINALLY", s)))
      s2 == pop_stack(1, emit_extended("END_FINALLY", generate_stmts(st[2], s1)))
      s3 == push_stack(2, define_label(Newest(s1), s2))
  IN pop_stack(2, emit_extended("CONTINUE", generate_stmts(st[3], s3)))

\* break and continue leave the innermost loop, or the innermost one with
\* the named variable.
generate_exit(st, s) ==
  LET n  == Len(s.loops)
      i  == IF st[2] = -1 THEN n
            ELSE CHOOSE j \in 1 .. n : /\ s.loops[j].id = st[2]
                                       /\ \A k \in j + 1 .. n : s.loops[k].id /= st[2]
      s1 == IF st[2] = -1 THEN emit_extended("EXIT", s)
            ELSE add_var_ref(st[2], emit_extended("EXIT_ID", s))
      s2 == add_linked_label(s.loops[i].bottom,
                             add_stack_ref(s.loops[i].bottom_stack, s1))
  IN IF st[1] = "CONTINUE"
     THEN add_known_fixup(s.loops[i].top, add_stack_ref(s.loops[i].top_stack, s1))
     ELSE [s2 EXCEPT !.loops[i].bottom = Newest(s2)]

generate_stmt(st, s) ==
  CASE st[1] = "COND"  -> generate_if(st, s)
    [] st[1] = "LIST"  -> generate_for_list(st, s)
    [] st[1] = "RANGE" -> generate_for_range(st, s)
    [] st[1] = "WHILE" -> generate_while(st, s)
    [] st[1] = "FORK"  -> generate_fork(st, s)
    [] st[1] = "EXPR"  -> pop_stack(1, emit(OP["POP"], generate_expr(st[2], s)))
    [] st[1] = "RETURN" -> generate_return(st, s)
    [] st[1] = "TRY_EXCEPT"  -> generate_try_except(st, s)
    [] st[1] = "TRY_FINALLY" -> generate_try_finally(st, s)
    [] st[1] \in {"BREAK", "CONTINUE"} -> generate_exit(st, s)

generate_stmts(stmts, s) ==
  IF stmts = <<>> THEN s ELSE generate_stmts(Tail(stmts), generate_stmt(Head(stmts), s))

-----------------------------------------------------------------------------
(* Layout.                                                                 *)

ref_size(n, base) == IF n <= base THEN 1 ELSE IF n <= base * base THEN 2 ELSE 4

MaxOf(a, b) == IF a > b THEN a ELSE b

\* The sizes of references, from the largest one of this vector and the
\* counts of the whole program so far.
RefSizes(s) ==
  LET b    == s.g.base
      lit  == ref_size(MaxOf(s.top["literal"], Len(s.g.literals)), b)
      fork == ref_size(MaxOf(s.top["fork"], Len(s.g.forks)), b)
      var  == ref_size(MaxOf(s.top["var"], s.g.total_var_refs), b)
      size == Len(s.bytes) + (lit - 1) * s.num["literal"]
                + (fork - 1) * s.num["fork"] + (var - 1) * s.num["var"]
      label == IF size <= b THEN 1
               ELSE IF size + s.num["label"] <= b * b THEN 2 ELSE 4
  IN [nb |-> [literal |-> lit, fork |-> fork, var |-> var, label |-> label,
              stack |-> ref_size(s.max, b)],
      size |-> size + (label - 1) * s.num["label"]]

\* The bytes of a reference, most significant first.
RefBytes(value, n, base) ==
  [i \in 1 .. n |-> (value \div base ^ (n - i)) % base]

\* A label moves by the extra bytes of the references before it.
FixedValue(f, nb) ==
  IF f.kind /= "label" THEN f.value
  ELSE f.value + f.prev["literal"] * (nb["literal"] - 1)
               + f.prev["fork"] * (nb["fork"] - 1)
               + f.prev["var"] * (nb["var"] - 1)
               + f.prev["label"] * (nb["label"] - 1)
               + f.prev["stack"] * (nb["stack"] - 1)

LayOut(s, nb) ==
  LET At(i) == {j \in DOMAIN s.fixups : s.fixups[j].pc = i - 1}
      Cell(i) == IF At(i) = {} THEN <<s.bytes[i]>>
                 ELSE LET f == s.fixups[CHOOSE j \in At(i) : TRUE]
                      IN RefBytes(FixedValue(f, nb), nb[f.kind], s.g.base)
  IN FlattenSeq([i \in DOMAIN s.bytes |-> Cell(i)])

stmt_to_code(stmts, g) ==
  LET Bytecodes(s, r) == [vector |-> LayOut(s, r.nb), nb |-> r.nb, size |-> r.size,
                          max_stack |-> s.max, base |-> g.base,
                          balanced |-> s.cur = 0 /\ s.saved = NoSave]
      Code(s) == [bc |-> Bytecodes(s, RefSizes(s)), g |-> s.g]
  IN Code(emit(OP["DONE"], generate_stmts(stmts, init_state(g))))

generate_code(stmts, base) ==
  LET Program(r) == [main |-> r.bc, literals |-> r.g.literals, forks |-> r.g.forks]
  IN Program(stmt_to_code(stmts, init_gstate(base)))

\* READ_BYTES: a reference of n bytes at offset pc of bc.
RECURSIVE ReadRef(_, _, _)
ReadRef(bc, pc, n) ==
  IF n = 0 THEN 0 ELSE ReadRef(bc, pc, n - 1) * bc.base + bc.vector[pc + n]
=============================================================================
