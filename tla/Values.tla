-------------------------------- MODULE Values --------------------------------
(***************************************************************************)
(* MOO values and the operations of the expression opcodes on them: the    *)
(* value parts of run() in execute.c, and numbers.c, list.c and utils.c.   *)
(*                                                                         *)
(* A value is <<type, payload>>: <<"int", n>>, <<"obj", n>>, <<"err", e>>, *)
(* <<"str", characters>>, <<"list", values>>.  A string is a sequence of   *)
(* letters, so that indexing and ranges work on strings and lists alike.   *)
(* Floating-point numbers are left out.  An operation returns a value, or  *)
(* <<"fail", e>> where the opcode raises e.                                *)
(***************************************************************************)
EXTENDS Integers, Sequences, SequencesExt

CONSTANT INT_BITS     \* width of an int: 32 in the code

ASSUME IntBitsAssumption == INT_BITS \in 4 .. 16

Num(n)   == <<"int", n>>
Obj(n)   == <<"obj", n>>
Err(e)   == <<"err", e>>
Str(s)   == <<"str", s>>
List(s)  == <<"list", s>>
Fail(e)  == <<"fail", e>>
None     == <<"none", 0>>
Zero     == Num(0)
Bool(b)  == Num(IF b THEN 1 ELSE 0)

INT_MIN == -(2 ^ (INT_BITS - 1))
INT_MAX == 2 ^ (INT_BITS - 1) - 1

\* The value an int keeps of n.
Wrap(n) == ((n - INT_MIN) % 2 ^ INT_BITS) + INT_MIN

is_true(v) == \/ v[1] = "int" /\ v[2] /= 0
              \/ v[1] \in {"str", "list"} /\ v[2] /= <<>>

\* Values of different types differ; letters have no case here.
equality(a, b) == a = b

ismember(v, list) ==
  LET at == {i \in DOMAIN list[2] : equality(v, list[2][i])}
  IN IF at = {} THEN 0 ELSE CHOOSE i \in at : \A j \in at : i <= j

-----------------------------------------------------------------------------
(* Numbers.                                                                *)

\* C division truncates towards zero.
CDiv(a, b) == LET q == (IF a < 0 THEN -a ELSE a) \div (IF b < 0 THEN -b ELSE b)
              IN IF (a < 0) = (b < 0) THEN q ELSE -q
CMod(a, b) == a - b * CDiv(a, b)

SIMPLE_BINARY(a, b, r) == IF a[1] /= "int" \/ b[1] /= "int" THEN Fail("E_TYPE")
                          ELSE Num(Wrap(r))

\* INT_MIN / -1 traps on the usual machines: it has no value.
DIVISION_OP(a, b, modulus) ==
  CASE a[1] /= "int" \/ b[1] /= "int" -> Fail("E_TYPE")
    [] a[1] = "int" /\ b[1] = "int" /\ b[2] = 0 -> Fail("E_DIV")
    [] OTHER -> Num(Wrap(IF modulus THEN CMod(a[2], b[2]) ELSE CDiv(a[2], b[2])))

\* Mutant of power_loop: the base is squared first.
RECURSIVE power_loop_squared(_, _, _)
power_loop_squared(a, b, r) ==
  IF b = 0 THEN r
  ELSE LET s == Wrap(a * a)
       IN power_loop_squared(s, b \div 2, IF b % 2 /= 0 THEN Wrap(r * s) ELSE r)

\* Exponentiation by squaring.
RECURSIVE power_loop(_, _, _)
power_loop(a, b, r) ==
  IF b = 0 THEN r
  ELSE power_loop(Wrap(a * a), b \div 2, IF b % 2 /= 0 THEN Wrap(r * a) ELSE r)

do_power(l, r) ==
  CASE l[1] /= "int" \/ r[1] /= "int" -> Fail("E_TYPE")
    [] l[1] = "int" /\ r[1] = "int" /\ r[2] >= 0 -> Num(power_loop(l[2], r[2], 1))
    [] l[1] = "int" /\ r[1] = "int" /\ r[2] < 0 ->
         CASE l[2] = -1 -> Num(IF r[2] % 2 = 0 THEN 1 ELSE -1)
           [] l[2] = 0  -> Fail("E_DIV")
           [] l[2] = 1  -> Num(1)
           [] OTHER     -> Zero

compare_integers(a, b) == IF a < b THEN -1 ELSE IF a = b THEN 0 ELSE 1

\* The order of letters and of errors is that of their numbers: only the
\* comparison of numbers and objects is modelled.
Compare(op, l, r) ==
  IF l[1] /= r[1] \/ l[1] = "list" THEN Fail("E_TYPE")
  ELSE LET c == IF l[1] \in {"int", "obj"} THEN compare_integers(l[2], r[2])
                ELSE IF l = r THEN 0 ELSE 1
       IN Bool(CASE op = "LT" -> c < 0  [] op = "LE" -> c <= 0
                 [] op = "GT" -> c > 0  [] op = "GE" -> c >= 0)

-----------------------------------------------------------------------------
(* Lists and strings.                                                      *)

sublist(s, lower, upper) ==
  IF lower > upper THEN <<>> ELSE [i \in 1 .. upper - lower + 1 |-> s[lower + i - 1]]

rangeset(base, from, to, value) ==
  LET lenleft  == IF from > 1 THEN from - 1 ELSE 0
      lenright == IF Len(base) > to THEN Len(base) - to ELSE 0
  IN [i \in 1 .. lenleft |-> base[i]] \o value
       \o [i \in 1 .. lenright |-> base[to + i]]

rangeset_check(end, from, to) == from > end + 1 \/ to < 0

listconcat(a, b) == a \o b
listappend(s, v) == Append(s, v)

listset(s, v, pos) == [s EXCEPT ![pos] = v]

doinsert(s, v, pos) == [i \in 1 .. Len(s) + 1 |->
                          IF i < pos THEN s[i] ELSE IF i = pos THEN v ELSE s[i - 1]]

listinsert(s, v, pos) ==
  doinsert(s, v, IF pos <= 0 THEN 1 ELSE IF pos > Len(s) THEN Len(s) + 1 ELSE pos)

listdelete(s, pos) == [i \in 1 .. Len(s) - 1 |-> IF i < pos THEN s[i] ELSE s[i + 1]]

setadd(list, v) ==
  IF ismember(v, list) /= 0 THEN list ELSE List(listappend(list[2], v))

setremove(list, v) ==
  IF ismember(v, list) /= 0 THEN List(listdelete(list[2], ismember(v, list))) ELSE list

-----------------------------------------------------------------------------
(* The opcodes' checks: type first, then range, then argument.             *)

IsSeq(v) == v[1] \in {"list", "str"}
Elem(v, i) == IF v[1] = "list" THEN v[2][i] ELSE Str(<<v[2][i]>>)

Index(list, index) ==
  CASE index[1] /= "int" \/ ~ IsSeq(list) -> Fail("E_TYPE")
    [] OTHER -> IF index[2] \in DOMAIN list[2] THEN Elem(list, index[2])
                ELSE Fail("E_RANGE")

\* PUSH_REF, on the way down an lvalue, takes lists only.
PushRef(list, index) ==
  IF index[1] /= "int" \/ list[1] /= "list" THEN Fail("E_TYPE") ELSE Index(list, index)

RangeRef(base, from, to) ==
  CASE ~ IsSeq(base) \/ to[1] /= "int" \/ from[1] /= "int" -> Fail("E_TYPE")
    [] OTHER ->
         IF from[2] <= to[2] /\ ~ {from[2], to[2]} \subseteq DOMAIN base[2]
         THEN Fail("E_RANGE")
         ELSE <<base[1], sublist(base[2], from[2], to[2])>>

IndexSet(list, index, value) ==
  CASE ~ IsSeq(list) \/ index[1] /= "int" \/ (list[1] = "str" /\ value[1] /= "str")
         -> Fail("E_TYPE")
    [] OTHER ->
         IF index[2] \notin DOMAIN list[2] THEN Fail("E_RANGE")
         ELSE IF list[1] = "list" THEN List(listset(list[2], value, index[2]))
         ELSE IF Len(value[2]) /= 1 THEN Fail("E_INVARG")
         ELSE Str([list[2] EXCEPT ![index[2]] = value[2][1]])

RangeSet(base, from, to, value) ==
  CASE to[1] /= "int" \/ from[1] /= "int" \/ ~ IsSeq(base) \/ base[1] /= value[1]
         -> Fail("E_TYPE")
    [] OTHER ->
         IF rangeset_check(Len(base[2]), from[2], to[2]) THEN Fail("E_RANGE")
         ELSE <<base[1], rangeset(base[2], from[2], to[2], value[2])>>

Length(v) == IF IsSeq(v) THEN Num(Len(v[2])) ELSE Fail("E_TYPE")

In(l, r) == IF r[1] /= "list" THEN Fail("E_TYPE") ELSE Num(ismember(l, r))

Negate(v) == IF v[1] /= "int" THEN Fail("E_TYPE") ELSE Num(Wrap(-v[2]))

ListAddTail(list, v) ==
  IF list[1] /= "list" THEN Fail("E_TYPE") ELSE List(listappend(list[2], v))

ListAppend(list, v) ==
  IF v[1] /= "list" \/ list[1] /= "list" THEN Fail("E_TYPE")
  ELSE List(listconcat(list[2], v[2]))

Add(l, r) == IF l[1] = "str" /\ r[1] = "str" THEN Str(l[2] \o r[2])
             ELSE SIMPLE_BINARY(l, r, l[2] + r[2])

\* The binary opcodes that only look at their two operands.
Binary(op, l, r) ==
  CASE op = "EQ"    -> Bool(equality(r, l))
    [] op = "NE"    -> Bool(~ equality(r, l))
    [] op \in {"LT", "LE", "GT", "GE"} -> Compare(op, l, r)
    [] op = "IN"    -> In(l, r)
    [] op = "ADD"   -> Add(l, r)
    [] op = "MINUS" -> SIMPLE_BINARY(l, r, l[2] - r[2])
    [] op = "MULT"  -> SIMPLE_BINARY(l, r, l[2] * r[2])
    [] op = "DIV"   -> DIVISION_OP(l, r, FALSE)
    [] op = "MOD"   -> DIVISION_OP(l, r, TRUE)
    [] op = "EXP"   -> do_power(l, r)
=============================================================================
