------------------------------- MODULE Network -------------------------------
(***************************************************************************)
(* The network handles of net_multi.c: what is read from a client and cut  *)
(* into lines, and what is queued for it.  A character is one of           *)
(*   "a" any that is kept, "CR", "LF", "BS" a backspace, "ctl" any other,  *)
(* a line of output is its number among the lines the handle has taken and *)
(* the count of its bytes not yet written.  `seen' is what the client      *)
(* makes of what it gets: the lines that are whole or reported as lost.    *)
(***************************************************************************)
EXTENDS Integers, SequencesExt

CONSTANT MAX_QUEUED_OUTPUT

ASSUME OutputAssumption == MAX_QUEUED_OUTPUT \in Nat

new_nhandle ==
  [suspended |-> FALSE, binary |-> FALSE, input |-> <<>>, last_CR |-> FALSE,
   output |-> <<>>, length |-> 0, flushed |-> 0, sent |-> 0,
   seen |-> [lines |-> 0, inside |-> FALSE, ok |-> TRUE]]

-----------------------------------------------------------------------------
(* Output.                                                                 *)

\* The client gets the rest of a line, or some of it: lines come in order.
SeeLine(line, whole, s) ==
  [lines |-> IF whole THEN s.lines + 1 ELSE s.lines, inside |-> ~ whole,
   ok |-> s.ok /\ line = s.lines + 1]
SeeLost(n, s) == [s EXCEPT !.lines = @ + n, !.inside = FALSE]
\* He gets the first k blocks whole.
SeeLines(blocks, k, s) ==
  LET seen[i \in 0 .. k] == IF i = 0 THEN s ELSE SeeLine(blocks[i].line, TRUE, seen[i - 1])
  IN seen[k]

\* The bytes of the first k blocks.
Bytes(blocks, k) ==
  LET bytes[i \in 0 .. Len(blocks)] == IF i = 0 THEN 0 ELSE bytes[i - 1] + blocks[i].left
  IN bytes[k]

\* The first k blocks are written whole, and p bytes of the next one.
Written(n, k, p) ==
  LET rest == SubSeq(n.output, k + 1, Len(n.output))
      seen == SeeLines(n.output, k, n.seen)
  IN [n EXCEPT !.output = IF p = 0 THEN rest ELSE <<[rest[1] EXCEPT !.left = @ - p]>> \o Tail(rest),
               !.length = @ - p - Bytes(n.output, k),
               !.seen = IF p = 0 THEN seen ELSE SeeLine(rest[1].line, FALSE, seen)]

\* The ways write() may take the queued blocks: each in turn, until one is
\* taken in part or not at all, for the moment or because of an error.
WriteBlocks(n) ==
  LET some == {q \in (0 .. Len(n.output)) \X (0 .. Bytes(n.output, Len(n.output))) :
                 q[2] = 0 \/ (q[1] < Len(n.output) /\ q[2] < n.output[q[1] + 1].left)}
  IN {[n |-> Written(n, q[1], q[2]), ok |-> ok] : q \in some, ok \in BOOLEAN}
       \ {[n |-> Written(n, Len(n.output), 0), ok |-> FALSE]}

\* Before the next block comes the report of the lines that were lost; a
\* report that is not written whole is written again from its beginning.
push_output_silent(n) == WriteBlocks([n EXCEPT !.flushed = 0])
push_output(n) ==
  IF n.flushed = 0 THEN WriteBlocks(n)
  ELSE {[n |-> n, ok |-> ok] : ok \in BOOLEAN}
       \cup WriteBlocks([n EXCEPT !.flushed = 0, !.seen = SeeLost(n.flushed, @)])

Append1(len, n) ==
  [n EXCEPT !.output = Append(@, [line |-> n.sent + 1, left |-> len]),
            !.length = @ + len, !.sent = @ + 1]

\* The blocks dropped to make room for `need' bytes.
Flushed(need, n) ==
  LET enough == {k \in 0 .. Len(n.output) :
                   k = Len(n.output) \/ Bytes(n.output, k) >= need}
      k == CHOOSE k \in enough : \A j \in enough : k <= j
  IN [n EXCEPT !.output = SubSeq(@, k + 1, Len(@)), !.flushed = @ + k,
               !.length = @ - Bytes(n.output, k)]

\* The handle after a line of len bytes, which is taken unless there is no room
\* for it and it may not flush.
enqueue_output(len, flush_ok, n) ==
  IF n.length = 0 \/ n.length + len <= MAX_QUEUED_OUTPUT THEN {Append1(len, n)}
  ELSE LET need(m) == m.length + len - MAX_QUEUED_OUTPUT
       IN {IF need(r.n) <= 0 THEN Append1(len, r.n)
           ELSE IF flush_ok THEN Append1(len, Flushed(need(r.n), r.n)) ELSE r.n : r \in push_output(n)}

\* What the client makes of it, what was lost since the last report, and what
\* is queued are all the lines there were, each once and in order; the queue
\* is as long as it is said to be, and beyond the limit for one line only,
\* with which no other is queued but empty ones.
Accounted(n) ==
  /\ n.seen.ok
  /\ \A k \in DOMAIN n.output : n.output[k].line = n.seen.lines + n.flushed + k
  /\ n.sent = n.seen.lines + n.flushed + Len(n.output)
  /\ n.length = Bytes(n.output, Len(n.output))
  /\ n.length <= MAX_QUEUED_OUTPUT \/ \E k \in DOMAIN n.output : n.length = n.output[k].left

-----------------------------------------------------------------------------
(* Input.                                                                  *)

\* Mutant of TakeChar: the LF of a CR LF ends a line of its own.
TakeChar_forgetful(s, c) ==
  LET ends == c \in {"CR", "LF"}
  IN [input |-> IF c = "a" THEN Append(s.input, c) ELSE IF ends THEN <<>> ELSE s.input,
      lines |-> IF ends THEN Append(s.lines, s.input) ELSE s.lines,
      last_CR |-> FALSE]

\* One character of a text connection.  s: [input, last_CR, lines].
TakeChar(s, c) ==
  LET ends == c = "CR" \/ (c = "LF" /\ ~ s.last_CR)
  IN [input |-> CASE c = "a" -> Append(s.input, c)
                  [] c = "BS" -> IF s.input = <<>> THEN <<>> ELSE Front(s.input)
                  [] OTHER -> IF ends THEN <<>> ELSE s.input,
      lines |-> IF ends THEN Append(s.lines, s.input) ELSE s.lines,
      last_CR |-> c = "CR"]

\* The handle after a read() of chunk, and the lines it completes: on a binary
\* connection all there is, as one line.
pull_input(chunk, n) ==
  IF n.binary THEN [n |-> [n EXCEPT !.input = <<>>, !.last_CR = FALSE], lines |-> <<n.input \o chunk>>]
  ELSE LET s == FoldLeft(TakeChar, [input |-> n.input, last_CR |-> n.last_CR, lines |-> <<>>], chunk)
       IN [n |-> [n EXCEPT !.input = s.input, !.last_CR = s.last_CR], lines |-> s.lines]

\* The lines of a text, read as a whole: a line ends at a CR, or at an LF that
\* does not follow one, and a character is erased if more backspaces than
\* characters follow it up to some point of its line.
LinesOfText(text) ==
  LET count(c, i, j) == Len(SelectSeq(SubSeq(text, i, j), LAMBDA x : x = c))
      end(i) == text[i] = "CR" \/ (text[i] = "LF" /\ (i = 1 \/ text[i - 1] /= "CR"))
      ends == SelectSeq([i \in DOMAIN text |-> i], end)
      kept(i, last) == text[i] = "a"
                       /\ ~ \E j \in i + 1 .. last : count("BS", i + 1, j) > count("a", i + 1, j)
      line(k) == LET first == IF k = 1 THEN 1 ELSE ends[k - 1] + 1
                 IN [i \in 1 .. Cardinality({i \in first .. ends[k] : kept(i, ends[k])}) |-> "a"]
  IN [k \in DOMAIN ends |-> line(k)]
=============================================================================
