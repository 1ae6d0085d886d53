----------------------------- MODULE InputLanes -----------------------------
(***************************************************************************)
(* What one task queue promises about the lines typed at a connection, with *)
(* no pointers: pending lines form one sequence, and a line is taken from   *)
(* it either as the first one or as the first one of its lane (out-of-band  *)
(* or in-band).  A line forced to the front goes first.                     *)
(***************************************************************************)
EXTENDS Naturals, Sequences, SequencesExt

CONSTANTS Lines,       \* identities of lines
          MaxLines     \* bound: pending lines

Kinds == {"INBAND", "OOB", "QUOTED", "BINARY"}
Hows == {"DQ_FIRST", "DQ_OOB", "DQ_INBAND"}
NoLine == [line |-> "none", as |-> "none", stripped |-> FALSE]

VARIABLES lines,        \* pending: records [id, kind], first to be run first
          disable_oob,  \* option disable-oob of the connection
          taken         \* what the last dequeue delivered

IsOob(l) == l.kind = "OOB"

\* How a line is handed over.  Out-of-band and quoted lines lose their
\* special meaning under disable-oob; otherwise a quoted line is stripped of
\* its quoting prefix.
Delivered(l) ==
  [line |-> l.id,
   as |-> CASE l.kind = "OOB" -> IF disable_oob THEN "INBAND" ELSE "OOB"
            [] l.kind = "QUOTED" -> "INBAND"
            [] OTHER -> l.kind,
   stripped |-> l.kind = "QUOTED" /\ ~disable_oob]

\* The line at position i is the one `how' asks for.
Eligible(i, how) ==
  IF disable_oob
  THEN how # "DQ_OOB" /\ i = 1
  ELSE CASE how = "DQ_FIRST" -> i = 1
         [] how = "DQ_OOB" -> IsOob(lines[i])
                              /\ \A j \in 1 .. i - 1 : ~IsOob(lines[j])
         [] how = "DQ_INBAND" -> ~IsOob(lines[i])
                                 /\ \A j \in 1 .. i - 1 : IsOob(lines[j])

\* A connection starts with the empty line that runs the login command.
Init ==
  /\ \E id \in Lines : lines = <<[id |-> id, kind |-> "INBAND"]>>
  /\ disable_oob = FALSE /\ taken = NoLine

\* A line arrives behind the others, or is forced in front of them.
Arrive(id, kind, at_front) ==
  /\ Len(lines) < MaxLines
  /\ \A i \in 1 .. Len(lines) : lines[i].id # id
  /\ lines' = IF at_front THEN <<[id |-> id, kind |-> kind]>> \o lines
              ELSE Append(lines, [id |-> id, kind |-> kind])
  /\ UNCHANGED <<disable_oob, taken>>

\* The line asked for is taken out and delivered.
Take(how) ==
  \E i \in 1 .. Len(lines) :
    /\ Eligible(i, how)
    /\ taken' = Delivered(lines[i])
    /\ lines' = RemoveAt(lines, i)
    /\ UNCHANGED disable_oob

SetDisableOob(b) ==
  /\ disable_oob' = b
  /\ UNCHANGED <<lines, taken>>

Next ==
  \/ \E id \in Lines, k \in Kinds, f \in BOOLEAN : Arrive(id, k, f)
  \/ \E how \in Hows : Take(how)
  \/ \E b \in BOOLEAN : SetDisableOob(b)

Spec == Init /\ [][Next]_<<lines, disable_oob, taken>>
=============================================================================
