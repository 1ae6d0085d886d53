---------------------------- MODULE DatabaseFile ----------------------------
(***************************************************************************)
(* The database as a file: db_file.c and db_io.c.  A file is a sequence of *)
(* lines, each marked with what it is; how numbers are written is left     *)
(* out.  What is written at any moment and read again after the server has *)
(* gone must be the same database, with an empty verb cache.               *)
(*                                                                         *)
(* Numbers that were never used are written as those of recycled objects.  *)
(* The lists of children and contents and their validation are in          *)
(* ObjectTree, with the users; the other property values in Properties     *)
(* (here the value of `aliases' stands for them); the tasks in             *)
(* TaskScheduler and Execute.                                              *)
(***************************************************************************)
EXTENDS Verbs

CONSTANT Buffer   \* bytes that dbio_read_string() reads at a time
ASSUME BufferAssumption == Buffer \in Nat /\ Buffer > 1

num(n) == <<"num", n>>
text(s) == <<"text", s>>

\* As many letters as fit into the buffer, until there is the end of the line.
dbio_read_string(line) ==
  LET chars == Append(line[2], "newline")
      fgets(k) == SubSeq(chars, k, least({Len(chars), k + Buffer - 2}))
      from[k \in DOMAIN chars] ==
        IF Last(fgets(k)) = "newline" THEN Front(fgets(k)) ELSE fgets(k) \o from[k + Buffer - 1]
  IN from[1]

-----------------------------------------------------------------------------
(* Values: a type, and what belongs to it.                                 *)

RECURSIVE dbio_write_var(_), dbio_read_var(_, _)

dbio_write_var(v) ==
  <<<<"type", v[1]>>>> \o
    CASE v[1] \in {"clear", "none"} -> <<>>
      [] v[1] = "str" -> <<text(v[2])>>
      [] v[1] \in {"obj", "err", "int"} -> <<num(v[2])>>
      [] v[1] = "list" -> <<num(Len(v[2]))>> \o FlattenSeq([i \in DOMAIN v[2] |-> dbio_write_var(v[2][i])])

\* The value at line i of f, and the line after it.
dbio_read_var(f, i) ==
  LET l == f[i][2]
      elements[k \in Nat] ==
        IF k = 0 THEN [list |-> <<>>, next |-> i + 2]
        ELSE LET e == dbio_read_var(f, elements[k - 1].next)
             IN [list |-> Append(elements[k - 1].list, e.var), next |-> e.next]
  IN CASE l \in {"clear", "none"} -> [var |-> <<l>>, next |-> i + 1]
       [] l = "str" -> [var |-> <<l, dbio_read_string(f[i + 1])>>, next |-> i + 2]
       [] l \in {"obj", "err", "int"} -> [var |-> <<l, f[i + 1][2]>>, next |-> i + 2]
       [] l = "list" -> LET e == elements[f[i + 1][2]] IN [var |-> <<l, e.list>>, next |-> e.next]

-----------------------------------------------------------------------------
(* Objects and programs.                                                   *)

write_verbdef(v) == <<text(v.names), <<"perms", v.x, v.args>>>>
read_verbdef(f, i, id) ==
  [id |-> id, names |-> dbio_read_string(f[i]), x |-> f[i + 1][2], args |-> f[i + 1][3], code |-> 0]

write_object(o) ==
  IF ~ valid(o) THEN <<<<"recycled", o>>>>
  ELSE <<<<"object", o>>, text(name[o]), num(location[o]), num(parent[o]), num(Len(verbdefs[o]))>>
       \o FlattenSeq([i \in DOMAIN verbdefs[o] |-> write_verbdef(verbdefs[o][i])])
       \o dbio_write_var(aliases[o])

\* r: the file, the line and the object that come next, and what has been read.
read_object(r) ==
  LET o == r.oid
      line(k) == r.file[r.at + k]
      n == line(4)[2]
      vs == [k \in 1 .. n |-> read_verbdef(r.file, r.at + 3 + 2 * k, r.made + k)]
      val == dbio_read_var(r.file, r.at + 5 + 2 * n)
  IN IF ~ (r.at \in DOMAIN r.file /\ line(0)[1] \in {"recycled", "object"} /\ line(0)[2] = o)
     THEN [r EXCEPT !.ok = FALSE]
     ELSE IF line(0)[1] = "recycled" THEN [r EXCEPT !.at = @ + 1, !.oid = @ + 1]
     ELSE [r EXCEPT !.at = val.next, !.oid = @ + 1, !.made = @ + n,
                    !.name = @ @@ o :> dbio_read_string(line(1)), !.location = @ @@ o :> line(2)[2],
                    !.parent = @ @@ o :> line(3)[2], !.verbdefs = @ @@ o :> vs, !.aliases = @ @@ o :> val.var]

\* The verbs that have programs, with their places counted from 0.
write_programs(o) ==
  FlattenSeq([i \in DOMAIN verbdefs[o] |->
                IF verbdefs[o][i].code = 0 THEN <<>>
                ELSE <<<<"verb", o, i - 1>>, <<"program", verbdefs[o][i].code>>>>])
read_program(r) ==
  LET o == r.file[r.at][2]  i == r.file[r.at][3] + 1
      header == r.at \in DOMAIN r.file /\ r.file[r.at][1] = "verb"
  IN IF ~ (header /\ o \in DOMAIN r.verbdefs /\ i \in DOMAIN r.verbdefs[o])
     THEN [r EXCEPT !.ok = FALSE]
     ELSE [r EXCEPT !.verbdefs[o][i].code = r.file[r.at + 1][2], !.at = @ + 2]

\* How many; the mutant counts the verbs that have none as well.
nprogs_verbs == Cardinality(Places)
nprogs == Cardinality({<<o, i>> \in Places : verbdefs[o][i].code # 0})
write_db_file ==
  LET in_order == SetToSortSeq(Oids, <)
      programs(o) == IF valid(o) THEN write_programs(o) ELSE <<>>
  IN <<num(MaxObjects), num(nprogs)>> \o FlattenSeq([k \in DOMAIN in_order |-> write_object(in_order[k])])
       \o FlattenSeq([k \in DOMAIN in_order |-> programs(in_order[k])])

read_db_file(file) ==
  LET none == [o \in {} |-> 0]
      start == [file |-> file, at |-> 3, oid |-> 0, ok |-> TRUE, made |-> 0, parent |-> none,
                location |-> none, name |-> none, aliases |-> none, verbdefs |-> none]
      objects[n \in Nat] ==
        IF n = 0 THEN start ELSE IF ~ objects[n - 1].ok THEN objects[n - 1] ELSE read_object(objects[n - 1])
      programs[n \in Nat] ==
        IF n = 0 THEN objects[file[1][2]]
        ELSE IF ~ programs[n - 1].ok THEN programs[n - 1] ELSE read_program(programs[n - 1])
  IN programs[file[2][2]]

-----------------------------------------------------------------------------
\* All of the database but the addresses of verb definitions.
Contents ==
  [parent |-> parent, location |-> location, name |-> name, aliases |-> aliases,
   verbdefs |-> [o \in DOMAIN verbdefs |-> [i \in DOMAIN verbdefs[o] |-> [verbdefs[o][i] EXCEPT !.id = 0]]]]

\* The server writes the database, and a new one loads it, or cannot and exits.
restart ==
  LET r == read_db_file(write_db_file)
  IN /\ edits < MaxEdits /\ edits' = edits + 1
     /\ IF r.ok
        THEN /\ parent' = r.parent /\ location' = r.location /\ name' = r.name /\ aliases' = r.aliases
             /\ verbdefs' = r.verbdefs /\ made' = r.made
             /\ cache' = no_entries
             /\ found' = [how |-> "restart", written |-> Contents]
        ELSE found' = [how |-> "refused"] /\ UNCHANGED <<db, cache>>
     /\ UNCHANGED calls

refused == found.how = "refused"

\* A database that is written can be read, and what is read is what was written:
\* names of any length, values of any depth, every verb with its own program.
RestartKeeps == ~ refused /\ (found.how = "restart" => Contents = found.written)
=============================================================================
