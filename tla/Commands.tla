------------------------------ MODULE Commands ------------------------------
(***************************************************************************)
(* What a player types: parse_cmd.c cuts it into words and looks for a     *)
(* preposition, match.c finds the objects that are meant, and tasks.c the  *)
(* verb, between calls of verbs of the database which may change all of    *)
(* it.                                                                     *)
(***************************************************************************)
EXTENDS DatabaseFile

CONSTANTS Player,
          Commands   \* what is typed: [words, style], the words and how they are written

AMBIGUOUS == -2
FAILED_MATCH == -3

VARIABLES
  pc,        \* the parsed command, and how far it has come
  typed,     \* the words of it
  program    \* the verb that the player is programming

vars == <<db, cache, edits, calls, found, pc, typed, program>>

NoCommand == [at |-> "none"]
NoProgram == [object |-> NOTHING, verb |-> <<>>]

-----------------------------------------------------------------------------
(* Objects that are named.                                                 *)

\* What is not a list of aliases, or not a string in it, is passed over.
names_of(o) ==
  {name[o]} \cup IF aliases[o][1] # "list" THEN {}
                 ELSE {v[2] : v \in {v \in ToSet(aliases[o][2]) : v[1] = "str"}}
\* Among the things the player has and those around: one that is called so, or
\* else one whose name begins so.
match_contents(word) ==
  LET near == {o \in DOMAIN location : location[o] # NOTHING /\ location[o] \in {Player, location[Player]}}
      exact == {o \in near : word \in names_of(o)}
      partial == {o \in near : \E n \in names_of(o) : n # word /\ IsPrefix(word, n)}
      one(S) == CHOOSE o \in S : TRUE
  IN IF Cardinality(exact) > 1 THEN AMBIGUOUS
     ELSE IF exact # {} THEN one(exact)
     ELSE IF Cardinality(partial) > 1 THEN AMBIGUOUS
     ELSE IF partial # {} THEN one(partial) ELSE FAILED_MATCH

digit == "0" :> 0 @@ "1" :> 1 @@ "2" :> 2
match_object(word) ==
  IF word = <<>> THEN NOTHING
  ELSE IF word[1] = "#"
       THEN IF Len(word) = 2 /\ word[2] \in DOMAIN digit /\ valid(digit[word[2]])
            THEN digit[word[2]] ELSE FAILED_MATCH
  ELSE IF ~ valid(Player) THEN FAILED_MATCH
  ELSE IF word = <<"me">> THEN Player
  ELSE IF word = <<"here">> THEN location[Player]
  ELSE match_contents(word)

\* A quote, as the first thing in a line, stands for a verb.
special(line) == IF line[1] = "quote" THEN <<"say", " ">> \o Tail(line) ELSE line
parse_command(line) ==
  LET argv == parse_into_words(special(line))
      args == Tail(argv)
      p == db_find_prep(args, FALSE)
  IN [at |-> "prompt", verb |-> argv[1], args |-> args, prep |-> p.prep,
      dobj |-> match_object(build_string(args, 1, p.first - 1)),
      iobj |-> IF p.prep = PREP_NONE THEN NOTHING
               ELSE match_object(build_string(args, p.last + 1, Len(args))),
      location |-> NOTHING]

\* The ways to type words, each of which means the same.
quoted(word) == <<"quote">> \o word \o <<"quote">>
escaped(word) == FlattenSeq([i \in DOMAIN word |-> <<"backslash", word[i]>>])
Written(word, style) ==
  CASE style = "plain" -> word [] style = "quoted" -> quoted(word) [] style = "escaped" -> escaped(word)
Text(words, style) ==
  LET first == IF words[1] = <<"say">> THEN <<"quote">> ELSE words[1]
  IN first \o FlattenSeq([i \in 1 .. Len(words) - 1 |-> <<" ">> \o Written(words[i + 1], style)])

-----------------------------------------------------------------------------
(* do_command_task().                                                      *)

type(words, style) ==
  /\ pc = NoCommand /\ program = NoProgram
  /\ calls < MaxCalls /\ calls' = calls + 1
  /\ typed' = words
  /\ pc' = parse_command(Text(words, style))
  /\ found' = NoLookup
  /\ UNCHANGED <<db, cache, edits, program>>

\* find_verb_for_programming(): the word is "object:verb".
colon(ref) == least({i \in DOMAIN ref : ref[i] = ":"})
program_object(ref) == match_object(SubSeq(ref, 1, colon(ref) - 1))
program_verb(ref) == SubSeq(ref, colon(ref) + 1, Len(ref))
may_program(args) ==
  /\ Len(args) = 1 /\ colon(args[1]) \notin {0, Len(args[1])}
  /\ valid(program_object(args[1]))
  /\ db_find_defined_verb(program_object(args[1]), program_verb(args[1])) # 0

\* After the call of do_prompt: an intrinsic command, or the player's location
\* is taken and do_command called.
prompted ==
  /\ pc.at = "prompt"
  /\ IF pc.verb = <<".program">>
     THEN /\ pc' = NoCommand /\ typed' = <<>>
          /\ program' = IF may_program(pc.args)
                        THEN [object |-> program_object(pc.args[1]), verb |-> program_verb(pc.args[1])]
                        ELSE NoProgram
     ELSE /\ pc' = [pc EXCEPT !.at = "do_command",
                              !.location = IF valid(Player) THEN location[Player] ELSE NOTHING]
          /\ UNCHANGED <<program, typed>>
  /\ UNCHANGED <<db, cache, edits, calls, found>>

end_programming ==
  /\ program # NoProgram /\ pc = NoCommand
  /\ program' = NoProgram
  /\ LET o == program.object
         i == IF valid(o) THEN db_find_defined_verb(o, program.verb) ELSE 0
     IN /\ found' = [how |-> "program", this |-> o, word |-> program.verb, verb |-> Handle(o, i)]
        /\ verbdefs' = IF i = 0 THEN verbdefs ELSE [verbdefs EXCEPT ![o][i].code = -1]
  /\ UNCHANGED <<parent, location, name, aliases, made, cache, edits, calls, pc, typed>>

spec(o, self) == IF o = self THEN "this" ELSE IF o = NOTHING THEN "none" ELSE "any"
Fits(args, dobj, prep, iobj) ==
  args.dobj \in {"any", dobj} /\ args.prep \in {PREP_ANY, prep} /\ args.iobj \in {"any", iobj}

db_find_command_verb(o, word, dobj, prep, iobj) ==
  LET up == chain(o)
      at == [k \in DOMAIN up |-> least({i \in DOMAIN verbdefs[up[k]] :
                                         /\ verbcasecmp(verbdefs[up[k]][i].names, word)
                                         /\ Fits(verbdefs[up[k]][i].args, dobj, prep, iobj)})]
      k == least({k \in DOMAIN up : at[k] # 0})
  IN IF k = 0 THEN NoVerb ELSE Handle(up[k], at[k])

find_verb_on(o) ==
  IF ~ valid(o) THEN NoVerb
  ELSE db_find_command_verb(o, pc.verb, spec(pc.dobj, o), pc.prep, spec(pc.iobj, o))

\* The player, the location, the direct and the indirect object in this order,
\* and if none of them has the verb, the location's verb `huh'.
places_tried == <<Player, pc.location, pc.dobj, pc.iobj>>
huh == <<"huh">>
do_command ==
  LET with == SelectSeq(places_tried, LAMBDA o : find_verb_on(o) # NoVerb)
      lookup(o, verb) == [how |-> "command", this |-> o, word |-> pc.verb, verb |-> verb, pc |-> pc]
  IN /\ pc.at = "do_command"
     /\ pc' = NoCommand /\ typed' = <<>>
     /\ IF with # <<>> THEN found' = lookup(with[1], find_verb_on(with[1])) /\ cache' = cache
        ELSE IF valid(pc.location)
        THEN LET verb == db_find_callable_verb(pc.location, huh)
             IN found' = lookup(pc.location, verb) /\ cache' = cached(pc.location, huh, verb)
        ELSE found' = lookup(NOTHING, NoVerb) /\ cache' = cache
     /\ UNCHANGED <<db, edits, calls, program>>

-----------------------------------------------------------------------------
Init == VerbsInit /\ pc = NoCommand /\ typed = <<>> /\ program = NoProgram

\* A server that could not read its database is gone.
Next ==
  /\ ~ refused
  /\ \/ \E c \in Commands : type(c.words, c.style)
     \/ prompted \/ do_command \/ end_programming
     \/ restart /\ pc = NoCommand /\ program' = NoProgram /\ UNCHANGED <<pc, typed>>
     \/ (EditDatabase \/ \E o \in Oids, w \in Words : call(o, w)) /\ UNCHANGED <<pc, typed, program>>

Spec == Init /\ [][Next]_vars

-----------------------------------------------------------------------------
\* What a command means: of the verbs that fit what was typed, on the objects
\* in their order, the nearest; or else `huh'.
FitsCommand(g, o, c) ==
  LET v == verbdefs[g[1]][g[2]]
  IN Matches(v, c.verb) /\ Fits(v.args, spec(c.dobj, o), c.prep, spec(c.iobj, o))
Means(o, c, verb) == valid(o) /\ IsNearest(verb, o, {g \in Places : FitsCommand(g, o, c)})
Has(o, c) == valid(o) /\ ~ Means(o, c, NoVerb)
MeansCommand(c, o, verb) ==
  LET tried == <<Player, c.location, c.dobj, c.iobj>>
  IN \/ \E k \in DOMAIN tried :
          tried[k] = o /\ Has(o, c) /\ Means(o, c, verb) /\ \A j \in 1 .. k - 1 : ~ Has(tried[j], c)
     \/ /\ \A k \in DOMAIN tried : ~ Has(tried[k], c)
        /\ IF valid(c.location) THEN o = c.location /\ MeansCall(o, huh, verb) ELSE verb = NoVerb

MeansProgram(o, word, verb) ==
  LET good == {g \in Places : g[1] = o /\ Matches(verbdefs[o][g[2]], word)}
  IN IF good = {} THEN verb = NoVerb
     ELSE \E g \in good : verb = Handle(o, g[2]) /\ \A f \in good : g[2] <= f[2]

\* Every lookup of a verb finds what the database, as it stands at that moment,
\* means by it, whatever has been looked up and cached, added, deleted, renamed,
\* moved in the hierarchy or destroyed before (db_verbs.c:356, db_objects.c:419);
\* and a command is the words that were typed, however they were typed.
FoundIsMeant ==
  /\ found.how = "call" => MeansCall(found.this, found.word, found.verb)
  /\ found.how = "command" => MeansCommand(found.pc, found.this, found.verb)
  /\ found.how = "program" => MeansProgram(found.this, found.word, found.verb)
  /\ pc # NoCommand => <<pc.verb>> \o pc.args = typed
=============================================================================
