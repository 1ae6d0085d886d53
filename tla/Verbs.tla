-------------------------------- MODULE Verbs --------------------------------
(***************************************************************************)
(* The verb definitions of db_verbs.c and the built-in functions of        *)
(* verbs.c that change them, with the cache of callable verbs and the      *)
(* operations of db_objects.c that must flush it.                          *)
(*                                                                         *)
(* A verb definition has an `id', which stands for its address.  A cache   *)
(* entry points at a definition: after a change that does not flush the    *)
(* cache it may point at the wrong one, or at one that has been freed.     *)
(* Names and words are sequences of letters, of one case.                  *)
(***************************************************************************)
EXTENDS Words

CONSTANTS MaxObjects, NOTHING,
          NewVerbs,   \* [names, x, args]; names of letters, "*" and " ", args [dobj, prep, iobj], prep a text
          Words,      \* what is looked up
          Databases,  \* what there may be at the start
          MaxEdits, MaxCalls

Oids == 0 .. MaxObjects - 1
ASSUME ObjectsAssumption == MaxObjects \in Nat /\ NOTHING = -1

VARIABLES
  parent, location,   \* of each valid object
  name, aliases,      \* its name, and the value of its property `aliases'
  verbdefs,           \* of each valid object, in order
  cache,              \* of <<object, word>>: what vc_table holds
  made,               \* verb definitions allocated so far
  edits, calls,       \* so far; a command is also a call
  found               \* the last lookup and its answer

db == <<parent, location, name, aliases, verbdefs, made>>

valid(o) == o \in DOMAIN parent
no_entries == [k \in {} |-> 0]
NoVerb == [definer |-> NOTHING, id |-> 0]
NoLookup == [how |-> "none"]

\* The object and its ancestors, from the nearest.
chain(o) ==
  LET up[n \in 0 .. MaxObjects] ==
        IF n = 0 THEN <<o>>
        ELSE IF parent[Last(up[n - 1])] = NOTHING THEN up[n - 1]
             ELSE Append(up[n - 1], parent[Last(up[n - 1])])
  IN IF valid(o) THEN up[MaxObjects] ELSE <<>>

-----------------------------------------------------------------------------
(* Names.                                                                  *)

\* The word against one name after the other; where a star has been passed the
\* rest of the name may be left out, and after a star at the end anything goes.
verbcasecmp(verb, word) ==
  LET ends(v) == v > Len(verb) \/ verb[v] = " "
      scan[v \in 1 .. Len(verb) + 1, w \in 1 .. Len(word) + 1, star \in {"none", "inner", "end"}] ==
        IF v <= Len(verb) /\ verb[v] = "*"
        THEN scan[v + 1, w, IF ends(v + 1) THEN "end" ELSE "inner"]
        ELSE IF ~ ends(v) /\ w <= Len(word) /\ verb[v] = word[w] THEN scan[v + 1, w + 1, star]
        ELSE IF w > Len(word) THEN star # "none" \/ ends(v) ELSE star = "end"
  IN \E v \in DOMAIN verb : verb[v] # " " /\ (v = 1 \/ verb[v - 1] = " ") /\ scan[v, 1, "none"]

find_verbdef_by_name(o, word, check_x_bit) ==
  least({i \in DOMAIN verbdefs[o] : verbcasecmp(verbdefs[o][i].names, word)
                                    /\ (check_x_bit => verbdefs[o][i].x)})
db_find_defined_verb(o, word) == find_verbdef_by_name(o, word, FALSE)
db_find_indexed_verb(o, index) == IF index \in DOMAIN verbdefs[o] THEN index ELSE 0

Handle(o, i) == IF i = 0 THEN NoVerb ELSE [definer |-> o, id |-> verbdefs[o][i].id]

-----------------------------------------------------------------------------
(* The verb cache.                                                         *)

db_priv_affected_callable_verb_lookup == cache' = no_entries

first_parent_with_verbs(o) ==
  LET with == SelectSeq(chain(o), LAMBDA p : verbdefs[p] # <<>>)
  IN IF with = <<>> THEN NOTHING ELSE with[1]

\* From the object up, the first definition that may be called.
uncached(o, word) ==
  LET up == chain(o)
      at == [i \in DOMAIN up |-> find_verbdef_by_name(up[i], word, TRUE)]
      k == least({i \in DOMAIN up : at[i] # 0})
  IN IF k = 0 THEN NoVerb ELSE Handle(up[k], at[k])

\* A verb that is not found is cached as well.
vc_key(o, word) == <<first_parent_with_verbs(o), word>>
db_find_callable_verb(o, word) ==
  IF vc_key(o, word) \in DOMAIN cache THEN cache[vc_key(o, word)]
  ELSE uncached(first_parent_with_verbs(o), word)
cached(o, word, verb) == vc_key(o, word) :> verb @@ cache

call(o, word) ==
  /\ calls < MaxCalls /\ calls' = calls + 1
  /\ LET verb == db_find_callable_verb(o, word)
     IN /\ cache' = cached(o, word, verb)
        /\ found' = [how |-> "call", this |-> o, word |-> word, verb |-> verb]
  /\ UNCHANGED <<db, edits>>

-----------------------------------------------------------------------------
(* Changes.                                                                *)

Edit == edits' = edits + 1 /\ found' = NoLookup /\ UNCHANGED calls

Specs(args) == [args EXCEPT !.prep = match_prep_spec(@)]
\* With what validate_verb_args() makes of the arguments.
ValidVerbs == {v \in {[v EXCEPT !.args = Specs(@)] : v \in NewVerbs} : v.args.prep # NOT_A_PREP}

add_verb(o, v) ==
  /\ Edit
  /\ made' = made + 1
  /\ verbdefs' = [verbdefs EXCEPT ![o] =
       Append(@, [id |-> made + 1, names |-> v.names, x |-> v.x, args |-> v.args, code |-> 0])]
  /\ db_priv_affected_callable_verb_lookup
  /\ UNCHANGED <<parent, location, name, aliases>>

\* find_described_verb(): by number or by name.
Described(o) == {db_find_indexed_verb(o, i) : i \in DOMAIN verbdefs[o]}
                \cup ({db_find_defined_verb(o, w) : w \in Words} \ {0})

delete_verb(o, i) ==
  /\ Edit
  /\ verbdefs' = [verbdefs EXCEPT ![o] = RemoveAt(@, i)]
  /\ db_priv_affected_callable_verb_lookup
  /\ UNCHANGED <<parent, location, name, aliases, made>>
set_verb_info(o, i, names, x) ==
  /\ Edit
  /\ verbdefs' = [verbdefs EXCEPT ![o][i].names = names, ![o][i].x = x]
  /\ db_priv_affected_callable_verb_lookup
  /\ UNCHANGED <<parent, location, name, aliases, made>>
set_verb_args(o, i, args) ==
  /\ Edit
  /\ verbdefs' = [verbdefs EXCEPT ![o][i].args = args]
  /\ db_priv_affected_callable_verb_lookup
  /\ UNCHANGED <<parent, location, name, aliases, made>>
\* The cache points at definitions, not at programs: it is not flushed.
set_verb_code(o, i) ==
  /\ Edit
  /\ verbdefs' = [verbdefs EXCEPT ![o][i].code = edits + 1]
  /\ UNCHANGED <<parent, location, name, aliases, made, cache>>

\* An object with neither children nor verbs plays no part in any lookup.
keeps_cache_childless(o) == verbdefs[o] = <<>>   \* mutant of keeps_cache
keeps_cache(o) == verbdefs[o] = <<>> /\ \A p \in DOMAIN parent : parent[p] # o
change_parent(o, p) ==
  /\ Edit
  /\ p = NOTHING \/ ~ Contains(chain(p), o)
  /\ parent' = [parent EXCEPT ![o] = p]
  /\ IF keeps_cache(o) THEN cache' = cache ELSE db_priv_affected_callable_verb_lookup
  /\ UNCHANGED <<location, name, aliases, verbdefs, made>>

\* It has the aliases of its parent.  What else happens to values when a parent
\* changes is in Properties; here they stay.
create(o, p) ==
  /\ Edit
  /\ ~ valid(o)
  /\ parent' = o :> p @@ parent /\ location' = o :> NOTHING @@ location
  /\ verbdefs' = o :> <<>> @@ verbdefs /\ name' = o :> <<>> @@ name
  /\ aliases' = o :> (IF p = NOTHING THEN <<"none">> ELSE aliases[p]) @@ aliases
  /\ UNCHANGED <<cache, made>>

\* Its children go to its parent, its contents nowhere.
recycle(o) ==
  /\ Edit
  /\ parent' = [p \in DOMAIN parent \ {o} |-> IF parent[p] = o THEN parent[o] ELSE parent[p]]
  /\ location' = [p \in DOMAIN parent \ {o} |-> IF location[p] = o THEN NOTHING ELSE location[p]]
  /\ verbdefs' = Restrict(verbdefs, DOMAIN parent \ {o})
  /\ name' = Restrict(name, DOMAIN parent \ {o})
  /\ aliases' = Restrict(aliases, DOMAIN parent \ {o})
  /\ db_priv_affected_callable_verb_lookup
  /\ UNCHANGED made

renumber(old, new) ==
  LET to(p) == IF p = old THEN new ELSE p
      from(p) == IF p = new THEN old ELSE p
      renamed == {to(p) : p \in DOMAIN parent}
  IN /\ Edit
     /\ new < old /\ ~ valid(new) /\ \A p \in 0 .. new - 1 : valid(p)
     /\ parent' = [p \in renamed |-> to(parent[from(p)])]
     /\ location' = [p \in renamed |-> to(location[from(p)])]
     /\ verbdefs' = [p \in renamed |-> verbdefs[from(p)]]
     /\ name' = [p \in renamed |-> name[from(p)]]
     /\ aliases' = [p \in renamed |-> aliases[from(p)]]
     /\ db_priv_affected_callable_verb_lookup
     /\ UNCHANGED made

-----------------------------------------------------------------------------
VerbsInit ==
  /\ \E d \in Databases : parent = d.parent /\ location = d.location
                       /\ name = d.name /\ aliases = d.aliases
                       /\ verbdefs = d.verbdefs /\ made = d.made
  /\ cache = no_entries /\ edits = 0 /\ calls = 0 /\ found = NoLookup

EditDatabase ==
  /\ edits < MaxEdits
  /\ \/ \E o \in DOMAIN parent, v \in ValidVerbs : add_verb(o, v)
     \/ \E o \in DOMAIN parent : \E i \in Described(o) :
          \/ delete_verb(o, i) \/ set_verb_code(o, i)
          \/ \E v \in ValidVerbs : set_verb_info(o, i, v.names, v.x) \/ set_verb_args(o, i, v.args)
     \/ \E o \in DOMAIN parent, p \in DOMAIN parent \cup {NOTHING} : change_parent(o, p)
     \/ \E o \in Oids, p \in DOMAIN parent \cup {NOTHING} : create(o, p)
     \/ \E o \in DOMAIN parent : recycle(o) \/ \E new \in Oids : renumber(o, new)

-----------------------------------------------------------------------------
(* What a lookup should find, in the database as it stands.                *)

\* The names of a verb, and what they mean: the letters, or as many of them as
\* reach a star, or more than all of them if the last one is a star.
NamesOf(verb) ==
  LET begins == {i \in DOMAIN verb : verb[i] # " " /\ (i = 1 \/ verb[i - 1] = " ")}
      ends(i) == {j \in i .. Len(verb) : j = Len(verb) \/ verb[j + 1] = " "}
  IN {SubSeq(verb, i, least(ends(i))) : i \in begins}
Letters(n) == SelectSeq(n, LAMBDA c : c # "*")
MatchesName(n, word) ==
  \/ word = Letters(n)
  \/ IsPrefix(word, Letters(n))
     /\ \E k \in DOMAIN n : n[k] = "*" /\ Len(Letters(SubSeq(n, 1, k))) <= Len(word)
  \/ Last(n) = "*" /\ IsPrefix(Letters(n), word)
Matches(v, word) == \E n \in NamesOf(v.names) : MatchesName(n, word)

Ancestors(o) == {chain(o)[i] : i \in DOMAIN chain(o)}
\* The verb is the first of its kind on its object, and the nearest.  Good is
\* the set of all pairs of an object and the place of a definition on it.
IsNearest(verb, o, good) ==
  IF verb = NoVerb THEN ~ \E g \in good : g[1] \in Ancestors(o)
  ELSE \E g \in good :
         /\ g[1] = verb.definer /\ verbdefs[g[1]][g[2]].id = verb.id /\ g[1] \in Ancestors(o)
         /\ \A f \in good : f[1] \in Ancestors(o) => f[1] \in Ancestors(g[1]) /\ (f[1] = g[1] => g[2] <= f[2])
Places == UNION {{o} \X (DOMAIN verbdefs[o]) : o \in DOMAIN verbdefs}

MeansCall(o, word, verb) ==
  IsNearest(verb, o, {g \in Places : verbdefs[g[1]][g[2]].x /\ Matches(verbdefs[g[1]][g[2]], word)})
=============================================================================
