-------------------------------- MODULE Words --------------------------------
(***************************************************************************)
(* Lines cut into words, and the prepositions: parse_cmd.c and the first   *)
(* part of db_verbs.c.  A text is a sequence of letters, " ", "quote" and  *)
(* "backslash", and a word that means something to the server is one       *)
(* letter: "in", "me", "here", ".program".                                 *)
(***************************************************************************)
EXTENDS Integers, SequencesExt

CONSTANT prep_list   \* texts: phrases with "/" between them

PREP_NONE == -1
PREP_ANY == -2
NOT_A_PREP == -3     \* what match_prep_spec() refuses

least(S) == IF S = {} THEN 0 ELSE CHOOSE i \in S : \A j \in S : i <= j

TakeLetter(s, c) ==
  IF s.esc THEN [s EXCEPT !.word = Append(@, c), !.esc = FALSE]
  ELSE IF c = " " /\ ~ s.in_quotes
       THEN IF s.inside THEN [s EXCEPT !.words = Append(@, s.word), !.word = <<>>, !.inside = FALSE] ELSE s
  ELSE LET t == [s EXCEPT !.inside = TRUE]
       IN IF c = "quote" THEN [t EXCEPT !.in_quotes = ~ @]
          ELSE IF c = "backslash" THEN [t EXCEPT !.esc = TRUE]
          ELSE [t EXCEPT !.word = Append(@, c)]
parse_into_words(text) ==
  LET s == FoldLeft(TakeLetter, [words |-> <<>>, word |-> <<>>, inside |-> FALSE,
                                 in_quotes |-> FALSE, esc |-> FALSE], text)
  IN IF s.inside THEN Append(s.words, s.word) ELSE s.words

build_string(argv, from, to) ==
  LET s[i \in from - 1 .. to] ==
        IF i < from THEN <<>> ELSE IF i = from THEN argv[i] ELSE s[i - 1] \o <<" ">> \o argv[i]
  IN IF to < from THEN <<>> ELSE s[to]

\* The phrases, each the nth of a preposition, as words.
prep_table ==
  LET slashes(p) == SetToSortSeq({0, Len(p) + 1} \cup {i \in DOMAIN p : p[i] = "/"}, <)
      phrases(j, at) == {[prep |-> j, nth |-> k,
                          words |-> parse_into_words(SubSeq(prep_list[j], at[k] + 1, at[k + 1] - 1))] :
                           k \in 1 .. Len(at) - 1}
  IN UNION {phrases(j, slashes(prep_list[j])) : j \in DOMAIN prep_list}

\* The first place where some preposition is, the first one that is there, and
\* the first of its phrases.  An exact match is all of the words.
db_find_prep(argv, exact) ==
  LET is(i, phrase) == /\ i + Len(phrase) - 1 <= Len(argv) /\ SubSeq(argv, i, i + Len(phrase) - 1) = phrase
                       /\ exact => i = 1 /\ Len(phrase) = Len(argv)
      there == {p \in [at : DOMAIN argv, phrase : prep_table] : is(p.at, p.phrase.words)}
      key(p) == <<p.at, p.phrase.prep, p.phrase.nth>>
      before(a, b) == \E n \in 1 .. 3 : a[n] < b[n] /\ \A m \in 1 .. n - 1 : a[m] = b[m]
      first == CHOOSE p \in there : \A q \in there : ~ before(key(q), key(p))
  IN IF there = {} THEN [prep |-> PREP_NONE, first |-> Len(argv) + 1, last |-> Len(argv) + 1]
     ELSE [prep |-> first.phrase.prep, first |-> first.at, last |-> first.at + Len(first.phrase.words) - 1]

\* All that precedes a slash.  (Numbers are left out.)
db_match_prep(text) ==
  LET slash == least({i \in DOMAIN text : text[i] = "/"})
      s == IF slash = 0 THEN text ELSE SubSeq(text, 1, slash - 1)
  IN db_find_prep(parse_into_words(s), TRUE).prep

match_prep_spec(text) ==
  IF text = <<"none">> THEN PREP_NONE
  ELSE IF text = <<"any">> THEN PREP_ANY
  ELSE LET prep == db_match_prep(text) IN IF prep = PREP_NONE THEN NOT_A_PREP ELSE prep
=============================================================================
