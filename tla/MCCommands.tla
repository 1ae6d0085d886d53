----------------------------- MODULE MCCommands -----------------------------
(* A room #0 with a player #1 and a thing #2, in two arrangements.         *)
EXTENDS Commands

MCNothing == -1
foo == <<"f", "o">>
MCWords == {<<"f">>, <<"f", "o", "o">>}

any == [dobj |-> "any", prep |-> <<"any">>, iobj |-> "any"]
put(prep) == [dobj |-> "any", prep |-> prep, iobj |-> "this"]
MCNewVerbs == {[names |-> <<"f", "*", "o">>, x |-> TRUE, args |-> any],
               [names |-> <<"b", " ", "f", "o", "*">>, x |-> FALSE, args |-> put(<<"in", " ", "front", " ", "of", "/", "x">>)]}

MCPreps == <<<<"with">>, <<"in", " ", "front", " ", "of">>, <<"in", "/", "inside">>>>

verb(id, names, x, args, code) == [id |-> id, names |-> names, x |-> x, args |-> Specs(args), code |-> code]
str(s) == <<"str", s>>
At(a, b, c) == [o \in 0 .. 2 |-> CASE o = 0 -> a [] o = 1 -> b [] o = 2 -> c]
MCDatabases ==
  {[parent |-> At(-1, 0, d[1]), location |-> At(-1, 0, d[2]),
    name |-> At(<<"h", "a", "l", "l">>, <<"b", "o", "b">>, <<"b", "a", "g">>),
    aliases |-> At(<<"list", <<>>>>, <<"int", 0>>, <<"list", <<<<"list", <<str(<<"b", "o">>)>>>>, str(<<"b">>)>>>>),
    verbdefs |-> At(<<verb(1, <<"f", "*", "o">>, TRUE, any, 0), verb(2, <<"huh">>, TRUE, any, -2)>>, <<>>,
                    <<verb(3, foo, d[3], put(<<"in", " ", "front", " ", "of">>), -3)>>), made |-> 3] :
     d \in {<<1, 1, TRUE>>, <<0, 0, FALSE>>}}

written(style, words) == [words |-> words, style |-> style]
MCCommands ==
  {written("plain", <<foo>>), written("escaped", <<foo, <<"b">>>>),
   written("plain", <<foo, <<"b", "o">>, <<"in">>, <<"front">>, <<"of">>, <<"b">>>>),
   written("quoted", <<foo, <<"me">>, <<"in">>, <<"#", "2">>>>), written("quoted", <<<<"x">>, <<"here">>>>),
   written("escaped", <<<<"say">>, <<"b", "a">>>>),
   written("plain", <<<<".program">>, <<"b", ":", "f">>>>),
   written("escaped", <<<<".program">>, <<"me", ":", "f">>>>)}
=============================================================================
