------------------------------- MODULE MCIntake -------------------------------
(* An album of two and a single medium, two link submissions; the outside  *)
(* events that can get in each other's way meet in one of the scenarios.   *)
(* The albums of the scenario of names hold names that are equal, that     *)
(* differ in case, that carry a number already, that are too long.         *)
EXTENDS Intake

CONSTANTS album, single
Dot == <<".", "x">>
Medium(stem, ext, text) == [stem |-> stem, ext |-> ext, text |-> text, size |-> 4]
Small == [Medium(<<"a">>, Dot, <<>>) EXCEPT !.size = 1]
TheMedia == album :> <<Medium(<<"a">>, Dot, <<>>), Medium(<<"b">>, Dot, <<>>)>> @@ single :> <<Medium(<<"a">>, Dot, <<>>), Small>>
Names == {Medium(<<"a">>, Dot, <<>>), Medium(<<"A">>, Dot, <<"w", "w", "w", "w", "w", "w">>),
          Medium(<<"a", " ", "(", "2", ")">>, Dot, <<>>),
          Medium(<<"w", "w", "w">>, Dot, <<"-", "t", "t", "t", "t", "t", "t">>),
          Medium(<<"b", "b", "b", "b", "b", "b", "b">>, <<".", "l", "o", "n", "g", "e", "r">>, <<>>), Small}
Plain == Medium(<<"a">>, Dot, <<>>)
Taken == Medium(<<"a", " ", "(", "2", ")">>, Dot, <<>>)
Tight == Medium(<<"a", "a", " ", "(", "2", ")">>, Dot, <<>>)
NameAlbums == [1..2 -> Names] \cup {<<Tight, Tight>>, <<Plain, Taken, Plain>>, <<Taken, Plain, Plain>>, <<Plain, Plain, Plain>>}
Rules == [include |-> {}, exclude |-> {<<".", "t">>}, min |-> 2, max |-> 0]
NameTemplate == <<<<"I">>, <<"I", "F">>>>
DirTemplate == <<<<".", ".">>, <<"d">>>>
SomeRunes == {"a", "A", "b", "d", "e", "F", "g", "I", "l", "n", "o", "r", "t", "u", "w", "x", "-", ".", " ", "(", ")", "1", "2", "3", "4"}
Numerals == <<<<"1">>, <<"2">>, <<"3">>, <<"4">>>>
UpperCase == "A" :> "a"
SomeRoutes == {<<"local", "http">>, <<"aria2", "http">>}
Meetings == {{"link", "doubt", "fault"}, {"react", "again", "partial"}, {"react", "drop"},
             {"link", "leave", "drop"}, {"link", "stop", "start"}, {"link", "control", "route"},
             {"react", "quit", "stop", "message"}, {"link", "names"}}
=============================================================================
