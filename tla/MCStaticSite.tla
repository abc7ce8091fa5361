------------------------------ MODULE MCStaticSite ------------------------------
(* Small trees for StaticSite. *)
EXTENDS StaticSite

File(name, node) == [name |-> name, dir |-> FALSE, to |-> node]
Dir(name, node) == [name |-> name, dir |-> TRUE, to |-> node]
Dots(node, parent) == {Dir(<<".">>, node), Dir(<<".", ".">>, parent)}

\* A file with a known suffix, a link to a directory, and a directory whose
\* name has a suffix, with an empty file and one deeper in.
MCSite ==
    [top |-> Dots("top", "up") \cup
             {File(<<"a", ".", "c">>, "page"), File(<<"l">>, "link"),
              Dir(<<"b", ".", "c">>, "sub")},
     sub |-> Dots("sub", "top") \cup
             {File(<<"e">>, "empty"), File(<<"p">>, "image"), Dir(<<"q">>, "deep")},
     deep |-> Dots("deep", "sub") \cup {File(<<"n", "n">>, "note")},
     up |-> {}]

\* A directory and two files that are too deep for the path buffer: the paths
\* of the files fill it, one is clipped to that of the other.
MCDeep ==
    [top |-> Dots("top", "up") \cup
             {File(<<"p">>, "image"), Dir(<<"b", "b", "b", "b">>, "sub")},
     sub |-> Dots("sub", "top") \cup
             {File(<<"r", "r", "r", "r">>, "long"),
              File(<<"r", "r", "r", "r", "s">>, "longer"), Dir(<<"q", "q">>, "deep")},
     deep |-> Dots("deep", "sub") \cup {File(<<"n">>, "note")},
     up |-> {}]

\* Files whose sizes are no int: 2 is left of one, -4 of the other.
MCLarge ==
    [top |-> Dots("top", "up") \cup
             {File(<<"p">>, "image"), File(<<"h">>, "huge"), File(<<"w">>, "wide")},
     up |-> {}]

MCTrees == {MCSite, MCDeep, MCLarge}
MCSizeOf == [page |-> 2, link |-> -1, empty |-> 0, image |-> 3, note |-> 1,
             long |-> 1, longer |-> 2, huge |-> 66, wide |-> 60]
MCBaseDir == <<"d">>
MCSuffixes == {<<".", "c">>}

\* The trees have no hard links.
ASSUME MCTreesAssumption == OneNameEach
===============================================================================
