-------------------------------- MODULE MCFliki --------------------------------
EXTENDS FlikiProperties

Says(t, os, oe, ns, ne) ==
    [type |-> t, old_start |-> os, old_end |-> oe, new_start |-> ns, new_end |-> ne]

\* An append before the first line and one behind the second, deletions of one
\* line and of two, a change, and a header with too many numbers.
SomeHeaders ==
    [h \in {"0a1", "2a3", "1d0", "2,3d1", "2c2", "1a2,1"} |->
       CASE h = "0a1"   -> Says("append", 0, 0, 1, 1)
         [] h = "2a3"   -> Says("append", 2, 2, 3, 3)
         [] h = "1d0"   -> Says("delete", 1, 1, 0, 0)
         [] h = "2,3d1" -> Says("delete", 2, 3, 1, 1)
         [] h = "2c2"   -> Says("change", 2, 2, 2, 2)
         [] h = "1a2,1" -> Says("append", 1, 1, 2, 1)]

SomeLines ==
    {<<h, "\n">> : h \in DOMAIN SomeHeaders}
      \cup {<<s, " ", c, "\n">> : s \in {"<", ">"}, c \in {"x", "y"}}
      \cup {<<"-", "-", "-", "\n">>, <<"7", "\n">>, <<"x", "\n">>, <<">", "\n">>,
            <<">", " ", "hi", "\n">>}

SomeTexts == {<< >>, <<"x", "\n">>, <<"x", "\n", "y", "\n">>,
              <<"x", "\n", "y", "\n", "x", "\n">>, <<"x", "\n", "hi", "y">>}

=============================================================================
