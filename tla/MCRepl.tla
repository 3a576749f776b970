------------------------------- MODULE MCRepl -------------------------------
(* Lines for TLC.                                                           *)
EXTENDS Repl

Closed  == <<"'", "f", Blank, "(", "a", ")">>
Open    == <<"(", "b", Blank, "\"", "m", "\"">>
Inner   == <<"(", "c", Blank, "(", "d">>
Close   == <<"e", ")">>
Remark  == <<";", "g">>
Ahead   == <<"h", Blank, "(", "i", ")", "(", "j">>

Behind  == <<"k", ")", ";", "l">>
Again   == <<>>

Typical == {Closed, Open, Inner, Close, Remark, Ahead, Behind, Again}

Half  == <<"(", "n", ")", Blank, "(", "o">>
Given == {Missing, <<>>, Half}
=============================================================================
