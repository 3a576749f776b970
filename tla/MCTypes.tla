------------------------------ MODULE MCTypes ------------------------------
(* Definitions for TLC: functions of one or two parameters on numbers and   *)
(* strings, whose types are told by their own body or by what they call.    *)
EXTENDS Types

X == Var("x")
Y == Var("y")

Function(params, body) == [params |-> params, body |-> body]

Says     == Function(<<"x">>,
              Form("if", <<Form("<", <<Form("+", <<X, Number>>), Number>>), Text, Text>>))
Smaller  == Function(<<"x", "y">>, Form("if", <<Form("<", <<Y, X>>), X, Y>>))
Twice    == Function(<<"x">>, Form("concat", <<X, X>>))
Or       == Function(<<"x">>, Form("if", <<X, Form("+", <<X, Number>>), Number>>))
Maybe    == Function(<<"y">>, Form("when", <<Form("<", <<Y, Number>>), Y>>))
Calls1   == Function(<<"x">>, Form("g", <<X>>))
Calls2   == Function(<<"y", "x">>,
              Form("if", <<Form("<", <<X, Number>>), Text, Form("f", <<Y, X>>)>>))
Measures == Function(<<"x", "y">>,
              Form("progn", <<Form("g", <<Y>>), Form("+", <<Form("f", <<X, Number>>),
                                                           Form("length", <<Y>>)>>)>>))

Trees == <<Says, Smaller, Twice, Or, Maybe, Calls1, Calls2, Measures>>

(* Trees are laid out behind what was laid out before them, each behind its *)
(* arguments: the cells, and the places at which the trees are.             *)
RECURSIVE LaidOut(_, _)
LaidOut(es, done) ==
  IF es = <<>> THEN done
  ELSE LET e     == Head(es)
           inner == LaidOut(e.args, [cells |-> done.cells, places |-> <<>>])
           cells == Append(inner.cells, [e EXCEPT !.args = inner.places])
       IN  LaidOut(Tail(es), [cells |-> cells, places |-> Append(done.places, Len(cells))])

Bodies == LaidOut([i \in 1..Len(Trees) |-> Trees[i].body], [cells |-> <<>>, places |-> <<>>])

SomeCode == Bodies.cells
Some     == {[Trees[i] EXCEPT !.body = Bodies.places[i]] : i \in 1..Len(Trees)}
=============================================================================
