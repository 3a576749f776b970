----------------------------- MODULE MCNotation -----------------------------
(* Words and strings for TLC.                                               *)
EXTENDS Notation

ASSUME Spelled

MCWords   == {Symbol(<<"a">>), Symbol(<<"+">>), Real(<<"-", "0", "1">>)}
MCPhrases == {String(<<"a", Blank, "a">>)}
=============================================================================
