------------------------------- MODULE Reader -------------------------------
(***************************************************************************)
(* Reading (src/src/parse.cpp).  A text is a sequence of characters; "bq"  *)
(* is the back quote, and a longer string like "quote" stands for the      *)
(* letters of a name.                                                      *)
(* parse first puts blanks around parentheses and behind quotes, then       *)
(* reads cells off a stream until it is no longer good.                     *)
(*                                                                         *)
(* A list that is not closed makes parseSexp run off its end without a     *)
(* return.  The builds we know give the caller a null pointer or garbage   *)
(* that crashes; Null stands for either, Repl tells them apart.            *)
(***************************************************************************)
EXTENDS Naturals, SequencesExt

Blank     == " "
Digits    == {"0", "1", "2", "3", "4", "5", "6", "7", "8", "9"}
Operators == {"+", "-", "*", "/", "!", "=", "<", ">"}
Quotes    == {"'", "bq", ","}

(* All characters.  The provers know no element of STRING: those that are  *)
(* spelled out here are listed.                                            *)
Chars == STRING \cup {Blank, "(", ")", "\""} \cup Quotes \cup Digits \cup Operators
           \cup {"quote", "backquote", "comma"}

Symbol(val)   == [kind |-> "symbol", val |-> val]
Real(val)     == [kind |-> "real", val |-> val]
String(val)   == [kind |-> "string", val |-> val]
List(cells)   == [kind |-> "list", cells |-> cells]
Null          == [kind |-> "null", val |-> <<>>]

-----------------------------------------------------------------------------
(* The stream: positions in a text, End(t) behind the last character.       *)

End(t) == Len(t) + 1

(* The first position from i on with another character, or the end.         *)
SkipBlanks(t, i) ==
  CHOOSE j \in i..End(t) :
    (j = End(t) \/ t[j] # Blank) /\ \A k \in i..(j - 1) : t[k] = Blank

FindNext(t, i, ch) ==
  CHOOSE j \in i..End(t) :
    (j = End(t) \/ t[j] = ch) /\ \A k \in i..(j - 1) : t[k] # ch

(* The blanks that parse adds to a character. *)
Spaced(ch) == IF ch = "(" \/ ch = "'" THEN <<ch, Blank>>
              ELSE IF ch = ")" THEN <<Blank, ch>> ELSE <<ch>>

Format(t) == FlattenSeq([i \in 1..Len(t) |-> Spaced(t[i])])

(* Fault: a lone operator is a number too. *)
ComputeType_lone(word) ==
  IF word # <<>> /\ Head(word) \in Digits \cup Operators THEN "real" ELSE "symbol"

(* Atom::computeType of a word that is no string. *)
ComputeType(word) ==
  IF word # <<>> /\ ( \/ Head(word) \in Digits
                      \/ Head(word) \in Operators /\ Len(word) > 1 )
  THEN "real" ELSE "symbol"

(* What a reading function returns: a cell and where the stream is then.    *)
Read(cell, next) == [cell |-> cell, next |-> next]

(* From the opening quote to the closing one, or to the end of the text.    *)
ParseString(t, i) ==
  LET j == FindNext(t, i + 1, "\"")
  IN  Read(String(SubSeq(t, i + 1, j - 1)), IF j = End(t) THEN j ELSE j + 1)

ParseAtom(t, i) ==
  LET j == FindNext(t, i, Blank)
      w == SubSeq(t, i, j - 1)
  IN  IF i < End(t) /\ t[i] = "\"" THEN ParseString(t, i)
      ELSE Read([kind |-> ComputeType(w), val |-> w], j)

QuoteName(ch) == CASE ch = "'" -> <<"quote">>
                   [] ch = "bq" -> <<"backquote">>
                   [] ch = "," -> <<"comma">>

(* A cell, given the lists that are read behind the parentheses further on. *)
(* At the end of the text there is nothing to read: the empty symbol.       *)
ParseCell(t, i, sexp) ==
  LET q == SkipBlanks(t, i)
      quoted == q < End(t) /\ t[q] \in Quotes
      j == IF quoted THEN SkipBlanks(t, q + 1) ELSE q
      r == IF j < End(t) /\ t[j] = "(" THEN sexp[j + 1] ELSE ParseAtom(t, j)
  IN  IF quoted THEN Read(List(<<Symbol(QuoteName(t[q])), r.cell>>), r.next) ELSE r

(* The cells of a list from i on, given those from positions further on.    *)
ParseRest(t, i, sexp) ==
  LET j    == SkipBlanks(t, i)
      r    == ParseCell(t, j, sexp)
      rest == sexp[r.next]
  IN  IF j = End(t) THEN Read(Null, j)
      ELSE IF t[j] = ")" THEN Read(List(<<>>), j + 1)
      ELSE IF rest.cell = Null THEN rest
      ELSE Read(List(<<r.cell>> \o rest.cell.cells), rest.next)

(* The list that is read from a position on. *)
ParseSexp(t) ==
  LET sexp[i \in 1..End(t)] == ParseRest(t, i, sexp) IN sexp

(* The cells of the text from i on, given those from positions further on.  *)
CellsFrom(t, i, sexp, cells) ==
  LET r == ParseCell(t, i, sexp)
  IN  IF SkipBlanks(t, i) = End(t) THEN <<>> ELSE <<r.cell>> \o cells[r.next]

ParseCells(t) ==
  LET sexp == ParseSexp(t)
      cells[i \in 1..End(t)] == CellsFrom(t, i, sexp, cells)
  IN  cells[1]

(* parse.  The stream is still good behind a closing parenthesis, a closing *)
(* quote or a trailing blank, and one more cell is read there: an empty     *)
(* symbol, which evaluates to itself and is left out here.                  *)
Parse(text) == ParseCells(Format(text))
=============================================================================
