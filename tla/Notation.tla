------------------------------ MODULE Notation ------------------------------
(***************************************************************************)
(* How cells may be written down, independent of the way they are read,    *)
(* and what the reader makes of it.  A text is written from left to right: *)
(* words, strings, blanks, quote characters and parentheses.  What is      *)
(* between two parentheses is a row of its own until it is closed.         *)
(*                                                                         *)
(* Two liberties of Lisp notation are never taken, because the reader has  *)
(* no rule for them: it takes a quote character behind another one for the *)
(* first character of a symbol, and a parenthesis, quote or string that    *)
(* touches the end of a word for more of that word, so that `,a and (a(b)) *)
(* are not the cells they look like.  Strings hold no character that parse *)
(* puts blanks beside: it does so in strings too, which makes them other   *)
(* strings.  Numbers have no fraction and no exponent, and no more digits  *)
(* than a stream prints.                                                   *)
(***************************************************************************)
EXTENDS Printer

CONSTANTS
  Words,       (* the symbols and numbers that are written                 *)
  Phrases,     (* the strings                                              *)
  MaxDepth,    (* bound: open parentheses                                  *)
  MaxCells,    (* bound: cells in a row                                    *)
  MaxLength    (* bound: characters, open parentheses not counted          *)

VARIABLE
  rows         (* the row that is written, behind those it is part of: the *)
               (* text, its cells, and a quote character that waits for    *)
               (* the cell it belongs to                                   *)

Closers  == {")", "\""}
Brackets == {"(", ")", "'", "\"", Blank}

(* What atof reads, besides digits, and what a stream prints of a double.   *)
Floating  == {".", "e", "E", "x", "X", "i", "I", "n", "N"}
Precision == 6

(* The words are words to the reader: numbers begin with a digit, or with a *)
(* sign and something behind it; all other words are symbols.  None begins  *)
(* with a quote character.  There is nothing special in a string.           *)
Spelled ==
  /\ \A c \in Words :
       LET w == c.val
       IN  /\ c \in {Symbol(w), Real(w)}
           /\ w \in Seq(Chars \ Brackets) /\ w # <<>> /\ w[1] \notin Quotes
           /\ c.kind = "real" <=> w[1] \in Digits \/ (w[1] \in Operators /\ Len(w) > 1)
           /\ c.kind = "real" => /\ w \in Seq(Chars \ Floating)
                                 /\ Len(Integer(w)) <= Precision
  /\ \A c \in Phrases : c = String(c.val) /\ c.val \in Seq((Chars \ Brackets) \cup {Blank})

None     == "none"
EmptyRow == [text |-> <<>>, cells |-> <<>>, mark |-> None]

NotationInit == rows = <<EmptyRow>>

Top       == rows[Len(rows)]
Instead(row) == [rows EXCEPT ![Len(rows)] = row]

(* No word has to end before something else is written. *)
Ended(text) == text # <<>> => Last(text) \in Closers \cup {Blank}

(* The row with the cell behind it, which is written like this. *)
With(row, cell, w) ==
  IF row.mark = None
  THEN [row EXCEPT !.text = @ \o w, !.cells = Append(@, cell)]
  ELSE [text  |-> row.text \o <<row.mark>> \o w,
        cells |-> Append(row.cells, List(<<Symbol(QuoteName(row.mark)), cell>>)),
        mark  |-> None]

Fit(rs) ==
  /\ \A k \in 1..Len(rs) : Len(rs[k].cells) <= MaxCells
  /\ Len(FlattenSeq([k \in 1..Len(rs) |-> rs[k].text])) <= MaxLength

Word(cell) ==
  /\ Ended(Top.text)
  /\ rows' = Instead(With(Top, cell, cell.val))

Phrase(cell) ==
  /\ Ended(Top.text)
  /\ rows' = Instead(With(Top, cell, <<"\"">> \o cell.val \o <<"\"">>))

Space ==
  /\ Top.mark = None
  /\ rows' = Instead([Top EXCEPT !.text = Append(@, Blank)])

Mark(ch) ==
  /\ Top.mark = None /\ Ended(Top.text)
  /\ rows' = Instead([Top EXCEPT !.mark = ch])

Open ==
  /\ Ended(Top.text) /\ Len(rows) <= MaxDepth
  /\ rows' = Append(rows, EmptyRow)

Close ==
  /\ Len(rows) > 1 /\ Top.mark = None
  /\ rows' = [Front(rows) EXCEPT ![Len(rows) - 1] =
                With(@, List(Top.cells), <<"(">> \o Top.text \o <<")">>)]

NotationNext ==
  /\ \/ \E cell \in Words : Word(cell)
     \/ \E cell \in Phrases : Phrase(cell)
     \/ \E ch \in Quotes : Mark(ch)
     \/ Space \/ Open \/ Close
  /\ Fit(rows')

NotationSpec == NotationInit /\ [][NotationNext]_rows
-----------------------------------------------------------------------------
(* What was written is read: the same cells, of the same types, in the same *)
(* nesting, at any time and between any parentheses.                        *)
ReadsBack ==
  \A k \in 1..Len(rows) : Parse(rows[k].text) = rows[k].cells

(* What operator<< prints of a cell that was written without strings is one *)
(* cell again when it is read, and that prints the same.                    *)
PrintsBack ==
  \A k \in 1..Len(rows) : "\"" \notin ToSet(rows[k].text) =>
    \A cell \in ToSet(rows[k].cells) \cap Printable :
      LET again == Parse(Show(cell))
      IN  Len(again) = 1 /\ again[1] \in Printable /\ Show(again[1]) = Show(cell)
=============================================================================
