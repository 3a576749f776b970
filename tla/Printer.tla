------------------------------ MODULE Printer ------------------------------
(***************************************************************************)
(* Printing: the operators << of src/src/cell.cpp.                         *)
(***************************************************************************)
EXTENDS Reader

CONSTANT
  Levels    (* bound: how deep the cells that are printed are nested        *)

ASSUME LevelsAssumption == Levels \in Nat

Signs == {"+", "-"}

(* Where the digits that atof finds at the front of a word end. *)
DigitsEnd(word) ==
  CHOOSE k \in 1..End(word) :
    (k = End(word) \/ word[k] \notin Digits) /\ \A j \in 1..(k - 1) : word[j] \in Digits

(* The digits that atof reads, of numbers without fraction and exponent.    *)
Integer(word) ==
  LET w == IF Head(word) \in Signs THEN Tail(word) ELSE word
  IN  SubSeq(w, 1, DigitsEnd(w) - 1)

(* The zeros in front are no part of a number. *)
ValueBegin(digits) ==
  CHOOSE k \in 1..Len(digits) :
    (k = Len(digits) \/ digits[k] # "0") /\ \A j \in 1..(k - 1) : digits[j] = "0"

Value(digits) == SubSeq(digits, ValueBegin(digits), Len(digits))

(* How a number prints; without a digit atof gives zero.  The zero of "-0"  *)
(* is a negative one.                                                      *)
Number(word) ==
  LET digits == Integer(word)
  IN  IF digits = <<>> THEN <<"0">>
      ELSE (IF Head(word) = "-" THEN <<"-">> ELSE <<>>) \o Value(digits)

ShowAtom(cell) == IF cell.kind = "real" THEN Number(cell.val) ELSE cell.val

(* Fault: no blank between the cells of a list. *)
ShowCells_joined(cells, shown) == FlattenSeq([i \in 1..Len(cells) |-> shown[cells[i]]])

(* The cells of a list, given what is printed of cells nested less deep.    *)
ShowCells(cells, shown) == FlattenSeq([i \in 1..Len(cells) |-> shown[cells[i]] \o <<Blank>>])

Atoms          == [kind : {"symbol", "real", "string"}, val : Seq(Chars)]
ListsOver(S)   == [kind : {"list"}, cells : Seq(S)]

(* What is printed of the cells up to each depth. *)
Shown[n \in Nat] ==
  LET inner == Shown[n - 1]
  IN  [cell \in Atoms \cup (IF n = 0 THEN {} ELSE ListsOver(DOMAIN inner)) |->
         IF cell.kind = "list" THEN <<"(">> \o ShowCells(cell.cells, inner) \o <<")">>
         ELSE ShowAtom(cell)]

Printable  == DOMAIN Shown[Levels]
Show(cell) == Shown[Levels][cell]
=============================================================================
