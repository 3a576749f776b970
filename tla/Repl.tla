-------------------------------- MODULE Repl --------------------------------
(***************************************************************************)
(* The loop of main (src/src/llisp.cpp) that reads lines, and evalHelper,  *)
(* which parses and evaluates what was collected of them.  A line is kept  *)
(* in `in', an empty line leaves it as it was; what has not been evaluated *)
(* to its end is kept in curLine.                                          *)
(*                                                                         *)
(* parse runs to the end of the text before anything is evaluated.  An     *)
(* open list comes back from parseSexp as whatever the missing return      *)
(* leaves behind: a null pointer, on which evalHelper stops, or garbage    *)
(* that ends the program while it is read or when its turn comes.  Inside  *)
(* a quote form nothing checks the null, and the form counts as complete.  *)
(*                                                                         *)
(* Before the first line a file may be loaded, all of it as one text: what  *)
(* is open at its end is dropped, and a file that does not exist is read   *)
(* for ever, since a stream that was not opened never reaches its end.     *)
(*                                                                         *)
(* Outside the model: what evaluation does, and (), which ends the program *)
(* in inferFunctionType; the load forms that main evaluates first.         *)
(***************************************************************************)
EXTENDS Reader

CONSTANTS
  Files,     (* the texts of files that are loaded, or Missing              *)
  Missing,   (* in the place of a file that does not exist                  *)
  Lines,     (* the lines that are typed                                    *)
  MaxLines   (* bound: how many of them                                     *)

ASSUME ReplAssumption ==
  /\ Lines \subseteq Seq(STRING)
  /\ Files \subseteq Seq(STRING) \cup {Missing}

VARIABLES
  file,      (* the file the program is started with; none is like an empty one *)
  loading,   (* is it being loaded?                                         *)
  in,        (* the last line that was not empty                            *)
  curLine,   (* text to be evaluated together with the next line            *)
  alive,     (* the program runs                                            *)
  evaluated, (* history: the forms evaluated                                *)
  typed      (* history: the lines that were typed                          *)

vars == <<file, loading, in, curLine, alive, evaluated, typed>>

Init ==
  /\ file \in Files
  /\ loading = TRUE
  /\ in = <<>>
  /\ curLine = <<>>
  /\ alive = TRUE
  /\ evaluated = <<>>
  /\ typed = <<>>

Semicolon          == ";"
Position(line, ch) == FindNext(line, 1, ch)

(* Where find() says npos there is neither ; nor ( and the line is code.    *)
IsComment(line) == Position(line, Semicolon) < Position(line, "(")

(* The forms up to one that is open. *)
Whole(cells)    == SubSeq(cells, 1, FindNext(cells, 1, Null) - 1)
Complete(cells) == Whole(cells) = cells

(* Fault: a line read while a form is open replaces what was kept. *)
Collected_fresh(line) == <<Blank>> \o line

Collected(line) == curLine \o <<Blank>> \o line

(* Fault: the text is dropped whether or not it was read to its end. *)
Kept_never(text, cells) == <<>>

Kept(text, cells) == IF Complete(cells) THEN <<>> ELSE text

(* loadFile: all of the file is one text, of which nothing is kept.         *)
LoadFile ==
  LET cells == IF file = Missing THEN <<>> ELSE Parse(file)
  IN  /\ alive /\ loading
      /\ loading' = (file = Missing)
      /\ evaluated' = evaluated \o Whole(cells)
      /\ alive' \in IF Complete(cells) THEN {TRUE} ELSE BOOLEAN
      /\ UNCHANGED <<file, in, curLine, typed>>

(* readline returns a line. *)
Typed(line) ==
  /\ alive /\ ~loading /\ Len(typed) < MaxLines
  /\ in' = IF line = <<>> THEN in ELSE line
  /\ typed' = Append(typed, line)
  /\ UNCHANGED <<file, loading>>

SkipComment(line) ==
  /\ Typed(line)
  /\ IsComment(in')
  /\ UNCHANGED <<curLine, alive, evaluated>>

(* Every form of the text is evaluated, up to one that is open. *)
Evaluate(line) ==
  LET text  == Collected(in')
      cells == Parse(text)
  IN  /\ Typed(line)
      /\ ~IsComment(in')
      /\ evaluated' = evaluated \o Whole(cells)
      /\ curLine' = Kept(text, cells)
      /\ UNCHANGED alive

(* The builds in which an open list is not a null pointer. *)
Crash(line) ==
  LET cells == Parse(Collected(in'))
  IN  /\ Typed(line)
      /\ ~IsComment(in')
      /\ ~Complete(cells)
      /\ evaluated' \in {evaluated, evaluated \o Whole(cells)}
      /\ alive' = FALSE
      /\ UNCHANGED curLine

(* readline returns NULL. *)
Goodbye ==
  /\ alive /\ ~loading
  /\ alive' = FALSE
  /\ UNCHANGED <<file, loading, in, curLine, evaluated, typed>>

Next ==
  \/ \E line \in Lines : SkipComment(line) \/ Evaluate(line) \/ Crash(line)
  \/ LoadFile
  \/ Goodbye

Spec == Init /\ [][Next]_vars
-----------------------------------------------------------------------------
(* The program: what the file holds, and the first lines that were typed,   *)
(* each up to its comment.                                                  *)
Code(line)  == SubSeq(line, 1, Position(line, Semicolon) - 1)
Added(line) == IF Code(line) = <<>> THEN <<>> ELSE <<Blank>> \o Code(line)
Program(n)  == FlattenSeq([k \in 1..n |-> Added(typed[k])])
Loaded      == IF file = Missing THEN <<>> ELSE Whole(Parse(file))
Forms       == Loaded \o Whole(Parse(Program(Len(typed))))

(* Line k closes forms and then opens one that stays open. *)
ClosesThenOpens(k) ==
  LET cells == Parse(Program(k))
  IN  ~Complete(cells) /\ Whole(cells) # Whole(Parse(Program(k - 1)))

(* A line with a ; behind code: it is evaluated with what is behind the ;,  *)
(* or, where there is no ( before the ;, dropped with the code.             *)
Remarked(line) == Code(line) \notin {<<>>, line}

(* In programs without such lines, what has been evaluated is, at any       *)
(* prompt, exactly the forms that were closed so far, in their order, each  *)
(* once, however they are spread over lines.  No line of them may be empty  *)
(* (it stands for the line before it, which is then evaluated again) or     *)
(* have a ; behind code.                                                    *)
EachFormOnce ==
  alive /\ ~loading
    /\ (\A k \in 1..Len(typed) :
          typed[k] # <<>> /\ ~Remarked(typed[k]) /\ ~ClosesThenOpens(k))
    => evaluated = Forms

(* When no text is kept, every form that was typed has been evaluated, also *)
(* where lines close a form and open another, and though an empty line      *)
(* repeats the one before it.  The exceptions are empty lines in an open    *)
(* form, which put the line before them into it a second time, and lines    *)
(* with a ; behind code.                                                    *)
NoneLost ==
  alive /\ ~loading /\ curLine = <<>>
    /\ (\A k \in 1..Len(typed) :
          /\ typed[k] = <<>> => Complete(Parse(Program(k - 1)))
          /\ ~Remarked(typed[k]))
    => ToSet(Forms) \subseteq ToSet(evaluated)

(* What has been read of a text that is kept is read again the same when    *)
(* another line is added to it.                                             *)
ReadAgain ==
  [][ curLine # <<>> /\ curLine' # <<>> =>
        IsPrefix(Whole(Parse(curLine)), Whole(Parse(curLine'))) ]_vars
=============================================================================
