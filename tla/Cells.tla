------------------------------- MODULE Cells -------------------------------
(***************************************************************************)
(* Evaluation on cells.  A form is read into cells; the closure of a       *)
(* function or macro points to the cells of its body, and evaluation       *)
(* changes them: a macro call overwrites the form that was called with its *)
(* expansion, backquote puts values into its own template, a comparison    *)
(* leaves its result in the form it came from.  Values are cells too, those *)
(* of code among them.  Trees says what all this should look like from     *)
(* outside.                                                                *)
(*                                                                         *)
(* An atom evaluates to the cell its weakRef points to, which is not       *)
(* always the cell itself: duplicate() and the overwriting of forms copy   *)
(* the weakRef of the original.  It expires with the last reference to the *)
(* original; cells that nothing refers to are dropped when the line that   *)
(* was typed has been evaluated.                                           *)
(*                                                                         *)
(* Environments are one sequence of tables here, as ScopesNest allows; the *)
(* table of a macro's arguments is there until the expansion is evaluated. *)
(* Values are symbols only if they are t or nil, which are not variables,  *)
(* and lists as values are not empty and do not begin with a function, as  *)
(* the results of comparisons do: these are tested or computed with, not   *)
(* kept or shown.                                                          *)
(***************************************************************************)
EXTENDS Trees

CONSTANTS
  Names,     (* the symbols, in the order in which they were interned      *)
  Program,   (* what is submitted first                                    *)
  Lines,     (* what may be submitted after that, in any order             *)
  MaxLines   (* bound: lines submitted                                     *)

ASSUME CellsAssumption ==
  /\ IsInjective(Names) /\ {"t", "nil"} \cup Builtins \subseteq Range(Names)
  /\ MaxLines \in Nat

VARIABLES
  cells,     (* the cells that are in use                                  *)
  global,    (* the global table, from names to cells                      *)
  variables, (* by Trees: the values of the global variables               *)
  defs,      (* by Trees: the functions and macros                         *)
  out,       (* the value of the last line, and what it is by Trees        *)
  done       (* how many lines were submitted                              *)

vars == <<cells, global, variables, defs, out, done>>

Null == 0
NoFn == [kind |-> "none", params |-> <<>>, body |-> Null]
Cell == [kind |-> "num", real |-> NaN, name |-> "", items |-> <<>>,
         self |-> Null, fn |-> NoFn]

(* Symbols are interned: a name stands for the same cell wherever it is read. *)
Interned(x) == CHOOSE i \in DOMAIN Names : Names[i] = x
T   == Interned("t")
Nil == Interned("nil")

SymbolCell(x) ==
  [Cell EXCEPT !.kind = "sym", !.name = x, !.self = Interned(x),
     !.real = Number(Sym(x)),
     !.fn.kind = IF x \in Builtins THEN "builtin" ELSE "none"]

(***************************************************************************)
(* A memory is [cells, fresh, scope, expired]: fresh is the next cell, and *)
(* expired says whether a weakRef without target was followed.  What takes *)
(* a memory returns one, with the cell v that is the result.               *)
(***************************************************************************)
(* A cell that is a copy, whose weakRef stays that of the original.         *)
CopyOf(cell, m) ==
  [v |-> m.fresh, m |-> [m EXCEPT !.cells = (m.fresh :> cell) @@ @, !.fresh = @ + 1]]

New(cell, m) == CopyOf([cell EXCEPT !.self = m.fresh], m)

NewNum(n, m)      == New([Cell EXCEPT !.real = n], m)
NewList(items, m) == New([Cell EXCEPT !.kind = "list", !.items = items], m)

(* Op(_, _) of each of cs in turn, the cells of the results collected.      *)
EachOf(Op(_, _), cs, m) ==
  FoldLeft(LAMBDA acc, c : LET one == Op(c, acc.m)
                           IN  [vs |-> Append(acc.vs, one.v), m |-> one.m],
           [vs |-> <<>>, m |-> m], cs)

RECURSIVE Read(_, _), Duplicate(_, _), Shown(_, _)
(* parseCell: new cells for what is written.                                *)
Read(e, m) ==
  CASE e.kind = "num"  -> NewNum(e.real, m)
    [] e.kind = "sym"  -> [v |-> Interned(e.name), m |-> m]
    [] e.kind = "list" -> LET each == EachOf(Read, e.items, m)
                          IN  NewList(each.vs, each.m)

(* duplicate: a copy down to the atoms, symbols included.                   *)
Duplicate(c, m) ==
  LET each == EachOf(Duplicate, m.cells[c].items, m)
  IN  CopyOf([m.cells[c] EXCEPT !.items = each.vs], each.m)

(* The closure, called on a list, is that of its first cell.                *)
Callee(c, m) == m.cells[m.cells[c].items[1]]
IsCall(c, m) == m.cells[c].items # <<>> /\ Callee(c, m).fn.kind # "none"

(* operator<<: a cell as a tree.  The result of a comparison is its form.   *)
Shown(c, m) ==
  LET cell == m.cells[c]
  IN  CASE cell.kind = "num"  -> Num(cell.real)
        [] cell.kind = "sym"  -> Sym(cell.name)
        [] cell.kind = "list" -> List([i \in DOMAIN cell.items |-> Shown(cell.items[i], m)])

(* evalType: that of a form is the result type in the prototype of its head. *)
EvalType(c, m) ==
  CASE m.cells[c].kind = "num" -> "f"
    [] m.cells[c].kind = "sym" -> "u"
    [] m.cells[c].kind = "list" ->
         IF ~IsCall(c, m) THEN "l"
         ELSE CASE Callee(c, m).name \in {"+", "*", "<", ">", "not", "length", "eq"} -> "f"
                [] Callee(c, m).name \in {"append", "list", "cdr"}         -> "l"
                [] OTHER                                                 -> "u"

(* weakRef.lock()                                                           *)
Locked(c, m) ==
  LET self == m.cells[c].self
  IN  [v |-> self, m |-> IF self = Null THEN [m EXCEPT !.expired = TRUE] ELSE m]

Find(x, m) == LET i == Holder(x, m.scope)
              IN  IF i = 0 THEN Null ELSE m.scope[i][x]

PushTable(table, m) == [m EXCEPT !.scope = Append(@, table)]
PopTable(r)         == [r EXCEPT !.m.scope = Front(@)]
-----------------------------------------------------------------------------
RECURSIVE Eval(_, _), Builtin(_, _), FunCall(_, _), MacroCall(_, _)
RECURSIVE Cond(_, _), And(_, _), Equal(_, _, _), Replace(_, _)

(* The numbers of the results are read while nothing else is evaluated.     *)
EvalNumbers(cs, m) ==
  FoldLeft(LAMBDA acc, c :
             LET one == Eval(c, acc.m)
             IN  [ns |-> Append(acc.ns, one.m.cells[one.v].real), m |-> one.m],
           [ns |-> <<>>, m |-> m], cs)

Nonzero(r) == r.m.cells[r.v].real # 0

Eval(c, m) ==
  LET cell  == m.cells[c]
      bound == Find(cell.name, m)
  IN  CASE cell.kind = "num" -> Locked(c, m)
        [] cell.kind = "sym" -> IF bound \in {Null, c} THEN Locked(c, m)
                                ELSE Eval(bound, m)
        [] cell.kind = "list" ->
             IF cell.items = <<>> THEN [v |-> Nil, m |-> m]
             ELSE CASE Callee(c, m).fn.kind = "none"    -> NewList(cell.items, m)
                    [] Callee(c, m).fn.kind = "builtin" -> Builtin(c, m)
                    [] Callee(c, m).fn.kind = "fun"     -> FunCall(c, m)
                    [] Callee(c, m).fn.kind = "macro"   -> MacroCall(c, m)

(* An argument that evaluates to a variable is the value of the variable.   *)
Argument(c, m) ==
  LET r     == Eval(c, m)
      bound == Find(r.m.cells[r.v].name, r.m)
  IN  IF r.m.cells[r.v].kind = "sym" /\ bound # Null THEN [r EXCEPT !.v = bound] ELSE r

Table(params, cs) == [x \in Range(params) |-> cs[CHOOSE i \in DOMAIN params : params[i] = x]]

FunCall(c, m) ==
  LET fn   == Callee(c, m).fn
      args == EachOf(Argument, Tail(m.cells[c].items), m)
  IN  PopTable(Eval(fn.body, PushTable(Table(fn.params, args.vs), args.m)))

(* Fault: the body itself is evaluated, and backquote changes it. *)
Copied_not(c, m) == [v |-> c, m |-> m]

Copied(c, m) == Duplicate(c, m)

(* *self = *expansion: items, number and weakRef.                           *)
Overwritten(c, by, m) == [m EXCEPT !.cells[c] = m.cells[by]]

(* The body is duplicated and evaluated, which gives the expansion; it      *)
(* replaces the form that was called, and a copy of it is evaluated.        *)
MacroCall(c, m) ==
  LET fn   == Callee(c, m).fn
      copy == Copied(fn.body, PushTable(Table(fn.params, Tail(m.cells[c].items)), m))
      expansion == Eval(copy.v, copy.m)
      again == Duplicate(expansion.v, Overwritten(c, expansion.v, expansion.m))
  IN  PopTable(Eval(again.v, again.m))

(* recursiveReplace, on the cell itself: the templates that begin with a    *)
(* comma are replaced in the list that holds them.                          *)
Replace(c, m) ==
  LET items == m.cells[c].items
      each  == EachOf(Replace, items, m)
  IN  IF items = <<>> THEN [v |-> c, m |-> m]
      ELSE IF Callee(c, m).name = "comma" THEN Eval(c, m)
      ELSE [v |-> c, m |-> [each.m EXCEPT !.cells[c].items = each.vs]]

Cond(clauses, m) ==
  LET clause == m.cells[Head(clauses)].items
      test   == Eval(clause[1], m)
  IN  IF clauses = <<>> THEN [v |-> Nil, m |-> m]
      ELSE IF ~Nonzero(test) THEN Cond(Tail(clauses), test.m)
      ELSE LET each == EachOf(Eval, Tail(clause), test.m)
           IN  [v |-> Last(each.vs), m |-> each.m]

(* and: a number that is zero ends it.                                      *)
And(cs, m) ==
  LET one == Eval(Head(cs), m)
  IN  IF Len(cs) = 1 \/ (EvalType(one.v, one.m) = "f" /\ ~Nonzero(one)) THEN one
      ELSE And(Tail(cs), one.m)

(* equal: of data, as far as both lists go.  What is compared is evaluated  *)
(* once more.  A list that is compared with something else is a fault.      *)
Equal(c, d, m) ==
  LET n  == EvalNumbers(<<c, d>>, m)
      is == m.cells[c].items
      js == m.cells[d].items
      type == EvalType(c, m)
  IN  \/ type = "f" /\ n.ns[1] # NaN /\ n.ns[1] = n.ns[2]
      \/ type = "l" /\ \A i \in DOMAIN is \cap DOMAIN js : Equal(is[i], js[i], m)

(* Fault: setq binds in the innermost table. *)
Setq_innermost(x, r, m) == [r EXCEPT !.m.scope[Len(m.scope)] = (x :> r.v) @@ @]

(* setq: a variable that is nowhere goes to the top of the current Env,     *)
(* which is searched only if that Env is not a captured copy.               *)
Setq(x, r, m) ==
  LET i == Holder(x, m.scope)
  IN  IF i # 0 THEN [r EXCEPT !.m.scope[i][x] = r.v]
      ELSE IF Len(m.scope) = 1 THEN [r EXCEPT !.m.scope[1] = (x :> r.v) @@ @]
      ELSE r

Symbol(b, m) == [v |-> IF b THEN T ELSE Nil, m |-> m]

(* Fault: append copies what it puts into the new list. *)
Appended_copies(lists, m) ==
  LET copies == EachOf(Duplicate, FlattenSeq([i \in DOMAIN lists |-> m.cells[lists[i]].items]), m)
  IN  NewList(copies.vs, copies.m)

(* append: lists share their elements.                                      *)
Appended(lists, m) ==
  NewList(FlattenSeq([i \in DOMAIN lists |-> m.cells[lists[i]].items]), m)

(* The result of a comparison is left in the form, and is the form.         *)
Compared(c, b, m) ==
  LET r == Locked(c, m)
  IN  [r EXCEPT !.m.cells[r.v].real = IF b THEN 1 ELSE 0]

Not(r)    == Symbol(r.v = Nil \/ (EvalType(r.v, r.m) = "f" /\ ~Nonzero(r)), r.m)
Length(r) == NewNum(IF EvalType(r.v, r.m) = "l" THEN Len(r.m.cells[r.v].items) ELSE NaN, r.m)

(* print evaluates its last argument a second time, for the result.         *)
Printed(cs, m) == Eval(Last(cs), EachOf(Eval, cs, m).m)

If(test, a) == Eval(IF Nonzero(test) THEN a[2] ELSE a[3], test.m)

When(test, a) ==
  IF Len(a) = 2 /\ Nonzero(test) THEN Eval(a[2], test.m) ELSE Symbol(Nonzero(test), test.m)

Progn(cs, m) == LET each == EachOf(Eval, cs, m) IN [v |-> Last(each.vs), m |-> each.m]

(* backquote: the template stays in the form, filled in.                    *)
Backquote(c, m) ==
  LET r == Replace(m.cells[c].items[2], m)
  IN  [r EXCEPT !.m.cells[c].items[2] = r.v]

Comma(c, m) ==
  [v |-> IF m.cells[c].kind = "list" THEN c ELSE Find(m.cells[c].name, m), m |-> m]

Car(r) == [r EXCEPT !.v = IF EvalType(r.v, r.m) = "l" THEN r.m.cells[r.v].items[1] ELSE Nil]

Cdr(r) ==
  LET items == r.m.cells[r.v].items
  IN  IF EvalType(r.v, r.m) = "l" /\ Len(items) > 1 THEN NewList(Tail(items), r.m)
      ELSE [r EXCEPT !.v = Nil]

Eq(a, m) ==
  LET both == EachOf(Eval, a, m)
  IN  Symbol(Equal(both.vs[1], both.vs[2], both.m), both.m)

Builtin(c, m) ==
  LET a   == Tail(m.cells[c].items)
      f   == Callee(c, m).name
      one == Eval(a[1], m)
      numbers == EvalNumbers(a, m)
      ns      == numbers.ns
      each    == EachOf(Eval, a, m)
  IN  CASE f = "+"      -> NewNum(Sum(ns), numbers.m)
        [] f = "*"      -> NewNum(Product(ns), numbers.m)
        [] f = "<"      -> Compared(c, Less(ns[1], ns[2]), numbers.m)
        [] f = ">"      -> Compared(c, Less(ns[2], ns[1]), numbers.m)
        [] f = "not"    -> Not(one)
        [] f = "length" -> Length(one)
        [] f = "print"  -> Printed(a, m)
        [] f = "if"     -> If(one, a)
        [] f = "when"   -> When(one, a)
        [] f = "cond"   -> Cond(a, m)
        [] f = "progn"  -> Progn(a, m)
        [] f = "and"    -> And(a, m)
        [] f = "quote"  -> [v |-> a[1], m |-> m]
        [] f = "backquote" -> Backquote(c, m)
        [] f = "comma"  -> Comma(a[1], m)
        [] f = "setq"   -> Setq(m.cells[a[1]].name, Eval(a[2], m), m)
        [] f = "list"   -> NewList(each.vs, each.m)
        [] f = "append" -> Appended(each.vs, each.m)
        [] f = "car"    -> Car(one)
        [] f = "cdr"    -> Cdr(one)
        [] f = "eq"     -> Eq(a, m)
-----------------------------------------------------------------------------
(* What is referred to: from symbols and from the global table, over the    *)
(* items of lists and the bodies of closures.                               *)
RECURSIVE Reached(_, _)
Reached(from, heap) ==
  LET next == from \cup UNION {Range(heap[c].items) \cup {heap[c].fn.body} : c \in from}
  IN  IF next = from THEN from ELSE Reached(next, heap)

(* The cells that stay, and the weakRefs to the others expire.              *)
Kept(m) ==
  LET kept == Reached({Null} \cup DOMAIN Names \cup Range(m.scope[1]), m.cells)
  IN  [c \in kept |->
         [m.cells[c] EXCEPT !.self = IF @ \in kept THEN @ ELSE Null]]

Init ==
  /\ cells = (Null :> Cell) @@ [i \in DOMAIN Names |-> SymbolCell(Names[i])]
  /\ global = <<>> /\ variables = <<>> /\ defs = <<>>
  /\ out = [got |-> Sym("nil"), want |-> Sym("nil"), expired |-> FALSE]
  /\ done = 0

Memory == [cells |-> cells, fresh |-> Max(DOMAIN cells) + 1,
           scope |-> <<global>>, expired |-> FALSE]

(* defun and defmacro: the closure of the symbol is replaced.               *)
Define(d) ==
  LET body == Read(d.body, Memory)
      i    == Interned(d.name)
      m    == [body.m EXCEPT !.cells[i].fn =
                 [kind |-> d.kind, params |-> d.params, body |-> body.v]]
  IN  /\ d.kind \in {"fun", "macro"}
      /\ cells' = Kept(m)
      /\ defs'  = (d.name :> d) @@ defs
      /\ UNCHANGED <<global, variables, out>>

Evaluate(d) ==
  LET form == Read(d.body, Memory)
      r    == Eval(form.v, form.m)
      is   == Meaning(d.body, <<variables>>, defs)
  IN  /\ d.kind = "form"
      /\ cells'  = Kept(r.m)
      /\ global' = r.m.scope[1]
      /\ variables' = is.scope[1]
      /\ out' = [got |-> Shown(r.v, r.m), want |-> is.v, expired |-> r.m.expired]
      /\ UNCHANGED defs

Offered == IF done < Len(Program) THEN {Program[done + 1]} ELSE Lines

Next ==
  /\ done < MaxLines
  /\ done' = done + 1
  /\ \E d \in Offered : Define(d) \/ Evaluate(d)

Spec == Init /\ [][Next]_vars
-----------------------------------------------------------------------------
(* The value of every line is what the line means, whatever was evaluated   *)
(* before it and changed the code.  (Evaluation in cell.cpp, special.cpp,   *)
(* functional.cpp.)                                                         *)
ResultsAgree == ~out.expired /\ out.got = out.want

(* The variables have the values that were stored in them, although these   *)
(* are cells that code and other values share.                              *)
VariablesAgree ==
  /\ DOMAIN global = DOMAIN variables
  /\ \A x \in DOMAIN global : Shown(global[x], Memory) = variables[x]

(* No cell that can still be evaluated has a weakRef to a cell that is gone: *)
(* the next evaluation of an atom would yield the null pointer.             *)
NoneExpired == \A c \in DOMAIN cells \ {Null} : cells[c].self # Null
=============================================================================
