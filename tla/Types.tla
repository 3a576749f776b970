------------------------------- MODULE Types -------------------------------
(***************************************************************************)
(* The types that are inferred for functions, and what becomes of the      *)
(* arguments of interpreted functions that compiled code calls (Prototype  *)
(* and inferType in src/src/cell.cpp, codegen and call_interpreted in      *)
(* src/src/compiler.cpp).                                                  *)
(*                                                                         *)
(* A prototype is a sequence of letters: the type of the value and those   *)
(* of the arguments, f a number, s a string, l a list, u unknown (no       *)
(* prototype ever has the letter a, for symbols); <<t, *>> at its end says *)
(* that all arguments are of one type.  Every name is one interned         *)
(* SymbolAtom, so functions and parameters keep their prototypes in the    *)
(* same place, and all parameters of one name share one.                   *)
(*                                                                         *)
(* inferFunctionType runs before a defun is evaluated.  A parameter gets   *)
(* the type of its first use in the body, taking the arguments of a form   *)
(* in order and whole forms that do not tell as not being there.           *)
(*                                                                         *)
(* Outside the model: bodies that are no forms and parameters that are no  *)
(* symbols (both undefined), clos2, which Compiler is about, and native.   *)
(*                                                                         *)
(* A cell of code is a number, the place at which Code has what is in it:  *)
(* arguments are cells that come before it, for the reader makes cells     *)
(* that do not contain themselves.                                         *)
(***************************************************************************)
EXTENDS Naturals, FiniteSetsExt, Sequences

CONSTANTS
  Functions,   (* names of functions                                       *)
  Params,      (* names of parameters                                      *)
  Code,        (* the cells of code, a sequence                            *)
  Definitions, (* what functions may be defined as: [params, body]         *)
  None

(* Cells of code.  A form has a name in front.                              *)
Var(x)        == [kind |-> "symbol", name |-> x, args |-> <<>>]
Number        == [kind |-> "number", name |-> None, args |-> <<>>]
Text          == [kind |-> "string", name |-> None, args |-> <<>>]
Form(h, args) == [kind |-> "form", name |-> h, args |-> args]

Letters == {"f", "s", "l", "u"}

(* The names that modules of the interpreter register, with prototypes.     *)
Arithmetic == {"+", "<"}
Builtin ==
  [n \in {"+", "<", "concat", "length", "list", "if", "progn", "when"} |->
     CASE n = "+"      -> <<"f", "f", "*">>
       [] n = "<"      -> <<"f", "f", "f">>
       [] n = "concat" -> <<"s", "s", "*">>
       [] n = "length" -> <<"f", "u">>
       [] n = "list"   -> <<"l", "l", "*">>
       [] OTHER        -> <<>>]

Names == DOMAIN Builtin \cup Functions \cup Params

ASSUME TypesAssumption ==
  /\ DOMAIN Builtin \cap (Functions \cup Params) = {}
  /\ None \notin Definitions
  /\ \A d \in Definitions : IsInjective(d.params)

Cells  == 1..Len(Code)
Atoms  == {Number, Text} \cup {Var(x) : x \in Names}
IsForm(e) == Code[e].kind = "form"

(* Forms of these names have the arguments that are read, without asking    *)
(* whether they are there.                                                  *)
ASSUME CodeAssumption ==
  /\ Code \in Seq(Atoms \cup [kind : {"form"}, name : Names, args : Seq(Cells)])
  /\ \A e \in Cells :
       /\ \A i \in 1..Len(Code[e].args) : Code[e].args[i] < e
       /\ IsForm(e) /\ Code[e].name = "<"     => Len(Code[e].args) = 2
       /\ IsForm(e) /\ Code[e].name = "if"    => Len(Code[e].args) = 3
       /\ IsForm(e) /\ Code[e].name = "when"  => Len(Code[e].args) = 2
       /\ IsForm(e) /\ Code[e].name = "progn" => Len(Code[e].args) > 0
  /\ \A d \in Definitions : d.params \in Seq(Params) /\ d.body \in Cells /\ IsForm(d.body)

VARIABLES
  def,       (* SymbolAtom::args and code of every function                 *)
  proto,     (* SymbolAtom::prototype of every name                         *)
  compiled,  (* Cell::compiled                                              *)
  sites      (* the calls through call_interpreted in a function's code     *)

vars == <<def, proto, compiled, sites>>

Init ==
  /\ def      = [f \in Functions |-> None]
  /\ proto    = [n \in Names |-> IF n \in DOMAIN Builtin THEN Builtin[n] ELSE <<>>]
  /\ compiled = [f \in Functions |-> FALSE]
  /\ sites    = [f \in Functions |-> None]

-----------------------------------------------------------------------------
(* Prototypes.                                                              *)

Convert(c) == IF c \in Letters THEN c ELSE "u"

(* Fault: the value's type is counted as that of an argument. *)
ArgType_shifted(p, i) ==
  IF Len(p) = 3 /\ p[3] = "*" THEN Convert(p[2])
  ELSE IF i <= Len(p) THEN Convert(p[i]) ELSE "u"

(* The type of argument i, counted from 1. *)
ArgType(p, i) ==
  IF Len(p) = 3 /\ p[3] = "*" THEN Convert(p[2])
  ELSE IF i < Len(p) THEN Convert(p[i+1]) ELSE "u"

ReturnType(p) == IF p = <<>> THEN "u" ELSE Convert(p[1])

(* The type of x in a form, when inner has that of x in the forms in it.    *)
Told(e, x, now, inner) ==
  LET args     == Code[e].args
      Here(i)  == Code[args[i]] = Var(x)
      Found(i) == IF Here(i) THEN ArgType(now[Code[e].name], i)
                  ELSE IF IsForm(args[i]) THEN inner[args[i]] ELSE "u"
      Tells    == {i \in 1..Len(args) : Here(i) \/ Found(i) # "u"}
  IN  IF Tells = {} THEN "u" ELSE Found(Min(Tells))

(* Sexp::inferType: the type of x in a form, given the prototypes.          *)
InferType(e, x, now) ==
  LET infer[c \in Cells] == Told(c, x, now, infer) IN infer[e]

(* The type of a cell, when of has those of the cells in it.                *)
Valued(e, now, known, of) ==
  LET name == Code[e].name
      args == Code[e].args
  IN  CASE Code[e].kind = "symbol"       -> ReturnType(now[name])
        [] Code[e].kind = "number"       -> "f"
        [] Code[e].kind = "string"       -> "s"
        [] IsForm(e) /\ name = "if"      ->
             IF of[args[2]] = of[args[3]] THEN of[args[2]] ELSE "u"
        [] IsForm(e) /\ name = "when"    -> of[args[2]]
        [] IsForm(e) /\ name = "progn"   -> of[args[Len(args)]]
        [] OTHER -> IF name \in known \cup DOMAIN Builtin
                    THEN ReturnType(now[name]) ELSE "l"

(* evalType of a cell; known are the functions that have a closure.         *)
EvalType(e, now, known) ==
  LET type[c \in Cells] == Valued(c, now, known, type) IN type[e]

-----------------------------------------------------------------------------
(* defun at top level: inferFunctionType, then the definition.              *)

(* Each parameter in turn gets a prototype of its own.                      *)
Inferred(d, now) ==
  LET n == Len(d.params)
      after[k \in 0..n] ==
        IF k = 0 THEN now
        ELSE LET p == after[k-1]
                 x == d.params[k]
             IN  [p EXCEPT ![x] = <<InferType(d.body, x, p)>>]
  IN  after[n]

Known == {f \in Functions : def[f] # None}

(* Fault: the type of the value is that from before the parameters'. *)
ValueType_before(d, now) == EvalType(d.body, proto, Known)

ValueType(d, now) == EvalType(d.body, now, Known)

Defun(f, d) ==
  LET now == Inferred(d, proto)
  IN  /\ proto' = [now EXCEPT ![f] =
                     <<ValueType(d, now)>>
                     \o [i \in 1..Len(d.params) |-> Head(now[d.params[i]])]]
      /\ def' = [def EXCEPT ![f] = d]
      /\ UNCHANGED <<compiled, sites>>

-----------------------------------------------------------------------------
(* compile.                                                                 *)

(* Fault: a letter for each argument. *)
Format_all(p, n) == [i \in 1..n |-> ArgType(p, i)]

(* The letters of the format string.  Unknown types and lists have none.    *)
Format(p, n) ==
  LET format[i \in 0..n] ==
        IF i = 0 THEN <<>>
        ELSE IF ArgType(p, i) \in {"f", "s"} THEN Append(format[i-1], ArgType(p, i))
        ELSE format[i-1]
  IN  format[n]

(* A cell and the cells in it. *)
Within(e) ==
  LET within[c \in Cells] ==
        {c} \cup UNION {within[Code[c].args[i]] : i \in 1..Len(Code[c].args)}
  IN  within[e]

(* The calls of functions through call_interpreted in a body, given who is  *)
(* compiled.  Those of special forms and primitives are left out.           *)
(* callee is history: the definition that the format string is made for.   *)
Emitted(e, done) ==
  LET Site(f, n) == [callee |-> def[f], given |-> n, fmt |-> Format(proto[f], n)]
  IN  {Site(Code[c].name, Len(Code[c].args)) :
         c \in {c \in Within(e) : IsForm(c) /\ Code[c].name \in Functions \ done}}

(* The flag is set first, and the code is installed even if LLVM rejects    *)
(* it.  A second compilation changes nothing here if the number of          *)
(* parameters is the same, and is undefined otherwise.                      *)
Compile(f) ==
  LET done == {g \in Functions : compiled[g] \/ g = f}
  IN  /\ f \in Known /\ ~compiled[f]
      /\ compiled' = [compiled EXCEPT ![f] = TRUE]
      /\ sites' = [sites EXCEPT ![f] = Emitted(def[f].body, done)]
      /\ UNCHANGED <<def, proto>>

Next ==
  \/ \E f \in Functions, d \in Definitions : Defun(f, d)
  \/ \E f \in Functions : Compile(f)

Spec == Init /\ [][Next]_vars
-----------------------------------------------------------------------------
Site == [callee : Definitions \cup {None}, given : Nat, fmt : Seq({"f", "s"})]

(* The variables have the values their comments say.                        *)
TypeOK ==
  /\ def      \in [Functions -> Definitions \cup {None}]
  /\ proto    \in [Names -> Seq(Letters \cup {"*"})]
  /\ compiled \in [Functions -> BOOLEAN]
  /\ sites    \in [Functions -> {None} \cup SUBSET Site]

(* Only letter f makes call_interpreted pass an argument on.                *)
Arrived(s) == Cardinality({i \in 1..Len(s.fmt) : s.fmt[i] = "f"})

(* The form in which e uses x first, in the order of the text, or 0; inner  *)
(* has these of the cells in it.                                            *)
First(e, x, inner) ==
  LET args    == Code[e].args
      Here(i) == Code[args[i]] = Var(x)
      Uses    == {i \in 1..Len(args) : Here(i) \/ inner[args[i]] # 0}
  IN  IF Uses = {} THEN 0 ELSE IF Here(Min(Uses)) THEN e ELSE inner[args[Min(Uses)]]

FirstUse(e, x) ==
  LET first[c \in Cells] == First(c, x, first) IN first[e]

(* Each parameter of d is used, and first of all as an operand.             *)
Operands(d) ==
  \A k \in 1..Len(d.params) :
    LET use == FirstUse(d.body, d.params[k]) IN use # 0 /\ Code[use].name \in Arithmetic

(* A function on numbers, which shows at the first use of each parameter,   *)
(* gets all its arguments from code that was compiled after it was defined. *)
ArgumentsArrive ==
  \A f \in Functions : sites[f] # None => \A s \in sites[f] :
    s.callee # None /\ Len(s.callee.params) = s.given /\ Operands(s.callee)
      => Arrived(s) = s.given

(* The types that the value of a cell may have, that of a variable or of a  *)
(* call being given and of those of the cells in it; a (symbol) for the nil *)
(* that `when' may return.                                                  *)
Returned(c, given, of) ==
  LET name == Code[c].name
      args == Code[c].args
  IN  CASE Code[c].kind = "number" -> {"f"}
        [] Code[c].kind = "string" -> {"s"}
        [] IsForm(c) /\ name = "if"    -> of[args[2]] \cup of[args[3]]
        [] IsForm(c) /\ name = "when"  -> of[args[2]] \cup {"a"}
        [] IsForm(c) /\ name = "progn" -> of[args[Len(args)]]
        [] OTHER -> {given[name]}

Results(e, given) ==
  LET results[c \in Cells] == Returned(c, given, results) IN results[e]

(* What a prototype that f has just got says of the names in its body d: of *)
(* a parameter it has the type itself.                                      *)
Given(d, f) ==
  [n \in Names |->
     IF \E i \in 1..Len(d.params) : d.params[i] = n
     THEN proto'[f][1 + CHOOSE i \in 1..Len(d.params) : d.params[i] = n]
     ELSE ReturnType(proto'[n])]

ValueRight ==
  \A f \in Functions : def'[f] # def[f] =>
    LET d == def'[f]
        t == proto'[f][1]
    IN  t \in {"f", "s"} => Results(d.body, Given(d, f)) \subseteq {t, "a"}

(* If a prototype says that a function returns a number or a string, its    *)
(* body has no branch of another type, given what the prototype says of the *)
(* arguments; but a `when' may be nil all the same.                         *)
ValueTypeRight == [][ValueRight]_vars
=============================================================================
