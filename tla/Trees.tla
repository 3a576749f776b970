------------------------------- MODULE Trees -------------------------------
(***************************************************************************)
(* What forms mean, as one would explain the language: code and values are *)
(* trees, which nothing changes; a variable has the value that was stored; *)
(* a macro call means the form that its arguments are put into, evaluated  *)
(* where the call stands.  Cells does the same with cells that are shared. *)
(* One rule is the code's own: only the number 0 ends `and' early, nil does *)
(* not.                                                                     *)
(*                                                                         *)
(* Scoping is dynamic: a called function sees the variables of its caller. *)
(* A scope is a sequence of tables, the global one first.                  *)
(***************************************************************************)
EXTENDS Integers, SequencesExt

(* NAN, the number of everything that is none: true as a condition, not     *)
(* equal to itself.  Other numbers of the models are natural.               *)
NaN == -1

Num(n)        == [kind |-> "num",  real |-> n,   name |-> "", items |-> <<>>]
Sym(x)        == [kind |-> "sym",  real |-> NaN, name |-> x,  items |-> <<>>]
List(items)   == [kind |-> "list", real |-> NaN, name |-> "", items |-> items]
Form(x, args) == List(<<Sym(x)>> \o args)
Truth(b)      == IF b THEN Sym("t") ELSE Sym("nil")

Builtins ==
  {"+", "*", "<", ">", "not", "length", "print", "if", "when", "cond", "progn", "and", "quote",
   "backquote", "comma", "setq", "list", "append", "car", "cdr", "eq"}

(* The number that a value counts as.                                      *)
Number(v) == CASE v.kind = "num"              -> v.real
               [] v.kind = "sym" /\ v.name = "t"   -> 1
               [] v.kind = "sym" /\ v.name = "nil" -> 0
               [] OTHER                       -> NaN

Sum(ns)    == IF NaN \in Range(ns) THEN NaN ELSE FoldSeq(+, 0, ns)
Product(ns) == IF NaN \in Range(ns) THEN NaN ELSE FoldSeq(LAMBDA x, y : x * y, 1, ns)
Less(m, n) == m # NaN /\ n # NaN /\ m < n

(* The innermost table with a variable, 0 if there is none.                *)
Holder(x, scope) ==
  Max({0} \cup {i \in DOMAIN scope : x \in DOMAIN scope[i]})

RECURSIVE Same(_, _)
(* Equality of data: numbers, and lists of equal elements.                 *)
Same(v, w) ==
  /\ v.kind = w.kind
  /\ \/ v.kind = "num" /\ v.real # NaN /\ v.real = w.real
     \/ /\ v.kind = "list" /\ Len(v.items) = Len(w.items)
        /\ \A i \in DOMAIN v.items : Same(v.items[i], w.items[i])

RECURSIVE Filled(_, _)
(* A template with the values of its variables filled in.                  *)
Filled(e, scope) ==
  IF e.kind # "list" \/ e.items = <<>> THEN e
  ELSE IF e.items[1] = Sym("comma")
       THEN LET x == e.items[2]
            IN  IF x.kind = "sym" THEN scope[Holder(x.name, scope)][x.name] ELSE x
       ELSE List([i \in DOMAIN e.items |-> Filled(e.items[i], scope)])

RECURSIVE Meaning(_, _, _), Meanings(_, _, _), OfBuiltin(_, _, _)
(* The values of forms in a row, each in the scope that the last one left. *)
Meanings(es, scope, defs) ==
  FoldLeft(LAMBDA done, e :
             LET one == Meaning(e, done.scope, defs)
             IN  [vs |-> Append(done.vs, one.v), scope |-> one.scope],
           [vs |-> <<>>, scope |-> scope], es)

(* Of a form that begins with the name of a special form or a primitive.   *)
OfBuiltin(e, scope, defs) ==
  LET a     == Tail(e.items)
      f     == e.items[1].name
      all   == Meanings(a, scope, defs)
      one   == Meaning(a[1], scope, defs)
      true  == Number(one.v) # 0
      then(i) == Meaning(a[i], one.scope, defs)
      Is(v)   == [v |-> v, scope |-> all.scope]
      v(i)    == all.vs[i]
      Open(i) == Meaning(a[i].items[1], scope, defs)
      numbers == [i \in DOMAIN all.vs |-> Number(v(i))]
      Holds(b) == Is(Num(IF b THEN 1 ELSE 0))
  IN  CASE f = "+"      -> Is(Num(Sum(numbers)))
        [] f = "*"      -> Is(Num(Product(numbers)))
        [] f = "<"      -> Holds(Less(numbers[1], numbers[2]))
        [] f = ">"      -> Holds(Less(numbers[2], numbers[1]))
        [] f = "not"    -> Is(Truth(Number(v(1)) = 0))
        [] f = "length" -> Is(Num(IF v(1).kind = "list" THEN Len(v(1).items) ELSE NaN))
        [] f = "if"     -> IF true THEN then(2) ELSE then(3)
        [] f = "when"   -> IF ~true THEN [one EXCEPT !.v = Sym("nil")]
                           ELSE IF Len(a) = 1 THEN [one EXCEPT !.v = Sym("t")]
                           ELSE then(2)
        [] f = "cond"   -> IF a = <<>> THEN Is(Sym("nil"))
                           ELSE IF Number(Open(1).v) # 0
                           THEN Meaning(Form("progn", Tail(a[1].items)), Open(1).scope, defs)
                           ELSE Meaning(Form("cond", Tail(a)), Open(1).scope, defs)
        [] f \in {"progn", "print"} -> Is(Last(all.vs))
        [] f = "and"    -> IF Len(a) = 1 \/ one.v = Num(0) THEN one
                           ELSE Meaning(Form("and", Tail(a)), one.scope, defs)
        [] f = "quote"  -> [v |-> a[1], scope |-> scope]
        [] f = "backquote" -> [v |-> Filled(a[1], scope), scope |-> scope]
        [] f = "comma"  -> [v |-> Filled(e, scope), scope |-> scope]
        [] f = "setq"   -> LET x == a[1].name
                               s == Meaning(a[2], scope, defs)
                               i == Max({1, Holder(x, scope)})
                           IN  [v |-> s.v,
                                scope |-> [s.scope EXCEPT ![i] = (x :> s.v) @@ @]]
        [] f = "list"   -> Is(List(all.vs))
        [] f = "append" -> Is(List(FlattenSeq([i \in DOMAIN all.vs |-> v(i).items])))
        [] f = "car"    -> Is(IF v(1).kind = "list" THEN v(1).items[1] ELSE Sym("nil"))
        [] f = "cdr"    -> Is(IF v(1).kind = "list" /\ Len(v(1).items) > 1
                              THEN List(Tail(v(1).items)) ELSE Sym("nil"))
        [] f = "eq"     -> Is(Truth(Same(v(1), v(2))))

(* A definition is [kind, params, body]; defs gives those of all functions *)
(* and macros.  A list that does not begin with one of these is data.      *)
Meaning(e, scope, defs) ==
  LET f == e.items[1].name
      d == defs[f]
      With(vs) == [i \in Range(d.params) |->
                     vs[CHOOSE k \in DOMAIN d.params : d.params[k] = i]]
      args == Meanings(Tail(e.items), scope, defs)
      expansion == Meaning(d.body, Append(scope, With(Tail(e.items))), defs)
      call == Meaning(d.body, Append(args.scope, With(args.vs)), defs)
      Itself == [v |-> e, scope |-> scope]
  IN  CASE e.kind = "num" -> Itself
        [] e.kind = "sym" -> LET i == Holder(e.name, scope)
                             IN  IF i = 0 THEN Itself
                                 ELSE [v |-> scope[i][e.name], scope |-> scope]
        [] e.kind = "list" /\ e.items = <<>>  -> [v |-> Sym("nil"), scope |-> scope]
        [] e.kind = "list" /\ e.items # <<>> ->
             IF e.items[1].kind # "sym" THEN Itself
             ELSE IF f \in Builtins THEN OfBuiltin(e, scope, defs)
             ELSE IF f \notin DOMAIN defs THEN Itself
             ELSE IF d.kind = "macro" THEN Meaning(expansion.v, scope, defs)
             ELSE [v |-> call.v, scope |-> Front(call.scope)]
=============================================================================
